---------------------------- MODULE RestoreProofs ----------------------------
(***************************************************************************)
(* Theorems about RestoreController, for every value of its constants.     *)
(***************************************************************************)
EXTENDS RestoreController, TLAPS, SequenceTheorems

-----------------------------------------------------------------------------
(* Lemmas about what Reconcile computes.                                   *)

(* After a write a copy holds the same object, with its type.              *)
LEMMA AfterObj ==
    ASSUME NEW T, NEW c \in CopyOf(T), NEW old, NEW new
    PROVE  /\ After(c, old, new) \in CopyOf(T)
           /\ After(c, old, new).obj = c.obj
           /\ After(c, old, new).fresh => c.fresh /\ new = old
BY DEF After, CopyOf

(* A copy that is made anew has the type of its object.                    *)
LEMMA CopyType ==
    ASSUME NEW T, NEW o \in T \cup {Nil}
    PROVE  /\ Copy(o) \in CopyOf(T \cup {Nil}) /\ NoCopy \in CopyOf(T \cup {Nil})
           /\ Copy(o).obj = o /\ Copy(o).fresh
           /\ NoCopy.obj = Nil /\ ~NoCopy.fresh
BY DEF Copy, NoCopy, CopyOf

(* An interval from 1 determines its length.                               *)
LEMMA SameLength ==
    ASSUME NEW a \in Nat, NEW b \in Nat, 1 .. a = 1 .. b
    PROVE  a = b
<1>1. a # 0 => a \in 1 .. b
  <2>1. a # 0 => a \in 1 .. a
    OBVIOUS
  <2>. QED
    BY <2>1
<1>2. b # 0 => b \in 1 .. a
  <2>1. b # 0 => b \in 1 .. b
    OBVIOUS
  <2>. QED
    BY <2>1
<1>. QED
  BY <1>1, <1>2

(* Each instance that is selected gets one status, which is pending.       *)
LEMMA PendingType ==
    ASSUME NEW targets \in Seq(Names)
    PROVE  /\ pendingStatuses(targets) \in InstanceStatuses
           /\ Len(pendingStatuses(targets)) = Len(targets)
<1>1. Len(targets) \in Nat /\ DOMAIN targets = 1 .. Len(targets)
  BY LenProperties
<1>2. \A i \in 1 .. Len(targets) : targets[i] \in Names
  BY ElementOfSeq
<1>3. pendingStatuses(targets) \in
          [1 .. Len(targets) -> [name : Names, phase : Phases]]
  BY <1>1, <1>2 DEF pendingStatuses, Phases
<1>4. pendingStatuses(targets) \in InstanceStatuses
  <2> DEFINE S == [name : Names, phase : Phases]
  <2>1. pendingStatuses(targets) \in [1 .. Len(targets) -> S]
    BY <1>3
  <2> HIDE DEF S
  <2>2. Seq(S) = UNION {[1 .. l -> S] : l \in Nat}
    BY SeqDef
  <2>3. pendingStatuses(targets) \in Seq(S)
    BY <1>1, <2>1, <2>2
  <2>. QED
    BY <2>3 DEF S, InstanceStatuses
<1> DEFINE n == Len(pendingStatuses(targets))
<1>5. n \in Nat /\ DOMAIN pendingStatuses(targets) = 1 .. n
  BY <1>4, LenProperties DEF InstanceStatuses
<1>6. 1 .. n = 1 .. Len(targets)
  BY <1>3, <1>5
<1> HIDE DEF n
<1>7. n = Len(targets)
  BY <1>1, <1>5, <1>6, SameLength
<1>. QED
  BY <1>4, <1>7 DEF n

(* A phase that is set keeps the number and the names of the statuses.     *)
LEMMA PhaseType ==
    ASSUME NEW s \in InstanceStatuses, NEW i \in DOMAIN s, NEW p \in Phases
    PROVE  /\ [s EXCEPT ![i].phase = p] \in InstanceStatuses
           /\ Len([s EXCEPT ![i].phase = p]) = Len(s)
<1> DEFINE r == [s EXCEPT ![i].phase = p]
<1>1. Len(s) \in Nat /\ DOMAIN s = 1 .. Len(s)
  BY LenProperties DEF InstanceStatuses
<1>2. \A k \in 1 .. Len(s) : s[k] \in [name : Names, phase : Phases]
  BY ElementOfSeq DEF InstanceStatuses
<1>3. r \in [1 .. Len(s) -> [name : Names, phase : Phases]]
  <2>1. s \in [1 .. Len(s) -> [name : Names, phase : Phases]]
    BY <1>1, <1>2, LenProperties DEF InstanceStatuses
  <2>2. [s[i] EXCEPT !.phase = p] \in [name : Names, phase : Phases]
    BY <1>1, <1>2
  <2>3. r = [s EXCEPT ![i] = [s[i] EXCEPT !.phase = p]]
    BY <2>1
  <2>. QED
    BY <1>1, <2>1, <2>2, <2>3
<1>. QED
  BY <1>1, <1>3, SeqDef, LenProperties DEF InstanceStatuses

(* The overall phase is a phase.                                           *)
LEMMA OverallType ==
    ASSUME NEW s \in InstanceStatuses
    PROVE  overall(s) \in Phases
BY DEF overall, Phases

(* The Job controller keeps what a Job is for.                             *)
LEMMA StepsOfJob ==
    ASSUME NEW j \in Job, NEW k \in JobSteps(j, FALSE)
    PROVE  k \in Job /\ k.owner = j.owner /\ k.target = j.target /\ k.state # "created"
BY DEF Job, JobOf, JobSteps, JobStates

(* The phase of a Job is a phase.                                          *)
LEMMA PhaseOfJob ==
    ASSUME NEW j \in Job, NEW p \in Phases
    PROVE  JobPhase(j, p) \in Phases
BY DEF Job, JobOf, JobPhase, JobStates, Phases

(* What is not Nil among the objects is an object.                         *)
LEMMA Objects ==
    /\ \A o \in Restore \cup {Nil} : o # Nil => o \in Restore
    /\ \A c \in Clusters \cup {Nil} : c # Nil => c \in Clusters
    /\ \A j \in Job \cup {Nil} : j # Nil => j \in Job
    /\ \A o \in Restore : o # Nil
    /\ \A j \in Job : j # Nil
BY RestoreNilAssumption

-----------------------------------------------------------------------------
(* Types.                                                                  *)

(* No copy and no local variables are well typed.                          *)
LEMMA Nothing ==
    /\ NoLocal \in Local /\ NoCopy \in CopyOf(Restore \cup {Nil})
    /\ NoCopy.obj = Nil /\ ~NoCopy.fresh
<1>1. <<>> \in Seq(Names)
  OBVIOUS
<1>. QED
  BY <1>1 DEF NoLocal, Local, NoCopy, CopyOf

(* In the beginning, everything has its type.                              *)
LEMMA TypeInit == Init => TypeOK /\ StepInv
<1> SUFFICES ASSUME Init PROVE TypeOK /\ StepInv
  OBVIOUS
<1>3. TypeOK
  <2>1. /\ Copy(restore) \in CopyOf(Restore \cup {Nil})
        /\ Copy(cluster) \in CopyOf(Clusters \cup {Nil})
        /\ Copy(backup) \in CopyOf(Backups \cup {Nil})
        /\ Copy(Nil) \in CopyOf(Job \cup {Nil}) /\ Copy(Nil) \in CopyOf(Restore \cup {Nil})
        /\ NoCopy \in CopyOf(Restore \cup {Nil})
    BY CopyType DEF Init
  <2>2. restore \in Restore \cup {Nil} /\ rcache \in CopyOf(Restore \cup {Nil})
    BY <2>1 DEF Init
  <2>3. /\ cluster \in Clusters \cup {Nil} /\ ccache \in CopyOf(Clusters \cup {Nil})
        /\ backup \in Backups \cup {Nil} /\ bcache \in CopyOf(Backups \cup {Nil})
    BY <2>1 DEF Init
  <2>4. /\ jobs \in [Names -> Job \cup {Nil}]
        /\ jcache \in [Names -> CopyOf(Job \cup {Nil})]
    BY <2>1 DEF Init
  <2>5. /\ started \in [Names -> SUBSET Uids] /\ restored \in [Names -> SUBSET Uids]
        /\ uids \in 0 .. MaxUid /\ events \in 0 .. MaxEvents
    BY RestoreBoundsAssumption DEF Init
  <2>6. /\ queued \in BOOLEAN /\ pc = "idle" /\ idx \in Nat \ {0}
        /\ me \in CopyOf(Restore \cup {Nil}) /\ local \in Local
    <3>1. queued = FALSE /\ pc = "idle" /\ idx = 1 /\ me = NoCopy /\ local = NoLocal
      BY DEF Init
    <3>2. idx \in Nat \ {0}
      BY <3>1
    <3>. QED
      BY <3>1, <3>2, Nothing
  <2>. QED
    BY <2>2, <2>3, <2>4, <2>5, <2>6 DEF TypeOK
<1>4. StepInv
  BY DEF Init, StepInv, restoring, creating, deleting
<1>. QED
  BY <1>3, <1>4

(* Writes keep the types.                                                  *)
LEMMA PutRestoreType ==
    ASSUME TypeOK, NEW o \in Restore \cup {Nil}, PutRestore(o)
    PROVE  restore' \in Restore \cup {Nil} /\ rcache' \in CopyOf(Restore \cup {Nil})
BY AfterObj DEF TypeOK, PutRestore

(* So do those of a Job.                                                   *)
LEMMA PutJobType ==
    ASSUME TypeOK, NEW n \in Names, NEW o \in Job \cup {Nil}, PutJob(n, o)
    PROVE  /\ jobs' \in [Names -> Job \cup {Nil}]
           /\ jcache' \in [Names -> CopyOf(Job \cup {Nil})]
           /\ \A x \in Names : jobs'[x] = IF x = n THEN o ELSE jobs[x]
           /\ \A x \in Names :
                 jcache'[x] = IF x = n THEN After(jcache[n], jobs[n], o) ELSE jcache[x]
<1>1. jcache[n] \in CopyOf(Job \cup {Nil})
  BY DEF TypeOK
<1>2. After(jcache[n], jobs[n], o) \in CopyOf(Job \cup {Nil})
  BY <1>1, AfterObj
<1>3. jobs' = [jobs EXCEPT ![n] = o]
  BY DEF PutJob
<1>4. jcache' = [jcache EXCEPT ![n] = After(jcache[n], jobs[n], o)]
  BY DEF PutJob
<1>. QED
  BY <1>2, <1>3, <1>4 DEF TypeOK

(* The copy of a round in progress is a restore.                           *)
LEMMA MeType ==
    ASSUME TypeOK, StepInv, pc # "idle"
    PROVE  /\ me.obj \in Restore /\ me.obj # Nil /\ me.obj.status \in Status
           /\ me.obj.status.instances \in InstanceStatuses
BY Objects DEF TypeOK, StepInv, CopyOf, Restore, Status

(* A status that is written has the type of a status.                      *)
LEMMA StatusType ==
    ASSUME NEW o \in Restore
    PROVE  /\ \A p \in Phases : [o EXCEPT !.status.phase = p] \in Restore
           /\ \A is \in InstanceStatuses : [o EXCEPT !.status.instances = is] \in Restore
           /\ [o EXCEPT !.fin = TRUE] \in Restore
           /\ [o EXCEPT !.del = TRUE] \in Restore
           /\ \A sel \in Selectors : [o EXCEPT !.sel = sel] \in Restore
BY DEF Restore, Status

(* Once a round is over, nothing is left of it.                            *)
LEMMA ReturnType ==
    ASSUME TypeOK, NEW q \in BOOLEAN, Return(q)
    PROVE  /\ queued' \in BOOLEAN /\ pc' = "idle" /\ idx' \in Nat \ {0}
           /\ me' = NoCopy /\ me' \in CopyOf(Restore \cup {Nil}) /\ local' \in Local
           /\ StepInv'
<1>1. queued \in BOOLEAN
  BY DEF TypeOK
<1>2. queued' \in BOOLEAN /\ pc' = "idle" /\ idx' = 1 /\ me' = NoCopy /\ local' = NoLocal
  BY <1>1 DEF Return
<1>3. StepInv'
  BY <1>2 DEF StepInv, restoring, creating, deleting
<1>. QED
  BY <1>2, <1>3, Nothing

(* Where Reconcile goes when it begins.                                    *)
LEMMA BeginType ==
    ASSUME NEW o \in Restore
    PROVE  /\ begin(o) \in {"delete", "finalizer", "idle", "init", "error"}
           /\ begin(o) = "delete" => o.del
           /\ begin(o) \in {"init", "error"} =>
                 ~o.del /\ o.fin /\ o.status.phase # "Completed"
           /\ begin(o) = "init" => ccache.obj # Nil /\ bcache.obj # Nil
<1>1. o.del \in BOOLEAN /\ o.fin \in BOOLEAN
  BY DEF Restore
<1> DEFINE found == /\ ccache.obj # Nil /\ bcache.obj # Nil
                    /\ selects(o.sel, ccache.obj)
<1>2. begin(o) = CASE o.del -> "delete"
                   [] ~o.del /\ ~o.fin -> "finalizer"
                   [] ~o.del /\ o.fin /\ o.status.phase = "Completed" -> "idle"
                   [] OTHER -> IF found THEN "init" ELSE "error"
  BY DEF begin
<1>3. found => ccache.obj # Nil /\ bcache.obj # Nil
  OBVIOUS
<1> HIDE DEF found
<1>4. CASE o.del
  BY <1>2, <1>4
<1>5. CASE ~o.del /\ ~o.fin
  BY <1>2, <1>5
<1>6. CASE ~o.del /\ o.fin /\ o.status.phase = "Completed"
  BY <1>2, <1>6
<1>7. CASE ~o.del /\ o.fin /\ o.status.phase # "Completed"
  <2>1. begin(o) = IF found THEN "init" ELSE "error"
    BY <1>2, <1>7
  <2>. QED
    BY <1>3, <1>7, <2>1
<1>. QED
  BY <1>4, <1>5, <1>6, <1>7

(* Beginning a round keeps types and establishes preconditions.            *)
LEMMA TypeStart == TypeOK /\ StepInv /\ Start => TypeOK' /\ StepInv'
<1> SUFFICES ASSUME TypeOK, StepInv, Start PROVE TypeOK' /\ StepInv'
  OBVIOUS
<1>1. UNCHANGED <<idx, own, others, work, history, bounds>> /\ queued' = FALSE
  BY DEF Start
<1>2. CASE rcache.obj = Nil
  BY <1>1, <1>2 DEF Start, TypeOK, StepInv, own, others, work, history, bounds, restoring,
     creating, deleting
<1>3. CASE rcache.obj # Nil
  <2>1. rcache.obj \in Restore /\ rcache \in CopyOf(Restore \cup {Nil})
    BY <1>3, Objects DEF TypeOK, CopyOf
  <2>2. pc' = begin(rcache.obj) /\ me' = IF pc' = "idle" THEN NoCopy ELSE rcache
    BY <1>3 DEF Start
  <2>3. me' \in CopyOf(Restore \cup {Nil}) /\ (pc' # "idle" => me'.obj = rcache.obj)
    BY <2>1, <2>2, CopyType
  <2>4. local' \in Local
    <3>1. CASE pc' # "init"
      <4>1. local' = NoLocal
        BY <1>3, <3>1 DEF Start
      <4>. QED
        BY <4>1, Nothing
    <3>2. CASE pc' = "init"
      <4>1. ccache.obj \in Clusters /\ bcache.obj \in Backups
        <5>1. ccache.obj # Nil /\ bcache.obj # Nil
          <6>1. begin(rcache.obj) = "init"
            BY <2>2, <3>2
          <6>. QED
            BY <2>1, <6>1, BeginType
        <5>2. ccache.obj \in Clusters \cup {Nil} /\ bcache.obj \in Backups \cup {Nil}
          BY DEF TypeOK, CopyOf
        <5>. QED
          BY <5>1, <5>2
      <4>2. getTargetInstances(rcache.obj.sel, ccache.obj) \in Seq(Names)
        BY <2>1, <4>1, SelectionAssumption DEF Restore
      <4>. QED
        BY <1>3, <3>2, <4>1, <4>2 DEF Start, Local
    <3>. QED
      BY <3>1, <3>2
  <2>5. TypeOK'
    BY <1>1, <2>1, <2>2, <2>3, <2>4, BeginType
       DEF TypeOK, own, others, work, history, bounds
  <2>6. StepInv'
    BY <2>1, <2>2, <2>3, BeginType, Objects
       DEF StepInv, restoring, creating, deleting
  <2>. QED
    BY <2>5, <2>6
<1>. QED
  BY <1>2, <1>3

(* So does adding the finalizer.                                           *)
LEMMA TypeAddFinalizer == TypeOK /\ StepInv /\ AddFinalizer => TypeOK' /\ StepInv'
<1> SUFFICES ASSUME TypeOK, StepInv, AddFinalizer PROVE TypeOK' /\ StepInv'
  OBVIOUS
<1>1. me.obj \in Restore
  BY MeType DEF AddFinalizer
<1>2. restore' \in Restore \cup {Nil} /\ rcache' \in CopyOf(Restore \cup {Nil})
  BY <1>1, StatusType, PutRestoreType DEF AddFinalizer, own, TypeOK
<1>3. Return(TRUE) /\ UNCHANGED <<others, work, history, bounds>>
  BY DEF AddFinalizer
<1>. QED
  BY <1>2, <1>3, ReturnType DEF TypeOK, others, work, history, bounds

(* The next instance, or the end of the instances.                         *)
LEMMA ProcessType ==
    ASSUME TypeOK, NEW j \in Nat \ {0}, NEW targets, Process(j, targets)
    PROVE  /\ pc' \in {"instance", "status"} /\ idx' \in Nat \ {0} /\ queued' \in BOOLEAN
           /\ idx' = j /\ (pc' = "instance" => j \in DOMAIN targets)
BY DEF TypeOK, Process, Goto

(* Initialising the statuses keeps types and preconditions.                *)
LEMMA TypeInitialize == TypeOK /\ StepInv /\ initializeStatuses => TypeOK' /\ StepInv'
<1> SUFFICES ASSUME TypeOK, StepInv, initializeStatuses PROVE TypeOK' /\ StepInv'
  OBVIOUS
<1> DEFINE o == [me.obj EXCEPT !.status.instances = pendingStatuses(local.targets)]
<1>0. 1 \in Nat \ {0}
  OBVIOUS
<1>1. me.obj \in Restore /\ me.obj.status \in Status
  BY MeType DEF initializeStatuses
<1>2. local.targets \in Seq(Names)
  BY DEF TypeOK, Local
<1>3. /\ pendingStatuses(local.targets) \in InstanceStatuses
      /\ Len(pendingStatuses(local.targets)) = Len(local.targets)
  BY <1>2, PendingType
<1>4. /\ o \in Restore /\ Len(o.status.instances) = Len(local.targets)
      /\ o.del = me.obj.del /\ o.fin = me.obj.fin
      /\ o.status.phase = me.obj.status.phase
  BY <1>1, <1>3, StatusType DEF Restore, Status
<1>5. UNCHANGED <<others, work, history, bounds>> /\ pc = "init"
  BY DEF initializeStatuses
<1>6. CASE Len(me.obj.status.instances) = Len(local.targets)
  <2>1. Process(1, local.targets) /\ UNCHANGED <<own, me, local>>
    BY <1>6 DEF initializeStatuses
  <2>2. TypeOK'
    BY <1>5, <2>1, <1>0, ProcessType DEF TypeOK, own, others, work, history, bounds
  <2>3. StepInv'
    BY <1>5, <1>6, <2>1, <1>0, ProcessType DEF StepInv, restoring, creating, deleting
  <2>. QED
    BY <2>2, <2>3
<1>7. CASE Len(me.obj.status.instances) # Len(local.targets) /\ me.fresh
  <2>1. PutRestore(o) /\ me' = Copy(restore') /\ Process(1, local.targets) /\ UNCHANGED local
    BY <1>7 DEF initializeStatuses
  <2>2. restore' = o /\ restore' \in Restore \cup {Nil}
    BY <1>4, <2>1 DEF PutRestore
  <2>3. rcache' \in CopyOf(Restore \cup {Nil})
    BY <1>4, <2>1, PutRestoreType
  <2>4. me' \in CopyOf(Restore \cup {Nil}) /\ me'.obj = o
    BY <2>1, <2>2, CopyType
  <2>5. TypeOK'
    BY <1>5, <2>1, <2>2, <2>3, <2>4, <1>0, ProcessType
       DEF TypeOK, others, work, history, bounds
  <2>6. StepInv'
    BY <1>4, <1>5, <2>1, <2>4, <1>0, ProcessType, Objects
       DEF StepInv, restoring, creating, deleting
  <2>. QED
    BY <2>5, <2>6
<1>8. CASE Len(me.obj.status.instances) # Len(local.targets) /\ ~me.fresh
  <2>1. Return(TRUE) /\ UNCHANGED own
    BY <1>8 DEF initializeStatuses
  <2>. QED
    BY <1>5, <2>1, ReturnType DEF TypeOK, own, others, work, history, bounds
<1>. QED
  BY <1>6, <1>7, <1>8

(* Setting a phase in memory changes nothing else of the copy.             *)
LEMMA SetPhaseType ==
    ASSUME TypeOK, StepInv, pc \in {"instance", "job"}, NEW p \in Phases, setPhase(p)
    PROVE  /\ me' \in CopyOf(Restore \cup {Nil}) /\ me'.obj # Nil /\ me'.fresh = me.fresh
           /\ me'.obj.uid = me.obj.uid /\ me'.obj.sel = me.obj.sel
           /\ me'.obj.del = me.obj.del /\ me'.obj.fin = me.obj.fin
           /\ me'.obj.status.phase = me.obj.status.phase
           /\ Len(me'.obj.status.instances) = Len(me.obj.status.instances)
<1> DEFINE is == me.obj.status.instances
<1> DEFINE new == [is EXCEPT ![idx].phase = p]
<1> DEFINE o == [me.obj EXCEPT !.status.instances = new]
<1>1. me.obj \in Restore /\ me.obj.status \in Status /\ is \in InstanceStatuses
  BY MeType
<1>2. idx \in DOMAIN is
  <2>1. idx \in DOMAIN local.targets /\ Len(is) = Len(local.targets)
    BY DEF StepInv
  <2>2. local.targets \in Seq(Names)
    BY DEF TypeOK, Local
  <2>3. DOMAIN local.targets = 1 .. Len(local.targets) /\ DOMAIN is = 1 .. Len(is)
    BY <1>1, <2>2, LenProperties DEF InstanceStatuses
  <2>. QED
    BY <2>1, <2>3
<1>3. new \in InstanceStatuses /\ Len(new) = Len(is)
  BY <1>1, <1>2, PhaseType
<1>4. me' = [me EXCEPT !.obj = o]
  BY <1>1 DEF setPhase, Restore, Status
<1>5. me \in CopyOf(Restore \cup {Nil})
  BY DEF TypeOK
<1>6. o \in Restore /\ o.status.instances = new /\ o.status.phase = me.obj.status.phase
      /\ o.uid = me.obj.uid /\ o.sel = me.obj.sel /\ o.del = me.obj.del /\ o.fin = me.obj.fin
  BY <1>1, <1>3, StatusType DEF Restore, Status
<1>7. me'.obj = o /\ me'.fresh = me.fresh /\ me' \in CopyOf(Restore \cup {Nil})
  BY <1>4, <1>5, <1>6 DEF CopyOf
<1>. QED
  BY <1>3, <1>6, <1>7, Objects

(* Nor does it change which instances there are.                           *)
LEMMA SetPhaseDomain ==
    ASSUME TypeOK, StepInv, pc \in {"instance", "job"}, NEW p \in Phases, setPhase(p)
    PROVE  DOMAIN me'.obj.status.instances = DOMAIN me.obj.status.instances
<1>1. /\ me'.obj \in Restore /\ me.obj \in Restore
      /\ Len(me'.obj.status.instances) = Len(me.obj.status.instances)
  BY SetPhaseType, MeType, Objects DEF CopyOf
<1>2. me'.obj.status.instances \in InstanceStatuses /\ me.obj.status.instances \in InstanceStatuses
  BY <1>1 DEF Restore, Status
<1>. QED
  BY <1>1, <1>2, LenProperties DEF InstanceStatuses

(* The status and the target that a step works on.                         *)
LEMMA AtIndex ==
    ASSUME TypeOK, StepInv, pc \in {"instance", "job"}
    PROVE  /\ local.targets[idx] \in Names
           /\ me.obj.status.instances[idx].name \in Names
           /\ me.obj.status.instances[idx].phase \in Phases
           /\ idx + 1 \in Nat \ {0}
<1> DEFINE is == me.obj.status.instances
<1>1. is \in InstanceStatuses
  BY MeType
<1>2. idx \in DOMAIN local.targets /\ Len(is) = Len(local.targets)
  BY DEF StepInv
<1>3. local.targets \in Seq(Names)
  BY DEF TypeOK, Local
<1>4. DOMAIN local.targets = 1 .. Len(local.targets) /\ DOMAIN is = 1 .. Len(is)
  BY <1>1, <1>3, LenProperties DEF InstanceStatuses
<1>5. local.targets[idx] \in Names
  BY <1>2, <1>3, <1>4, LenProperties, ElementOfSeq
<1>6. is[idx] \in [name : Names, phase : Phases]
  BY <1>1, <1>2, <1>4, LenProperties, ElementOfSeq DEF InstanceStatuses
<1>7. idx + 1 \in Nat \ {0}
  BY DEF TypeOK
<1>. QED
  BY <1>5, <1>6, <1>7

(* Local variables of a round keep their types.                            *)
LEMMA LocalType ==
    ASSUME TypeOK, NEW n \in Names \cup {Nil}
    PROVE  /\ [local EXCEPT !.job = n] \in Local
           /\ [local EXCEPT !.job = n].targets = local.targets
           /\ [local EXCEPT !.job = n].job = n
BY DEF TypeOK, Local

(* Processing an instance keeps types and preconditions.                   *)
LEMMA TypeEnsureJob == TypeOK /\ StepInv /\ ensureJob => TypeOK' /\ StepInv'
<1> SUFFICES ASSUME TypeOK, StepInv, ensureJob PROVE TypeOK' /\ StepInv'
  OBVIOUS
<1> DEFINE status == me.obj.status.instances[idx]
<1> DEFINE t == local.targets[idx]
<1>0. 1 \in Nat \ {0}
  OBVIOUS
<1>1. pc = "instance" /\ UNCHANGED <<own, others, restored, bounds>>
  BY DEF ensureJob
<1>2. t \in Names /\ status.name \in Names /\ idx + 1 \in Nat \ {0} /\ idx \in Nat \ {0}
  BY <1>1, AtIndex DEF TypeOK
<1>3. me.obj \in Restore /\ me.obj.uid \in Uids
  BY <1>1, MeType DEF Restore
<1>4. CASE status.phase = "Completed"
  <2>1. Process(idx + 1, local.targets) /\ UNCHANGED <<me, local, work, started>>
    BY <1>4 DEF ensureJob
  <2>2. TypeOK'
    BY <1>1, <1>2, <2>1, ProcessType DEF TypeOK, own, others, work, bounds
  <2>3. StepInv'
    BY <1>1, <1>2, <2>1, ProcessType DEF StepInv, restoring, creating, deleting
  <2>. QED
    BY <2>2, <2>3
<1>5. CASE status.phase # "Completed" /\ jcache[status.name].obj # Nil
  <2>1. /\ Goto("job", idx) /\ local' = [local EXCEPT !.job = status.name]
        /\ UNCHANGED <<me, work, started>>
    BY <1>5 DEF ensureJob
  <2>2. /\ local' \in Local /\ local'.targets = local.targets /\ local'.job = status.name
        /\ pc' = "job" /\ idx' = idx /\ UNCHANGED queued
    BY <1>2, <2>1, LocalType DEF Goto
  <2>3. TypeOK'
    BY <1>1, <1>2, <2>1, <2>2 DEF TypeOK, own, others, work, bounds
  <2>4. StepInv'
    BY <1>1, <1>2, <2>1, <2>2, RestoreNilAssumption DEF StepInv, restoring, creating, deleting
  <2>. QED
    BY <2>3, <2>4
<1>6. CASE /\ status.phase # "Completed" /\ jcache[status.name].obj = Nil
           /\ createRestoreJob(local.backup) /\ jobs[t] = Nil
  <2>1. /\ PutJob(t, NewJob(me.obj.uid, t)) /\ setPhase("Running") /\ Goto("job", idx)
        /\ started' = [started EXCEPT ![t] = @ \cup {me.obj.uid}]
        /\ local' = [local EXCEPT !.job = t]
    BY <1>6 DEF ensureJob
  <2>2. NewJob(me.obj.uid, t) \in Job
    BY <1>2, <1>3 DEF NewJob, Job, JobOf, JobStates
  <2>3. jobs' \in [Names -> Job \cup {Nil}] /\ jcache' \in [Names -> CopyOf(Job \cup {Nil})]
    BY <1>2, <2>1, <2>2, PutJobType
  <2>4. started' \in [Names -> SUBSET Uids]
    BY <1>2, <1>3, <2>1 DEF TypeOK
  <2>5. /\ local' \in Local /\ local'.targets = local.targets /\ local'.job = t
        /\ pc' = "job" /\ idx' = idx /\ UNCHANGED queued
    BY <1>2, <2>1, LocalType DEF Goto
  <2>6. "Running" \in Phases
    BY DEF Phases
  <2>7. /\ me' \in CopyOf(Restore \cup {Nil}) /\ me'.obj # Nil
        /\ me'.obj.del = me.obj.del /\ me'.obj.fin = me.obj.fin
        /\ me'.obj.status.phase = me.obj.status.phase
        /\ Len(me'.obj.status.instances) = Len(me.obj.status.instances)
    BY <1>1, <2>1, <2>6, SetPhaseType
  <2>8. TypeOK'
    BY <1>1, <2>3, <2>4, <2>5, <2>7 DEF TypeOK, own, others, bounds
  <2>9. StepInv'
    BY <1>1, <1>2, <2>5, <2>7, RestoreNilAssumption DEF StepInv, restoring, creating, deleting
  <2>. QED
    BY <2>8, <2>9
<1>7. CASE /\ status.phase # "Completed" /\ jcache[status.name].obj = Nil
           /\ ~(createRestoreJob(local.backup) /\ jobs[t] = Nil)
  <2>1. Fail
    BY <1>7 DEF ensureJob
  <2>2. pc' = "error" /\ idx' \in Nat \ {0}
        /\ UNCHANGED <<queued, me, local, jobs, jcache, started>>
    BY <2>1, <1>0 DEF Fail, Goto
  <2>3. TypeOK'
    BY <1>1, <2>2 DEF TypeOK, own, others, bounds
  <2>4. StepInv'
    BY <1>1, <2>2 DEF StepInv, restoring, creating, deleting
  <2>. QED
    BY <2>3, <2>4
<1>. QED
  BY <1>4, <1>5, <1>6, <1>7

(* So does looking a Job up.                                               *)
LEMMA TypeUpdateJob == TypeOK /\ StepInv /\ updateJobStatus => TypeOK' /\ StepInv'
<1> SUFFICES ASSUME TypeOK, StepInv, updateJobStatus PROVE TypeOK' /\ StepInv'
  OBVIOUS
<1> DEFINE status == me.obj.status.instances[idx]
<1>1. pc = "job" /\ UNCHANGED <<own, others, work, history, bounds>>
  BY DEF updateJobStatus
<1>2. status.phase \in Phases /\ idx + 1 \in Nat \ {0}
  BY <1>1, AtIndex
<1>3. local.job \in Names
  BY <1>1 DEF TypeOK, Local, StepInv
<1>4. /\ me' \in CopyOf(Restore \cup {Nil}) /\ me'.obj # Nil
      /\ me'.obj.del = me.obj.del /\ me'.obj.fin = me.obj.fin
      /\ me'.obj.status.phase = me.obj.status.phase
      /\ Len(me'.obj.status.instances) = Len(me.obj.status.instances)
  <2>1. CASE jcache[local.job].obj = Nil
    <3>1. me' = me
      BY <2>1 DEF updateJobStatus
    <3>. QED
      BY <1>1, <3>1, MeType DEF TypeOK
  <2>2. CASE jcache[local.job].obj # Nil
    <3>1. jcache[local.job].obj \in Job
      BY <1>3, <2>2, Objects DEF TypeOK, CopyOf
    <3>2. JobPhase(jcache[local.job].obj, status.phase) \in Phases
      BY <1>2, <3>1, PhaseOfJob
    <3>3. setPhase(JobPhase(jcache[local.job].obj, status.phase))
      BY <2>2 DEF updateJobStatus
    <3>. QED
      BY <1>1, <3>2, <3>3, SetPhaseType
  <2>. QED
    BY <2>1, <2>2
<1>5. /\ local' \in Local /\ local'.targets = local.targets
      /\ Process(idx + 1, local.targets)
  BY LocalType DEF updateJobStatus
<1>6. /\ pc' \in {"instance", "status"} /\ idx' \in Nat \ {0} /\ queued' \in BOOLEAN
      /\ (pc' = "instance" => idx' \in DOMAIN local'.targets)
  BY <1>2, <1>5, ProcessType
<1>7. TypeOK'
  BY <1>1, <1>4, <1>5, <1>6 DEF TypeOK, own, others, work, history, bounds
<1>8. StepInv'
  BY <1>1, <1>4, <1>5, <1>6 DEF StepInv, restoring, creating, deleting
<1>. QED
  BY <1>7, <1>8

(* Summing the statuses up keeps types.                                    *)
LEMMA TypeUpdateStatus == TypeOK /\ StepInv /\ updateRestoreStatus => TypeOK' /\ StepInv'
<1> SUFFICES ASSUME TypeOK, StepInv, updateRestoreStatus PROVE TypeOK' /\ StepInv'
  OBVIOUS
<1>1. me.obj \in Restore /\ me.obj.status.instances \in InstanceStatuses
  BY MeType DEF updateRestoreStatus
<1>2. overall(me.obj.status.instances) \in Phases
  BY <1>1, OverallType
<1>3. restore' \in Restore \cup {Nil} /\ rcache' \in CopyOf(Restore \cup {Nil})
  BY <1>1, <1>2, StatusType, PutRestoreType DEF updateRestoreStatus, own, TypeOK
<1>4. Return(TRUE) /\ UNCHANGED <<others, work, history, bounds>>
  BY DEF updateRestoreStatus
<1>. QED
  BY <1>3, <1>4, ReturnType DEF TypeOK, others, work, history, bounds

(* So does reporting a failure.                                            *)
LEMMA TypeHandleError == TypeOK /\ StepInv /\ handleError => TypeOK' /\ StepInv'
<1> SUFFICES ASSUME TypeOK, StepInv, handleError PROVE TypeOK' /\ StepInv'
  OBVIOUS
<1>1. me.obj \in Restore /\ "Failed" \in Phases
  BY MeType DEF handleError, Phases
<1>2. restore' \in Restore \cup {Nil} /\ rcache' \in CopyOf(Restore \cup {Nil})
  BY <1>1, StatusType, PutRestoreType DEF handleError, own, TypeOK
<1>3. Return(TRUE) /\ UNCHANGED <<others, work, history, bounds>>
  BY DEF handleError
<1>. QED
  BY <1>2, <1>3, ReturnType DEF TypeOK, others, work, history, bounds

(* The status that a deletion looks at names an instance.                  *)
LEMMA AtDeletion ==
    ASSUME TypeOK, StepInv, pc = "delete", ~(idx > Len(me.obj.status.instances))
    PROVE  me.obj.status.instances[idx].name \in Names /\ idx + 1 \in Nat \ {0}
<1> DEFINE is == me.obj.status.instances
<1>1. is \in Seq([name : Names, phase : Phases])
  BY MeType DEF InstanceStatuses
<1>2. Len(is) \in Nat /\ DOMAIN is = 1 .. Len(is)
  BY <1>1, LenProperties
<1>3. idx \in 1 .. Len(is) /\ idx + 1 \in Nat \ {0}
  BY <1>2 DEF TypeOK
<1>4. is[idx] \in [name : Names, phase : Phases]
  BY <1>1, <1>3, ElementOfSeq
<1>. QED
  BY <1>3, <1>4

(* So does deleting the Jobs.                                              *)
LEMMA TypeDeleteJobs == TypeOK /\ StepInv /\ deleteJobs => TypeOK' /\ StepInv'
<1> SUFFICES ASSUME TypeOK, StepInv, deleteJobs PROVE TypeOK' /\ StepInv'
  OBVIOUS
<1>0. 1 \in Nat \ {0}
  OBVIOUS
<1>1. pc = "delete" /\ UNCHANGED <<me, local, own, others, history, bounds>>
  BY DEF deleteJobs
<1>2. CASE idx > Len(me.obj.status.instances)
  <2>1. pc' = "release" /\ idx' \in Nat \ {0} /\ UNCHANGED <<queued, work>>
    BY <1>0, <1>2 DEF deleteJobs, Goto
  <2>2. TypeOK'
    BY <1>1, <2>1 DEF TypeOK, own, others, work, history, bounds
  <2>3. StepInv'
    BY <1>1, <2>1 DEF StepInv, restoring, creating, deleting
  <2>. QED
    BY <2>2, <2>3
<1>3. CASE ~(idx > Len(me.obj.status.instances))
  <2> DEFINE n == me.obj.status.instances[idx].name
  <2>1. n \in Names /\ idx + 1 \in Nat \ {0}
    BY <1>1, <1>3, AtDeletion
  <2>2. PutJob(n, Nil) /\ pc' = "delete" /\ idx' = idx + 1 /\ UNCHANGED queued
    BY <1>3 DEF deleteJobs, Goto
  <2>3. jobs' \in [Names -> Job \cup {Nil}] /\ jcache' \in [Names -> CopyOf(Job \cup {Nil})]
    BY <2>1, <2>2, PutJobType
  <2>4. TypeOK'
    BY <1>1, <2>1, <2>2, <2>3 DEF TypeOK, own, others, history, bounds
  <2>5. StepInv'
    BY <1>1, <2>2 DEF StepInv, restoring, creating, deleting
  <2>. QED
    BY <2>4, <2>5
<1>. QED
  BY <1>2, <1>3

(* So do removing the finalizer, a failed call and a restart.              *)
LEMMA TypeRemoveFinalizer == TypeOK /\ StepInv /\ RemoveFinalizer => TypeOK' /\ StepInv'
<1> SUFFICES ASSUME TypeOK, StepInv, RemoveFinalizer PROVE TypeOK' /\ StepInv'
  OBVIOUS
<1>1. restore' \in Restore \cup {Nil} /\ rcache' \in CopyOf(Restore \cup {Nil})
  BY PutRestoreType DEF RemoveFinalizer, own, TypeOK
<1>2. me.fresh \in BOOLEAN
  BY DEF TypeOK, CopyOf
<1>3. Return(~me.fresh) /\ UNCHANGED <<others, work, history, bounds>>
  BY DEF RemoveFinalizer
<1>. QED
  BY <1>1, <1>2, <1>3, ReturnType DEF TypeOK, others, work, history, bounds

(* A bounded counter that is counted up keeps its bound.                   *)
LEMMA Counting == TypeOK /\ events < MaxEvents => events + 1 \in 0 .. MaxEvents
BY RestoreBoundsAssumption DEF TypeOK

(* A round that is cut short keeps the types.                              *)
LEMMA TypeAbort == TypeOK /\ StepInv /\ Abort => TypeOK' /\ StepInv'
<1> SUFFICES ASSUME TypeOK, StepInv, Abort PROVE TypeOK' /\ StepInv'
  OBVIOUS
<1>1. Return(TRUE) /\ UNCHANGED <<own, others, work, history, uids>>
  BY DEF Abort
<1>2. events' \in 0 .. MaxEvents
  BY Counting DEF Abort
<1>. QED
  BY <1>1, <1>2, ReturnType DEF TypeOK, own, others, work, history

(* A call that fails leaves the statuses that were computed in memory.     *)
LEMMA FailingType ==
    ASSUME TypeOK, StepInv, CallFails
    PROVE  /\ me' \in CopyOf(Restore \cup {Nil}) /\ me'.obj # Nil /\ me'.fresh = me.fresh
           /\ me'.obj.uid = me.obj.uid /\ me'.obj.sel = me.obj.sel
           /\ me'.obj.del = me.obj.del /\ me'.obj.fin = me.obj.fin
           /\ me'.obj.status.phase = me.obj.status.phase
<1>1. me.obj \in Restore /\ me.obj.status \in Status /\ me.obj # Nil
  BY MeType DEF CallFails
<1>2. me \in CopyOf(Restore \cup {Nil})
  BY DEF TypeOK
<1>3. CASE me' = me
  BY <1>1, <1>2, <1>3
<1>4. CASE me' # me
  <2> DEFINE is == pendingStatuses(local.targets)
  <2> DEFINE o == [me.obj EXCEPT !.status.instances = is]
  <2>1. me' = [me EXCEPT !.obj.status.instances = is]
    BY <1>4 DEF CallFails
  <2>2. is \in InstanceStatuses
    BY PendingType DEF TypeOK, Local
  <2> HIDE DEF is
  <2>3. me' = [me EXCEPT !.obj = o]
    BY <1>1, <2>1 DEF Restore, Status
  <2>4. /\ o \in Restore /\ o.uid = me.obj.uid /\ o.sel = me.obj.sel
        /\ o.del = me.obj.del /\ o.fin = me.obj.fin
        /\ o.status.phase = me.obj.status.phase
    BY <1>1, <2>2, StatusType DEF Restore, Status
  <2>5. me'.obj = o /\ me'.fresh = me.fresh /\ me' \in CopyOf(Restore \cup {Nil})
    BY <1>2, <2>3, <2>4 DEF CopyOf
  <2>. QED
    BY <2>4, <2>5, Objects
<1>. QED
  BY <1>3, <1>4

(* So does a call that fails.                                              *)
LEMMA TypeCallFails == TypeOK /\ StepInv /\ CallFails => TypeOK' /\ StepInv'
<1> SUFFICES ASSUME TypeOK, StepInv, CallFails PROVE TypeOK' /\ StepInv'
  OBVIOUS
<1>0. 1 \in Nat \ {0}
  OBVIOUS
<1>1. /\ UNCHANGED <<local, own, others, work, history, uids>>
      /\ pc \in {"init", "instance", "job", "status"}
      /\ pc' = "error" /\ idx' \in Nat \ {0} /\ queued' = queued
  BY <1>0 DEF CallFails, Goto
<1>2. events' \in 0 .. MaxEvents
  BY Counting DEF CallFails
<1>3. TypeOK'
  BY <1>1, <1>2, FailingType DEF TypeOK, own, others, work, history
<1>4. StepInv'
  BY <1>1, FailingType DEF StepInv, restoring, creating, deleting
<1>. QED
  BY <1>3, <1>4

(* The watches keep types.                                                 *)
LEMMA TypeWatches ==
    TypeOK /\ StepInv /\ (SyncRestore \/ SyncCluster \/ SyncBackup \/ \E n \in Names : SyncJob(n))
        => TypeOK' /\ StepInv'
<1> SUFFICES ASSUME TypeOK, StepInv,
                    SyncRestore \/ SyncCluster \/ SyncBackup \/ \E n \in Names : SyncJob(n)
             PROVE  TypeOK' /\ StepInv'
  OBVIOUS
<1>1. /\ Copy(restore) \in CopyOf(Restore \cup {Nil})
      /\ Copy(cluster) \in CopyOf(Clusters \cup {Nil})
      /\ Copy(backup) \in CopyOf(Backups \cup {Nil})
  BY CopyType DEF TypeOK
<1>2. CASE SyncRestore
  <2>1. TypeOK'
    BY <1>1, <1>2 DEF SyncRestore, TypeOK, others, work, history, bounds
  <2>2. StepInv'
    BY <1>2 DEF SyncRestore, StepInv, restoring, creating, deleting
  <2>. QED
    BY <2>1, <2>2
<1>3. CASE SyncCluster
  <2>1. TypeOK'
    BY <1>1, <1>3 DEF SyncCluster, TypeOK, own, work, progress, history, bounds
  <2>2. StepInv'
    BY <1>3 DEF SyncCluster, StepInv, progress, restoring, creating, deleting
  <2>. QED
    BY <2>1, <2>2
<1>4. CASE SyncBackup
  <2>1. TypeOK'
    BY <1>1, <1>4 DEF SyncBackup, TypeOK, own, work, progress, history, bounds
  <2>2. StepInv'
    BY <1>4 DEF SyncBackup, StepInv, progress, restoring, creating, deleting
  <2>. QED
    BY <2>1, <2>2
<1>5. CASE \E n \in Names : SyncJob(n)
  <2>1. PICK n \in Names : SyncJob(n)
    BY <1>5
  <2>2. Copy(jobs[n]) \in CopyOf(Job \cup {Nil})
    BY CopyType DEF TypeOK
  <2>3. jcache' \in [Names -> CopyOf(Job \cup {Nil})]
    BY <2>1, <2>2 DEF SyncJob, TypeOK
  <2>4. TypeOK'
    BY <2>1, <2>3 DEF SyncJob, TypeOK, own, others, history, bounds
  <2>5. StepInv'
    BY <2>1 DEF SyncJob, StepInv, restoring, creating, deleting
  <2>. QED
    BY <2>4, <2>5
<1>. QED
  BY <1>2, <1>3, <1>4, <1>5

(* A restore that people write leaves the round in progress where it is.   *)
LEMMA OutsideType ==
    ASSUME TypeOK, StepInv, NEW o \in Restore \cup {Nil}, PutRestoreOutside(o),
           uids' \in 0 .. MaxUid, events' \in 0 .. MaxEvents
    PROVE  TypeOK' /\ StepInv'
<1>1. /\ PutRestore(o) /\ me' = After(me, restore, o)
      /\ UNCHANGED <<others, work, queued, pc, idx, local, history>>
  BY DEF PutRestoreOutside
<1>2. restore' \in Restore \cup {Nil} /\ rcache' \in CopyOf(Restore \cup {Nil})
  BY <1>1, PutRestoreType
<1>3. me' \in CopyOf(Restore \cup {Nil}) /\ me'.obj = me.obj
  BY <1>1, AfterObj DEF TypeOK
<1>4. TypeOK'
  BY <1>1, <1>2, <1>3 DEF TypeOK, others, work, history
<1>5. StepInv'
  BY <1>1, <1>3 DEF StepInv, restoring, creating, deleting
<1>. QED
  BY <1>4, <1>5

(* People keep types.                                                      *)
LEMMA TypePeople ==
    ASSUME TypeOK, StepInv,
           \/ \E s \in Selectors : CreateRestore(s) \/ EditRestore(s)
           \/ DeleteRestore
    PROVE  TypeOK' /\ StepInv'
<1>1. CASE \E s \in Selectors : CreateRestore(s)
  <2>1. PICK s \in Selectors : CreateRestore(s)
    BY <1>1
  <2>2. uids' \in 0 .. MaxUid /\ uids + 1 \in Uids
    BY <2>1, RestoreBoundsAssumption DEF CreateRestore, TypeOK, Uids
  <2>3. events' \in 0 .. MaxEvents
    BY <2>1, Counting DEF CreateRestore, TypeOK
  <2> DEFINE o == [uid |-> uids + 1, del |-> FALSE, fin |-> FALSE, sel |-> s,
                   status |-> NoStatus]
  <2>4. o \in Restore
    BY <2>2 DEF Restore, Status, NoStatus, InstanceStatuses
  <2>. QED
    BY <2>1, <2>2, <2>3, <2>4, OutsideType DEF CreateRestore
<1>2. CASE \E s \in Selectors : EditRestore(s)
  <2>1. PICK s \in Selectors : EditRestore(s)
    BY <1>2
  <2>2. [restore EXCEPT !.sel = s] \in Restore
    BY <2>1, Objects, StatusType DEF EditRestore, TypeOK
  <2>3. events' \in 0 .. MaxEvents /\ uids' \in 0 .. MaxUid
    BY <2>1, Counting DEF EditRestore, TypeOK
  <2>. QED
    BY <2>1, <2>2, <2>3, OutsideType DEF EditRestore
<1>3. CASE DeleteRestore
  <2> DEFINE o == IF restore.fin THEN [restore EXCEPT !.del = TRUE] ELSE Nil
  <2>1. o \in Restore \cup {Nil}
    BY <1>3, Objects, StatusType DEF DeleteRestore, TypeOK
  <2>2. events' \in 0 .. MaxEvents /\ uids' \in 0 .. MaxUid
    BY <1>3 DEF DeleteRestore, TypeOK, bounds
  <2>. QED
    BY <1>3, <2>1, <2>2, OutsideType DEF DeleteRestore
<1>. QED
  BY <1>1, <1>2, <1>3

(* So do changes of the cluster and of the backup.                         *)
LEMMA TypeOthers ==
    ASSUME TypeOK, StepInv,
           \/ \E c \in Clusters \cup {Nil} : ChangeCluster(c)
           \/ \E b \in Backups \cup {Nil} : ChangeBackup(b)
    PROVE  TypeOK' /\ StepInv'
<1>1. CASE \E c \in Clusters \cup {Nil} : ChangeCluster(c)
  <2>1. PICK c \in Clusters \cup {Nil} : ChangeCluster(c)
    BY <1>1
  <2>2. ccache' \in CopyOf(Clusters \cup {Nil})
    BY <2>1, AfterObj DEF ChangeCluster, TypeOK
  <2>3. events' \in 0 .. MaxEvents
    BY <2>1, Counting DEF ChangeCluster
  <2>4. TypeOK'
    BY <2>1, <2>2, <2>3 DEF ChangeCluster, TypeOK, own, work, progress, history
  <2>5. StepInv'
    BY <2>1 DEF ChangeCluster, StepInv, progress, restoring, creating, deleting
  <2>. QED
    BY <2>4, <2>5
<1>2. CASE \E b \in Backups \cup {Nil} : ChangeBackup(b)
  <2>1. PICK b \in Backups \cup {Nil} : ChangeBackup(b)
    BY <1>2
  <2>2. bcache' \in CopyOf(Backups \cup {Nil})
    BY <2>1, AfterObj DEF ChangeBackup, TypeOK
  <2>3. events' \in 0 .. MaxEvents
    BY <2>1, Counting DEF ChangeBackup
  <2>4. TypeOK'
    BY <2>1, <2>2, <2>3 DEF ChangeBackup, TypeOK, own, work, progress, history
  <2>5. StepInv'
    BY <2>1 DEF ChangeBackup, StepInv, progress, restoring, creating, deleting
  <2>. QED
    BY <2>4, <2>5
<1>. QED
  BY <1>1, <1>2

(* So do the Job controller, whoever deletes Jobs and the collector.       *)
LEMMA TypeJobs ==
    ASSUME TypeOK, StepInv, NEW n \in Names, RunJob(n) \/ RemoveJob(n) \/ CollectJob(n)
    PROVE  TypeOK' /\ StepInv'
<1>1. CASE RunJob(n)
  <2>1. jobs[n] \in Job
    BY <1>1, Objects DEF RunJob, TypeOK
  <2>2. PICK j \in JobSteps(jobs[n], FALSE) :
            /\ PutJob(n, j)
            /\ restored' = IF j.state = "completed"
                           THEN [restored EXCEPT ![j.target] = @ \cup {j.owner}] ELSE restored
    BY <1>1 DEF RunJob
  <2>3. j \in Job /\ j.target \in Names /\ j.owner \in Uids
    BY <2>1, StepsOfJob DEF Job, JobOf
  <2>4. jobs' \in [Names -> Job \cup {Nil}] /\ jcache' \in [Names -> CopyOf(Job \cup {Nil})]
    BY <2>2, <2>3, PutJobType
  <2>5. restored' \in [Names -> SUBSET Uids]
    BY <2>2, <2>3 DEF TypeOK
  <2>6. UNCHANGED <<own, others, progress, started, bounds>>
    BY <1>1 DEF RunJob
  <2>7. TypeOK'
    BY <2>4, <2>5, <2>6 DEF TypeOK, own, others, progress, bounds
  <2>8. StepInv'
    BY <2>6 DEF StepInv, progress, restoring, creating, deleting
  <2>. QED
    BY <2>7, <2>8
<1>2. CASE RemoveJob(n) \/ CollectJob(n)
  <2>1. PutJob(n, Nil) /\ UNCHANGED <<own, others, progress, restored, uids>>
    BY <1>2 DEF RemoveJob, CollectJob, history, bounds
  <2>2. jobs' \in [Names -> Job \cup {Nil}] /\ jcache' \in [Names -> CopyOf(Job \cup {Nil})]
    BY <2>1, PutJobType
  <2>3. started' \in [Names -> SUBSET Uids] /\ events' \in 0 .. MaxEvents
    BY <1>2, Counting DEF RemoveJob, CollectJob, TypeOK, history, bounds
  <2>4. TypeOK'
    BY <2>1, <2>2, <2>3 DEF TypeOK, own, others, progress
  <2>5. StepInv'
    BY <2>1 DEF StepInv, progress, restoring, creating, deleting
  <2>. QED
    BY <2>4, <2>5
<1>. QED
  BY <1>1, <1>2

(* Every step keeps the types and what the steps rely on.                  *)
LEMMA TypeNext == TypeOK /\ StepInv /\ [Next]_vars => TypeOK' /\ StepInv'
<1> SUFFICES ASSUME TypeOK, StepInv, [Next]_vars PROVE TypeOK' /\ StepInv'
  OBVIOUS
<1>1. CASE Reconcile
  BY <1>1, TypeStart, TypeAddFinalizer, TypeInitialize, TypeEnsureJob, TypeUpdateJob,
     TypeUpdateStatus, TypeHandleError, TypeDeleteJobs, TypeRemoveFinalizer DEF Reconcile
<1>2. CASE Abort \/ CallFails
  BY <1>2, TypeAbort, TypeCallFails
<1>3. CASE People
  BY <1>3, TypePeople, TypeOthers, TypeJobs DEF People
<1>4. CASE World
  BY <1>4, TypeWatches, TypeJobs DEF World
<1>5. CASE UNCHANGED vars
  <2>1. TypeOK'
    BY <1>5 DEF vars, TypeOK
  <2>2. StepInv'
    BY <1>5 DEF vars, StepInv, restoring, creating, deleting
  <2>. QED
    BY <2>1, <2>2
<1>. QED
  BY <1>1, <1>2, <1>3, <1>4, <1>5 DEF Next

(* Every variable of the restore controller and of its surroundings keeps  *)
(* its type, however calls fail and people interfere.                      *)
THEOREM TypeCorrect == Spec => []TypeOK
<1>1. Init => TypeOK /\ StepInv
  BY TypeInit
<1>2. TypeOK /\ StepInv /\ [Next]_vars => TypeOK' /\ StepInv'
  BY TypeNext
<1>. QED
  BY <1>1, <1>2, PTL DEF Spec

-----------------------------------------------------------------------------
(* The inductive invariant.                                                *)

Facts == FreshInv /\ OrderInv /\ CopyInv /\ OwnerInv /\ StartedInv

(* In the beginning there is nothing that it could be wrong about.         *)
LEMMA FactsInit == Init => Facts
<1> SUFFICES ASSUME Init PROVE Facts
  OBVIOUS
<1>1. /\ restore = Nil /\ rcache.obj = Nil /\ uids = 0
      /\ \A n \in Names : jobs[n] = Nil /\ jcache[n].obj = Nil /\ started[n] = {}
      /\ me.obj = Nil /\ ~me.fresh
  BY Nothing DEF Init, Copy
<1>. QED
  BY <1>1 DEF Facts, FreshInv, OrderInv, older, CopyInv, proves, OwnerInv, StartedInv

(* Steps that only move Reconcile along, or end its round, leave it alone. *)
LEMMA Quiet ==
    ASSUME IInv, UNCHANGED <<restore, rcache, jobs, jcache, started, uids>>,
           \/ me' = NoCopy /\ pc' = "idle"
           \/ me' = me /\ pc' = pc
           \/ /\ me'.fresh = me.fresh /\ me'.obj # Nil /\ me.obj # Nil
              /\ me'.obj.uid = me.obj.uid /\ me'.obj.sel = me.obj.sel
              /\ me'.obj.del = me.obj.del /\ me'.obj.fin = me.obj.fin
              /\ me'.obj.status.phase = me.obj.status.phase
              /\ pc' # "finalizer"
              /\ pc' \in creating => pc \in creating
              /\ pc' \in deleting => pc \in deleting
    PROVE  Facts'
<1>1. FreshInv'
  BY Nothing DEF IInv, FreshInv
<1>2. OrderInv'
  BY Nothing DEF IInv, OrderInv, older
<1>3. CopyInv'
  BY Nothing DEF IInv, CopyInv, proves
<1>4. OwnerInv'
  BY Nothing DEF IInv, OwnerInv, deleting
<1>5. StartedInv'
  <2>1. \A u : over(u) => over(u)'
    BY Nothing DEF over, creating
  <2>. QED
    BY <2>1 DEF IInv, StartedInv
<1>. QED
  BY <1>1, <1>2, <1>3, <1>4, <1>5 DEF Facts

(* A write of a fresh copy keeps what the other copies show true, and ends *)
(* the round or goes on with what was written.                             *)
LEMMA Written ==
    ASSUME IInv, me.fresh, NEW o \in Restore, PutRestore(o),
           o.uid = restore.uid, o.sel = restore.sel, o.del = restore.del,
           restore.fin => o.fin,
           UNCHANGED <<jobs, jcache, started, uids>>,
           \/ me' = NoCopy /\ pc' = "idle"
           \/ /\ me' = Copy(o) /\ o.fin = restore.fin /\ o.status.phase = restore.status.phase
              /\ pc = "init" /\ pc' \in {"instance", "status"}
    PROVE  Facts'
<1>0. restore # Nil /\ me.obj # Nil /\ o # Nil /\ me.obj.uid = restore.uid
      /\ me.obj.del = restore.del /\ me.obj.fin = restore.fin
  BY Objects DEF IInv, FreshInv
<1>1. restore' = o /\ rcache'.obj = rcache.obj /\ (rcache'.fresh => rcache.fresh /\ o = restore)
  BY AfterObj DEF IInv, TypeOK, PutRestore
<1>2. \/ me'.obj = Nil /\ ~me'.fresh /\ pc' = "idle"
      \/ /\ me'.obj = o /\ o.fin = restore.fin /\ o.status.phase = restore.status.phase
         /\ pc = "init" /\ pc' \in {"instance", "status"}
  BY Nothing DEF Copy
<1>3. FreshInv'
  BY <1>0, <1>1, <1>2 DEF IInv, FreshInv
<1>4. OrderInv'
  BY <1>0, <1>1, <1>2 DEF IInv, OrderInv, older
<1>5. CopyInv'
  BY <1>0, <1>1, <1>2 DEF IInv, CopyInv, proves
<1>6. OwnerInv'
  BY <1>0, <1>1, <1>2 DEF IInv, OwnerInv, deleting
<1>7. StartedInv'
  <2>1. \A u : over(u) => over(u)'
    BY <1>0, <1>1, <1>2 DEF over, creating
  <2>. QED
    BY <1>0, <1>1, <2>1 DEF IInv, StartedInv
<1>. QED
  BY <1>3, <1>4, <1>5, <1>6, <1>7 DEF Facts

(* A Job that changes hands with its owner kept, or that goes when its     *)
(* owner needs it no more, leaves the invariant alone.                     *)
LEMMA JobChanged ==
    ASSUME IInv, NEW n \in Names, NEW j \in Job \cup {Nil}, PutJob(n, j),
           UNCHANGED <<restore, rcache, me, pc, uids>>,
           j # Nil => jobs[n] # Nil /\ j.owner = jobs[n].owner,
           \A x \in Names : started'[x] \subseteq started[x],
           j = Nil /\ jobs[n] # Nil /\ jobs[n].owner \in started'[n] => over(jobs[n].owner)
    PROVE  Facts'
<1>0. /\ \A x \in Names : jobs'[x] = IF x = n THEN j ELSE jobs[x]
      /\ \A x \in Names :
            jcache'[x] = IF x = n THEN After(jcache[n], jobs[n], j) ELSE jcache[x]
  BY PutJobType DEF IInv
<1>1. jcache[n] \in CopyOf(Job \cup {Nil})
  BY DEF IInv, TypeOK
<1>2. FreshInv'
  <2>1. After(jcache[n], jobs[n], j).fresh => jcache[n].fresh /\ j = jobs[n]
    BY <1>1, AfterObj
  <2>2. After(jcache[n], jobs[n], j).obj = jcache[n].obj
    BY <1>1, AfterObj
  <2>3. \A x \in Names : jcache'[x].fresh => jcache'[x].obj = jobs'[x]
    BY <1>0, <2>1, <2>2 DEF IInv, FreshInv
  <2>. QED
    BY <2>3 DEF IInv, FreshInv
<1>3. OrderInv'
  BY DEF IInv, OrderInv, older
<1>4. CopyInv'
  BY DEF IInv, CopyInv, proves
<1>5. OwnerInv'
  BY <1>0 DEF IInv, OwnerInv, deleting
<1>6. StartedInv'
  <2>1. \A u : over(u) => over(u)'
    BY DEF over, creating
  <2>. QED
    BY <1>0, <2>1 DEF IInv, StartedInv
<1>. QED
  BY <1>2, <1>3, <1>4, <1>5, <1>6 DEF Facts

(* A round begins with what the caches show.                               *)
LEMMA FactsStart == IInv /\ Start => Facts'
<1> SUFFICES ASSUME IInv, Start PROVE Facts'
  OBVIOUS
<1>0. UNCHANGED <<restore, rcache, jobs, jcache, started, uids>> /\ pc = "idle"
  BY DEF Start, own, work, history, bounds
<1>1. CASE rcache.obj = Nil
  BY <1>0, <1>1, Quiet DEF Start
<1>2. CASE rcache.obj # Nil
  <2>1. rcache.obj \in Restore
    BY <1>2, Objects DEF IInv, TypeOK, CopyOf
  <2>2. pc' = begin(rcache.obj) /\ me' = IF pc' = "idle" THEN NoCopy ELSE rcache
    BY <1>2 DEF Start
  <2>3. CASE pc' = "idle"
    BY <1>0, <2>2, <2>3, Quiet
  <2>4. CASE pc' # "idle"
    <3>1. me' = rcache /\ pc' \in {"delete", "finalizer", "init", "error"}
          /\ (pc' = "init" => ~rcache.obj.del)
      BY <2>1, <2>2, <2>4, BeginType
    <3>2. FreshInv'
      BY <1>0, <1>2, <3>1 DEF IInv, FreshInv
    <3>3. OrderInv'
      BY <1>0, <1>2, <3>1, <2>1 DEF IInv, OrderInv, older, Restore, Uids
    <3>4. CopyInv'
      BY <1>0, <3>1 DEF IInv, CopyInv, proves
    <3>5. OwnerInv'
      BY <1>0, <1>2, <3>1 DEF IInv, OwnerInv, deleting
    <3>6. StartedInv'
      <4>1. \A u : over(u) => over(u)'
        BY <1>0, <1>2, <3>1 DEF over, creating
      <4>. QED
        BY <1>0, <4>1 DEF IInv, StartedInv
    <3>. QED
      BY <3>2, <3>3, <3>4, <3>5, <3>6 DEF Facts
  <2>. QED
    BY <2>3, <2>4
<1>. QED
  BY <1>1, <1>2

(* The writes of the finalizer and of the status are of a fresh copy.      *)
LEMMA FactsWrites ==
    IInv /\ (AddFinalizer \/ updateRestoreStatus \/ handleError) => Facts'
<1> SUFFICES ASSUME IInv, AddFinalizer \/ updateRestoreStatus \/ handleError PROVE Facts'
  OBVIOUS
<1>0. /\ UNCHANGED <<jobs, jcache, started, uids>> /\ me' = NoCopy /\ pc' = "idle"
      /\ pc # "idle"
  BY DEF AddFinalizer, updateRestoreStatus, handleError, work, history, bounds, Return
<1>1. me.obj \in Restore /\ me.obj.status.instances \in InstanceStatuses
  BY <1>0, MeType DEF IInv
<1>2. CASE ~me.fresh
  <2>1. UNCHANGED <<restore, rcache>>
    BY <1>2 DEF AddFinalizer, updateRestoreStatus, handleError, own
  <2>. QED
    BY <1>0, <2>1, Quiet
<1>3. CASE me.fresh
  <2>1. /\ me.obj.uid = restore.uid /\ me.obj.sel = restore.sel
        /\ me.obj.del = restore.del /\ me.obj.fin = restore.fin
    BY <1>3 DEF IInv, FreshInv
  <2>2. CASE AddFinalizer
    <3> DEFINE o == [me.obj EXCEPT !.fin = TRUE]
    <3>1. o \in Restore /\ PutRestore(o)
      BY <1>1, <1>3, <2>2, StatusType DEF AddFinalizer
    <3>2. o.uid = restore.uid /\ o.sel = restore.sel /\ o.del = restore.del /\ o.fin
      BY <1>1, <2>1 DEF Restore
    <3>. QED
      BY <1>0, <1>3, <3>1, <3>2, Written
  <2>3. CASE updateRestoreStatus
    <3> DEFINE o == [me.obj EXCEPT !.status.phase = overall(me.obj.status.instances)]
    <3>1. o \in Restore /\ PutRestore(o)
      BY <1>1, <1>3, <2>3, OverallType, StatusType DEF updateRestoreStatus
    <3>2. /\ o.uid = restore.uid /\ o.sel = restore.sel
          /\ o.del = restore.del /\ o.fin = restore.fin
      BY <1>1, <2>1 DEF Restore
    <3>. QED
      BY <1>0, <1>3, <3>1, <3>2, Written
  <2>4. CASE handleError
    <3> DEFINE o == [me.obj EXCEPT !.status.phase = "Failed"]
    <3>1. o \in Restore /\ PutRestore(o)
      BY <1>1, <1>3, <2>4, StatusType DEF handleError, Phases
    <3>2. /\ o.uid = restore.uid /\ o.sel = restore.sel
          /\ o.del = restore.del /\ o.fin = restore.fin
      BY <1>1, <2>1 DEF Restore
    <3>. QED
      BY <1>0, <1>3, <3>1, <3>2, Written
  <2>. QED
    BY <2>2, <2>3, <2>4
<1>. QED
  BY <1>2, <1>3

(* So is the write of the initial statuses, after which the round goes on. *)
LEMMA FactsInitialize == IInv /\ initializeStatuses => Facts'
<1> SUFFICES ASSUME IInv, initializeStatuses PROVE Facts'
  OBVIOUS
<1> DEFINE o == [me.obj EXCEPT !.status.instances = pendingStatuses(local.targets)]
<1>0. pc = "init" /\ UNCHANGED <<jobs, jcache, started, uids>>
  BY DEF initializeStatuses, work, history, bounds
<1>1. me.obj \in Restore /\ me.obj.status \in Status /\ me.obj # Nil
  BY <1>0, MeType DEF IInv
<1>2. CASE Len(me.obj.status.instances) = Len(local.targets)
  <2>1. UNCHANGED <<restore, rcache, me>> /\ pc' \in {"instance", "status"}
    BY <1>2 DEF initializeStatuses, own, Process, Goto
  <2>. QED
    BY <1>0, <1>1, <2>1, Quiet DEF creating, deleting
<1>3. CASE Len(me.obj.status.instances) # Len(local.targets) /\ me.fresh
  <2>1. PutRestore(o) /\ me' = Copy(restore') /\ pc' \in {"instance", "status"}
    BY <1>3 DEF initializeStatuses, Process, Goto
  <2>2. pendingStatuses(local.targets) \in InstanceStatuses
    BY PendingType DEF IInv, TypeOK, Local
  <2>3. o \in Restore
    BY <1>1, <2>2, StatusType
  <2>4. /\ me.obj.uid = restore.uid /\ me.obj.sel = restore.sel
        /\ me.obj.del = restore.del /\ me.obj.fin = restore.fin
        /\ me.obj.status.phase = restore.status.phase
    BY <1>3 DEF IInv, FreshInv
  <2>5. /\ o.uid = restore.uid /\ o.sel = restore.sel /\ o.del = restore.del
        /\ o.fin = restore.fin /\ o.status.phase = restore.status.phase
    BY <1>1, <2>4 DEF Restore, Status
  <2>6. me' = Copy(o)
    BY <2>1 DEF PutRestore
  <2>. QED
    BY <1>0, <1>3, <2>1, <2>3, <2>5, <2>6, Written
<1>4. CASE Len(me.obj.status.instances) # Len(local.targets) /\ ~me.fresh
  <2>1. me' = NoCopy /\ pc' = "idle" /\ UNCHANGED <<restore, rcache>>
    BY <1>4 DEF initializeStatuses, own, Return
  <2>. QED
    BY <1>0, <2>1, Quiet
<1>. QED
  BY <1>2, <1>3, <1>4

(* A Job is created for an incarnation that exists, and for an instance    *)
(* that has no Job of it yet.                                              *)
LEMMA Created ==
    ASSUME IInv, ensureJob, NEW n \in Names, jobs'[n] # jobs[n]
    PROVE  /\ n = local.targets[idx] /\ jobs[n] = Nil /\ PutJob(n, NewJob(me.obj.uid, n))
           /\ setPhase("Running") /\ pc' = "job"
           /\ started' = [started EXCEPT ![n] = @ \cup {me.obj.uid}]
           /\ NewJob(me.obj.uid, n) \in Job /\ me.obj.uid \notin started[n]
<1> DEFINE status == me.obj.status.instances[idx]
<1> DEFINE t == local.targets[idx]
<1>1. pc = "instance"
  BY DEF ensureJob
<1>2. t \in Names /\ me.obj \in Restore /\ me.obj.uid \in Uids
  BY <1>1, AtIndex, MeType DEF IInv, Restore
<1>3. /\ status.phase # "Completed" /\ jcache[status.name].obj = Nil
      /\ createRestoreJob(local.backup) /\ jobs[t] = Nil
  BY DEF ensureJob, work, Fail
<1>4. /\ PutJob(t, NewJob(me.obj.uid, t)) /\ setPhase("Running") /\ pc' = "job"
      /\ started' = [started EXCEPT ![t] = @ \cup {me.obj.uid}]
  BY <1>3 DEF ensureJob, Goto
<1>5. NewJob(me.obj.uid, t) \in Job
  BY <1>2 DEF NewJob, Job, JobOf, JobStates
<1>6. n = t
  BY <1>2, <1>4, <1>5, PutJobType DEF IInv
<1>7. me.obj.uid \notin started[n]
  BY <1>1, <1>3, <1>6 DEF IInv, StartedInv, over, creating
<1>. QED
  BY <1>3, <1>4, <1>5, <1>6, <1>7

(* Creating a Job keeps the other parts of the invariant.                  *)
LEMMA FactsEnsureJob == IInv /\ ensureJob => Facts'
<1> SUFFICES ASSUME IInv, ensureJob PROVE Facts'
  OBVIOUS
<1>0. pc = "instance" /\ UNCHANGED <<restore, rcache, uids>>
  BY DEF ensureJob, own, bounds
<1>1. me.obj \in Restore /\ me.obj # Nil
  BY <1>0, MeType DEF IInv
<1>2. CASE \E n \in Names : jobs'[n] # jobs[n]
  <2>1. PICK n \in Names : jobs'[n] # jobs[n]
    BY <1>2
  <2> DEFINE j == NewJob(me.obj.uid, n)
  <2>2. /\ jobs[n] = Nil /\ PutJob(n, j) /\ j \in Job /\ setPhase("Running") /\ pc' = "job"
        /\ started' = [started EXCEPT ![n] = @ \cup {me.obj.uid}]
    BY <2>1, Created
  <2>3. j.owner = me.obj.uid /\ j # Nil
    BY <2>2, Objects DEF NewJob
  <2>4. /\ \A x \in Names : jobs'[x] = IF x = n THEN j ELSE jobs[x]
        /\ \A x \in Names :
              jcache'[x] = IF x = n THEN After(jcache[n], jobs[n], j) ELSE jcache[x]
    BY <2>2, PutJobType DEF IInv
  <2>5. /\ me'.obj # Nil /\ me'.fresh = me.fresh
        /\ me'.obj.uid = me.obj.uid /\ me'.obj.sel = me.obj.sel
        /\ me'.obj.del = me.obj.del /\ me'.obj.fin = me.obj.fin
        /\ me'.obj.status.phase = me.obj.status.phase
    BY <1>0, <2>2, SetPhaseType DEF IInv, Phases
  <2>6. restore # Nil /\ restore.uid = me.obj.uid /\ restore.fin /\ me.obj.fin
    BY <1>0, <1>1 DEF IInv, StepInv, restoring, creating, CopyInv, proves
  <2>7. FreshInv'
    <3>1. ~After(jcache[n], jobs[n], j).fresh
      BY <2>2, <2>3, AfterObj DEF IInv, TypeOK
    <3>. QED
      BY <1>0, <2>2, <2>4, <2>5, <3>1 DEF IInv, FreshInv
  <2>8. OrderInv'
    BY <1>0, <1>1, <2>5 DEF IInv, OrderInv, older
  <2>9. CopyInv'
    BY <1>0, <1>1, <2>5 DEF IInv, CopyInv, proves
  <2>10. OwnerInv'
    BY <1>0, <1>1, <2>2, <2>3, <2>4 DEF IInv, OwnerInv, OrderInv, older, deleting
  <2>11. StartedInv'
    <3>1. \A u : over(u) => over(u)'
      BY <1>0, <2>5 DEF over, creating
    <3>2. \A x \in Names : started'[x] = IF x = n THEN started[n] \cup {me.obj.uid}
                                         ELSE started[x]
      BY <2>2 DEF IInv, TypeOK
    <3>3. rcache.obj # Nil /\ rcache.obj.uid = me.obj.uid => rcache.obj.fin
      BY <1>1, <2>6 DEF IInv, OrderInv, older
    <3>4. me.obj.uid <= uids
      BY <1>1 DEF IInv, OrderInv
    <3>. QED
      BY <1>0, <2>2, <2>3, <2>4, <2>6, <3>1, <3>2, <3>3, <3>4 DEF IInv, StartedInv
  <2>. QED
    BY <2>7, <2>8, <2>9, <2>10, <2>11 DEF Facts
<1>3. CASE ~\E n \in Names : jobs'[n] # jobs[n]
  <2> DEFINE status == me.obj.status.instances[idx]
  <2>0. local.targets[idx] \in Names /\ me.obj.uid \in Uids
    BY <1>0, <1>1, AtIndex DEF IInv, Restore
  <2>1. ~(/\ status.phase # "Completed" /\ jcache[status.name].obj = Nil
          /\ createRestoreJob(local.backup) /\ jobs[local.targets[idx]] = Nil)
    <3>1. SUFFICES ASSUME /\ status.phase # "Completed" /\ jcache[status.name].obj = Nil
                          /\ createRestoreJob(local.backup) /\ jobs[local.targets[idx]] = Nil
                   PROVE  FALSE
      OBVIOUS
    <3>2. PutJob(local.targets[idx], NewJob(me.obj.uid, local.targets[idx]))
      BY <3>1 DEF ensureJob
    <3>3. NewJob(me.obj.uid, local.targets[idx]) \in Job
      BY <2>0 DEF NewJob, Job, JobOf, JobStates
    <3>4. jobs'[local.targets[idx]] = NewJob(me.obj.uid, local.targets[idx])
      BY <2>0, <3>2, <3>3, PutJobType DEF IInv
    <3>. QED
      BY <1>3, <2>0, <3>1, <3>3, <3>4, Objects
  <2>2. /\ UNCHANGED <<me, jobs, jcache, started>>
        /\ pc' \in {"instance", "job", "status", "error"}
    BY <2>1 DEF ensureJob, work, Fail, Process, Goto
  <2>. QED
    BY <1>0, <1>1, <2>2, Quiet DEF creating, deleting
<1>. QED
  BY <1>2, <1>3

(* Looking a Job up, failing and restarting change memory only.            *)
LEMMA FactsMemory == IInv /\ (updateJobStatus \/ CallFails \/ Abort) => Facts'
<1> SUFFICES ASSUME IInv, updateJobStatus \/ CallFails \/ Abort PROVE Facts'
  OBVIOUS
<1>0. UNCHANGED <<restore, rcache, jobs, jcache, started, uids>> /\ pc # "idle"
  BY DEF updateJobStatus, CallFails, Abort, own, work, history, bounds
<1>1. me.obj # Nil
  BY <1>0 DEF IInv, StepInv
<1>2. CASE updateJobStatus
  <2> DEFINE status == me.obj.status.instances[idx]
  <2>1. pc = "job" /\ pc' \in {"instance", "status"}
    BY <1>2 DEF updateJobStatus, Process, Goto
  <2>2. CASE me' = me
    BY <1>0, <1>1, <2>1, <2>2, Quiet DEF creating, deleting
  <2>3. CASE me' # me
    <3>1. /\ jcache[local.job].obj # Nil
          /\ setPhase(JobPhase(jcache[local.job].obj, status.phase))
      BY <1>2, <2>3 DEF updateJobStatus
    <3>2. local.job \in Names
      BY <2>1 DEF IInv, TypeOK, Local, StepInv
    <3>3. jcache[local.job].obj \in Job
      BY <3>1, <3>2, Objects DEF IInv, TypeOK, CopyOf
    <3>4. status.phase \in Phases
      BY <2>1, AtIndex DEF IInv
    <3>5. JobPhase(jcache[local.job].obj, status.phase) \in Phases
      BY <3>3, <3>4, PhaseOfJob
    <3>6. /\ me'.fresh = me.fresh /\ me'.obj # Nil
          /\ me'.obj.uid = me.obj.uid /\ me'.obj.sel = me.obj.sel
          /\ me'.obj.del = me.obj.del /\ me'.obj.fin = me.obj.fin
          /\ me'.obj.status.phase = me.obj.status.phase
      BY <2>1, <3>1, <3>5, SetPhaseType DEF IInv
    <3>. QED
      BY <1>0, <1>1, <2>1, <3>6, Quiet DEF creating, deleting
  <2>. QED
    BY <2>2, <2>3
<1>3. CASE CallFails
  <2>1. pc' = "error"
    BY <1>3 DEF CallFails, Goto
  <2>2. /\ me'.fresh = me.fresh /\ me'.obj # Nil
        /\ me'.obj.uid = me.obj.uid /\ me'.obj.sel = me.obj.sel
        /\ me'.obj.del = me.obj.del /\ me'.obj.fin = me.obj.fin
        /\ me'.obj.status.phase = me.obj.status.phase
    BY <1>3, FailingType DEF IInv
  <2>. QED
    BY <1>0, <1>1, <2>1, <2>2, Quiet DEF creating, deleting
<1>4. CASE Abort
  <2>1. me' = NoCopy /\ pc' = "idle"
    BY <1>4 DEF Abort, Return
  <2>. QED
    BY <1>0, <2>1, Quiet
<1>. QED
  BY <1>2, <1>3, <1>4

(* A deletion deletes Jobs of incarnations that are over.                  *)
LEMMA FactsDeleteJobs == IInv /\ deleteJobs => Facts'
<1> SUFFICES ASSUME IInv, deleteJobs PROVE Facts'
  OBVIOUS
<1>0. UNCHANGED <<restore, rcache, me, started, uids>> /\ pc = "delete"
  BY DEF deleteJobs, own, history, bounds
<1>1. me.obj # Nil /\ me.obj.del /\ me.obj \in Restore
  BY <1>0, MeType DEF IInv, StepInv, deleting
<1>2. CASE idx > Len(me.obj.status.instances)
  <2>1. pc' = "release" /\ UNCHANGED <<jobs, jcache>>
    BY <1>2 DEF deleteJobs, Goto, work
  <2>. QED
    BY <1>0, <1>1, <2>1, Quiet DEF creating, deleting
<1>3. CASE ~(idx > Len(me.obj.status.instances))
  <2> DEFINE n == me.obj.status.instances[idx].name
  <2>1. n \in Names
    BY <1>0, <1>3, AtDeletion DEF IInv
  <2>2. PutJob(n, Nil) /\ pc' = pc
    BY <1>0, <1>3 DEF deleteJobs, Goto
  <2> HIDE DEF n
  <2>3. jobs[n] # Nil => over(jobs[n].owner)
    <3>1. SUFFICES ASSUME jobs[n] # Nil PROVE over(jobs[n].owner)
      OBVIOUS
    <3> DEFINE u == jobs[n].owner
    <3>2. u \in Nat /\ me.obj.uid \in Nat /\ uids \in Nat
      <4>1. jobs[n] \in Job
        BY <2>1, <3>1, Objects DEF IInv, TypeOK
      <4>. QED
        BY <1>1, <4>1 DEF IInv, TypeOK, Restore, Job, JobOf, Uids
    <3>3. u <= me.obj.uid
      BY <1>0, <2>1, <3>1 DEF IInv, OwnerInv, deleting
    <3>4. restore # Nil /\ restore.uid = u => restore.del
      BY <1>1, <3>2, <3>3 DEF IInv, OrderInv, older
    <3>5. rcache.obj # Nil /\ rcache.obj.uid = u => rcache.obj.del
      BY <1>1, <3>2, <3>3 DEF IInv, OrderInv, older
    <3>. QED
      BY <1>0, <3>4, <3>5 DEF over, creating
  <2>. QED
    BY <1>0, <2>1, <2>2, <2>3, JobChanged
<1>. QED
  BY <1>2, <1>3

(* When the finalizer goes, no copy is left that shows the restore whole.  *)
LEMMA FactsRemoveFinalizer == IInv /\ RemoveFinalizer => Facts'
<1> SUFFICES ASSUME IInv, RemoveFinalizer PROVE Facts'
  OBVIOUS
<1>0. /\ UNCHANGED <<jobs, jcache, started, uids>> /\ me' = NoCopy /\ pc' = "idle"
      /\ pc = "release"
  BY DEF RemoveFinalizer, work, history, bounds, Return
<1>1. me.obj # Nil /\ me.obj.del
  BY <1>0 DEF IInv, StepInv, deleting
<1>2. CASE ~me.fresh
  <2>1. UNCHANGED <<restore, rcache>>
    BY <1>2 DEF RemoveFinalizer, own
  <2>. QED
    BY <1>0, <2>1, Quiet
<1>3. CASE me.fresh
  <2>1. PutRestore(Nil)
    BY <1>3 DEF RemoveFinalizer
  <2>2. /\ restore' = Nil /\ rcache'.obj = rcache.obj
        /\ (rcache'.fresh => rcache.fresh /\ Nil = restore)
    BY <2>1, AfterObj DEF IInv, TypeOK, PutRestore
  <2>3. restore # Nil /\ restore.uid = me.obj.uid
    BY <1>3 DEF IInv, FreshInv
  <2>4. me'.obj = Nil /\ ~me'.fresh
    BY <1>0, Nothing
  <2>5. FreshInv'
    BY <1>0, <2>2, <2>3, <2>4 DEF IInv, FreshInv
  <2>6. OrderInv'
    BY <1>0, <2>2, <2>4 DEF IInv, OrderInv, older
  <2>7. CopyInv'
    BY <1>1, <2>2, <2>3, <2>4 DEF IInv, CopyInv, proves, OrderInv, older
  <2>8. OwnerInv'
    BY <1>0, <2>2 DEF IInv, OwnerInv, deleting
  <2>9. StartedInv'
    <3>1. \A u : over(u) => over(u)'
      BY <1>0, <2>2 DEF over, creating
    <3>. QED
      BY <1>0, <2>2, <3>1 DEF IInv, StartedInv
  <2>. QED
    BY <2>5, <2>6, <2>7, <2>8, <2>9 DEF Facts
<1>. QED
  BY <1>2, <1>3

(* The watches bring the copies up to date.                                *)
LEMMA FactsWatches ==
    IInv /\ (SyncRestore \/ SyncCluster \/ SyncBackup \/ \E n \in Names : SyncJob(n))
        => Facts'
<1> SUFFICES ASSUME IInv,
                    SyncRestore \/ SyncCluster \/ SyncBackup \/ \E n \in Names : SyncJob(n)
             PROVE  Facts'
  OBVIOUS
<1>1. CASE SyncCluster \/ SyncBackup
  BY <1>1, Quiet DEF SyncCluster, SyncBackup, own, work, progress, history, bounds
<1>2. CASE SyncRestore
  <2>1. /\ rcache'.obj = restore /\ rcache'.fresh
        /\ UNCHANGED <<restore, jobs, jcache, pc, me, started, uids>>
    BY <1>2 DEF SyncRestore, Copy, work, history, bounds
  <2>2. restore # Nil => restore.uid \in Nat
    BY Objects DEF IInv, TypeOK, Restore, Uids
  <2>3. FreshInv'
    BY <2>1 DEF IInv, FreshInv
  <2>4. OrderInv'
    BY <2>1, <2>2 DEF IInv, OrderInv, older
  <2>5. CopyInv'
    BY <2>1 DEF IInv, CopyInv, proves
  <2>6. OwnerInv'
    BY <2>1 DEF IInv, OwnerInv, OrderInv, deleting
  <2>7. StartedInv'
    <3>1. \A u : over(u) => over(u)'
      BY <2>1 DEF over, creating
    <3>. QED
      BY <2>1, <3>1 DEF IInv, StartedInv
  <2>. QED
    BY <2>3, <2>4, <2>5, <2>6, <2>7 DEF Facts
<1>3. CASE \E n \in Names : SyncJob(n)
  <2>1. PICK n \in Names : SyncJob(n)
    BY <1>3
  <2>2. UNCHANGED <<restore, rcache, jobs, pc, me, started, uids>>
    BY <2>1 DEF SyncJob, own, history, bounds
  <2>3. \A x \in Names : jcache'[x] = IF x = n THEN Copy(jobs[n]) ELSE jcache[x]
    BY <2>1 DEF SyncJob, IInv, TypeOK
  <2>4. FreshInv'
    BY <2>2, <2>3 DEF IInv, FreshInv, Copy
  <2>5. OrderInv'
    BY <2>2 DEF IInv, OrderInv, older
  <2>6. CopyInv'
    BY <2>2 DEF IInv, CopyInv, proves
  <2>7. OwnerInv'
    BY <2>2 DEF IInv, OwnerInv, deleting
  <2>8. StartedInv'
    <3>1. \A u : over(u) => over(u)'
      BY <2>2 DEF over, creating
    <3>. QED
      BY <2>2, <3>1 DEF IInv, StartedInv
  <2>. QED
    BY <2>4, <2>5, <2>6, <2>7, <2>8 DEF Facts
<1>. QED
  BY <1>1, <1>2, <1>3

(* Whoever writes the restore, the copies stay older than it.              *)
LEMMA FactsOutside ==
    ASSUME IInv, NEW o \in Restore \cup {Nil}, PutRestoreOutside(o), o # restore,
           uids' \in Nat, uids <= uids',
           o # Nil => o.uid = uids',
           o # Nil /\ o.uid = uids =>
               /\ restore # Nil /\ restore.uid = o.uid /\ o.fin = restore.fin
               /\ restore.del => o.del,
           restore # Nil /\ restore.fin =>
               o # Nil /\ o.uid = restore.uid /\ o.fin
    PROVE  Facts'
<1>0. /\ restore' = o /\ rcache'.obj = rcache.obj /\ ~rcache'.fresh
      /\ me'.obj = me.obj /\ ~me'.fresh
      /\ UNCHANGED <<jobs, jcache, pc, started>>
  BY AfterObj DEF IInv, TypeOK, PutRestoreOutside, PutRestore, work, history
<1>1. /\ uids \in Nat
      /\ rcache.obj # Nil => rcache.obj.uid \in Nat
      /\ me.obj # Nil => me.obj.uid \in Nat
      /\ \A n \in Names : started[n] \subseteq Nat
      /\ \A n \in Names : jobs[n] # Nil => jobs[n].owner \in Nat
  <2>1. rcache.obj # Nil => rcache.obj \in Restore
    BY Objects DEF IInv, TypeOK, CopyOf
  <2>2. me.obj # Nil => me.obj \in Restore
    BY Objects DEF IInv, TypeOK, CopyOf
  <2>3. \A n \in Names : jobs[n] # Nil => jobs[n] \in Job
    BY Objects DEF IInv, TypeOK
  <2>. QED
    BY <2>1, <2>2, <2>3 DEF IInv, TypeOK, Restore, Job, JobOf, Uids
<1>2. FreshInv'
  BY <1>0 DEF IInv, FreshInv
<1>3. OrderInv'
  BY <1>0, <1>1 DEF IInv, OrderInv, older
<1>4. CopyInv'
  BY <1>0, <1>1 DEF IInv, CopyInv, proves
<1>5. OwnerInv'
  BY <1>0, <1>1 DEF IInv, OwnerInv, deleting
<1>6. StartedInv'
  <2>1. \A u \in Nat : u <= uids /\ over(u) => over(u)'
    BY <1>0, <1>1 DEF over, creating
  <2>2. \A n \in Names : \A u \in started[n] :
            /\ u <= uids' /\ (o # Nil /\ o.uid = u => o.fin)
    BY <1>1 DEF IInv, StartedInv
  <2>. QED
    BY <1>0, <1>1, <2>1, <2>2 DEF IInv, StartedInv
<1>. QED
  BY <1>2, <1>3, <1>4, <1>5, <1>6 DEF Facts

(* So does whatever people do.                                             *)
LEMMA FactsPeople ==
    ASSUME IInv,
           \/ \E s \in Selectors : CreateRestore(s) \/ EditRestore(s)
           \/ DeleteRestore
    PROVE  Facts'
<1>0. uids \in Nat /\ (restore # Nil => restore \in Restore /\ restore.uid = uids)
  BY Objects DEF IInv, TypeOK, OrderInv
<1>1. CASE \E s \in Selectors : CreateRestore(s)
  <2>1. PICK s \in Selectors : CreateRestore(s)
    BY <1>1
  <2> DEFINE o == [uid |-> uids + 1, del |-> FALSE, fin |-> FALSE, sel |-> s,
                   status |-> NoStatus]
  <2>2. uids + 1 \in Uids
    BY <2>1, RestoreBoundsAssumption DEF CreateRestore, IInv, TypeOK, Uids
  <2>3. o \in Restore
    BY <2>2 DEF Restore, Status, NoStatus, InstanceStatuses
  <2>4. restore = Nil /\ uids' = uids + 1 /\ PutRestoreOutside(o)
    BY <2>1 DEF CreateRestore
  <2>5. o.uid = uids + 1
    OBVIOUS
  <2> HIDE DEF o
  <2>6. uids' \in Nat /\ uids <= uids' /\ o.uid = uids' /\ o.uid # uids
    BY <1>0, <2>4, <2>5
  <2>7. o # Nil /\ o # restore
    BY <2>3, <2>4, Objects
  <2>. QED
    BY <2>3, <2>4, <2>6, <2>7, FactsOutside
<1>2. CASE \E s \in Selectors : EditRestore(s)
  <2>1. PICK s \in Selectors : EditRestore(s)
    BY <1>2
  <2> DEFINE o == [restore EXCEPT !.sel = s]
  <2>2. restore # Nil /\ uids' = uids /\ PutRestoreOutside(o) /\ s # restore.sel
    BY <2>1 DEF EditRestore
  <2>3. o \in Restore /\ o.sel = s /\ o.uid = restore.uid /\ o.fin = restore.fin
        /\ o.del = restore.del
    BY <1>0, <2>1, <2>2, StatusType DEF Restore
  <2> HIDE DEF o
  <2>4. o # restore /\ o # Nil
    BY <2>2, <2>3, Objects
  <2>5. uids' \in Nat /\ uids <= uids' /\ o.uid = uids'
    BY <1>0, <2>2, <2>3
  <2>. QED
    BY <2>2, <2>3, <2>4, <2>5, FactsOutside
<1>3. CASE DeleteRestore
  <2>1. restore # Nil /\ ~restore.del /\ uids' = uids
    BY <1>3 DEF DeleteRestore, bounds
  <2>2. CASE restore.fin
    <3> DEFINE o == [restore EXCEPT !.del = TRUE]
    <3>1. PutRestoreOutside(o)
      BY <1>3, <2>2 DEF DeleteRestore
    <3>2. o \in Restore /\ o.uid = restore.uid /\ o.fin = restore.fin /\ o.del
      BY <1>0, <2>1, StatusType DEF Restore
    <3> HIDE DEF o
    <3>3. o # restore /\ o # Nil
      BY <2>1, <3>2, Objects
    <3>4. uids' \in Nat /\ uids <= uids' /\ o.uid = uids'
      BY <1>0, <2>1, <3>2
    <3>. QED
      BY <2>1, <2>2, <3>1, <3>2, <3>3, <3>4, FactsOutside
  <2>3. CASE ~restore.fin
    <3>1. PutRestoreOutside(Nil)
      BY <1>3, <2>3 DEF DeleteRestore
    <3>. QED
      BY <1>0, <2>1, <2>3, <3>1, FactsOutside
  <2>. QED
    BY <2>2, <2>3
<1>. QED
  BY <1>1, <1>2, <1>3

(* Whoever runs, deletes or collects a Job.                                *)
LEMMA FactsJobs ==
    ASSUME IInv, NEW n \in Names, RunJob(n) \/ RemoveJob(n) \/ CollectJob(n)
    PROVE  Facts'
<1>0. UNCHANGED <<restore, rcache, me, pc, uids>> /\ jobs[n] # Nil
  BY DEF RunJob, RemoveJob, CollectJob, own, progress, bounds
<1>1. jobs[n] \in Job
  BY <1>0, Objects DEF IInv, TypeOK
<1>2. CASE RunJob(n)
  <2>1. PICK j \in JobSteps(jobs[n], FALSE) : PutJob(n, j)
    BY <1>2 DEF RunJob
  <2>2. j \in Job /\ j.owner = jobs[n].owner /\ j # Nil
    BY <1>1, <2>1, StepsOfJob, Objects
  <2>3. started' = started
    BY <1>2 DEF RunJob
  <2>. QED
    BY <1>0, <2>1, <2>2, <2>3, JobChanged
<1>3. CASE RemoveJob(n)
  <2>1. PutJob(n, Nil) /\ started' = [started EXCEPT ![n] = @ \ {jobs[n].owner}]
    BY <1>3 DEF RemoveJob
  <2>2. /\ \A x \in Names : started'[x] \subseteq started[x]
        /\ jobs[n].owner \notin started'[n]
    BY <2>1 DEF IInv, TypeOK
  <2>. QED
    BY <1>0, <2>1, <2>2, JobChanged
<1>4. CASE CollectJob(n)
  <2>1. /\ PutJob(n, Nil) /\ started' = started
        /\ (restore # Nil => restore.uid # jobs[n].owner)
    BY <1>4 DEF CollectJob, history
  <2>2. jobs[n].owner \in started[n] => over(jobs[n].owner)
    <3>1. SUFFICES ASSUME jobs[n].owner \in started[n] PROVE over(jobs[n].owner)
      OBVIOUS
    <3>2. rcache.obj # Nil /\ rcache.obj.uid = jobs[n].owner => rcache.obj.del
      BY <2>1, <3>1 DEF IInv, StartedInv, CopyInv, proves
    <3>3. pc \in creating => me.obj.uid # jobs[n].owner
      BY <2>1 DEF IInv, StepInv, CopyInv, proves, restoring, creating
    <3>. QED
      BY <2>1, <3>2, <3>3 DEF over
  <2>. QED
    BY <1>0, <2>1, <2>2, JobChanged
<1>. QED
  BY <1>2, <1>3, <1>4

-----------------------------------------------------------------------------
(* What is restored stays so in what a round may still store.              *)

(* Setting the phase of an instance that is not restored yet keeps what is *)
(* shown of the others.                                                    *)
LEMMA SetPhaseKeeps ==
    ASSUME TypeOK, StepInv, pc \in {"instance", "job"}, NEW p \in Phases, setPhase(p),
           me.obj.status.instances[idx].phase # "Completed"
    PROVE  /\ keeps(me'.obj.status, me.obj.status)
           /\ me'.obj.status.instances[idx].phase = p
<1> DEFINE is == me.obj.status.instances
<1>1. me.obj \in Restore /\ me.obj.status \in Status /\ is \in InstanceStatuses
  BY MeType
<1>2. idx \in DOMAIN is
  <2>1. idx \in DOMAIN local.targets /\ Len(is) = Len(local.targets)
    BY DEF StepInv
  <2>2. local.targets \in Seq(Names)
    BY DEF TypeOK, Local
  <2>3. DOMAIN local.targets = 1 .. Len(local.targets) /\ DOMAIN is = 1 .. Len(is)
    BY <1>1, <2>2, LenProperties DEF InstanceStatuses
  <2>. QED
    BY <2>1, <2>3
<1>3. me \in CopyOf(Restore \cup {Nil})
  BY DEF TypeOK
<1>4. me'.obj.status.instances = [is EXCEPT ![idx].phase = p]
  BY <1>1, <1>3 DEF setPhase, Restore, Status, CopyOf
<1>5. is[idx] \in [name : Names, phase : Phases]
  BY <1>1, <1>2, LenProperties, ElementOfSeq DEF InstanceStatuses
<1>6. is = [i \in DOMAIN is |-> is[i]]
  BY <1>1, LenProperties DEF InstanceStatuses
<1>7. /\ me'.obj.status.instances[idx].phase = p
      /\ \A i \in DOMAIN is : i # idx => me'.obj.status.instances[i] = is[i]
  BY <1>2, <1>4, <1>5, <1>6
<1>. QED
  BY <1>7 DEF keeps

(* The steps of a round that store nothing.                                *)
LEMMA ProgressMoves ==
    ASSUME IInv, restore' = restore, me'.fresh = me.fresh,
           pc \in restoring, pc' \in restoring \ {"init"},
           pc' = "job" => me'.obj.status.instances[idx'].phase # "Completed",
           \/ me' = me
           \/ /\ Len(me'.obj.status.instances) = Len(me.obj.status.instances)
              /\ DOMAIN me'.obj.status.instances = DOMAIN me.obj.status.instances
              /\ keeps(me'.obj.status, me.obj.status)
           \/ Len(me'.obj.status.instances) # Len(restore.status.instances)
    PROVE  ProgressInv'
<1>1. me.fresh => keeps(me.obj.status, restore.status)
  BY DEF IInv, ProgressInv
<1>2. CASE me' = me
  BY <1>1, <1>2 DEF ProgressInv, keeps
<1>3. CASE Len(me'.obj.status.instances) # Len(restore.status.instances)
  BY <1>3 DEF ProgressInv, keeps
<1>4. CASE /\ Len(me'.obj.status.instances) = Len(me.obj.status.instances)
           /\ DOMAIN me'.obj.status.instances = DOMAIN me.obj.status.instances
           /\ keeps(me'.obj.status, me.obj.status)
           /\ Len(me'.obj.status.instances) = Len(restore.status.instances)
  <2>1. SUFFICES ASSUME me.fresh PROVE keeps(me'.obj.status, restore.status)
    BY <1>4 DEF ProgressInv, keeps
  <2>2. restore.status.instances \in InstanceStatuses
    <3>1. restore \in Restore
      BY <2>1, Objects DEF IInv, TypeOK, FreshInv
    <3>. QED
      BY <3>1 DEF Restore, Status
  <2>3. me.obj.status.instances \in InstanceStatuses
    BY MeType DEF IInv, restoring, creating
  <2>4. DOMAIN restore.status.instances = DOMAIN me.obj.status.instances
    BY <1>4, <2>2, <2>3, LenProperties DEF InstanceStatuses
  <2>. QED
    BY <1>1, <1>4, <2>1, <2>4 DEF keeps
<1>. QED
  BY <1>2, <1>3, <1>4

(* What ends a round, or makes its copy old, leaves nothing to store.      *)
LEMMA ProgressEnds ==
    ASSUME ~me'.fresh,
           \/ pc' # "job"
           \/ IInv /\ me'.obj = me.obj /\ pc' = pc /\ idx' = idx
    PROVE  ProgressInv'
BY DEF ProgressInv, IInv

(* A round begins with what is stored, if its copy is fresh.               *)
LEMMA ProgressStart == ASSUME IInv, Start PROVE ProgressInv'
<1>1. CASE rcache.obj = Nil
  BY <1>1 DEF Start, own, IInv, ProgressInv, restoring, creating
<1>2. CASE rcache.obj # Nil
  <2>1. rcache.obj \in Restore
    BY <1>2, Objects DEF IInv, TypeOK, CopyOf
  <2>2. /\ pc' \in {"delete", "finalizer", "idle", "init", "error"}
        /\ me' = IF pc' = "idle" THEN NoCopy ELSE rcache
        /\ restore' = restore
    BY <1>2, <2>1, BeginType DEF Start, own
  <2>3. CASE me'.fresh
    <3>1. me' = rcache /\ rcache.obj = restore
      BY <2>2, <2>3, Nothing DEF IInv, FreshInv
    <3>. QED
      BY <2>2, <3>1 DEF ProgressInv, keeps, restoring, creating
  <2>. QED
    BY <2>2, <2>3, ProgressEnds
<1>. QED
  BY <1>1, <1>2

(* Statuses that are written anew are as stored.                           *)
LEMMA ProgressInitialize == ASSUME IInv, initializeStatuses PROVE ProgressInv'
<1>1. pc = "init" /\ pc' # "job"
  BY DEF initializeStatuses, Process, Goto, Return
<1>2. CASE Len(me.obj.status.instances) = Len(local.targets)
  <2>1. UNCHANGED <<restore, me>> /\ pc' \in {"instance", "status"}
    BY <1>2 DEF initializeStatuses, own, Process, Goto
  <2>. QED
    BY <1>1, <2>1, ProgressMoves DEF restoring, creating
<1>3. CASE Len(me.obj.status.instances) # Len(local.targets) /\ me.fresh
  <2>1. me' = Copy(restore') /\ pc' \in {"instance", "status"}
    BY <1>3 DEF initializeStatuses, Process, Goto
  <2>. QED
    BY <2>1 DEF Copy, ProgressInv, keeps
<1>4. CASE Len(me.obj.status.instances) # Len(local.targets) /\ ~me.fresh
  BY <1>1, <1>4, ProgressEnds, Nothing DEF initializeStatuses, Return
<1>. QED
  BY <1>2, <1>3, <1>4

(* A Job is created for an instance that is not restored yet.              *)
LEMMA ProgressEnsureJob == ASSUME IInv, ensureJob PROVE ProgressInv'
<1> DEFINE status == me.obj.status.instances[idx]
<1>1. restore' = restore /\ pc = "instance" /\ pc' \in restoring \ {"init"}
  BY DEF ensureJob, own, Process, Goto, Fail, restoring, creating
<1>2. CASE me' = me
  <2>1. pc' = "job" => idx' = idx /\ status.phase # "Completed"
    BY DEF ensureJob, Process, Goto, Fail
  <2>. QED
    BY <1>1, <1>2, <2>1, ProgressMoves DEF restoring, creating
<1>3. CASE me' # me
  <2>1. setPhase("Running") /\ pc' = "job" /\ idx' = idx /\ status.phase # "Completed"
    BY <1>3 DEF ensureJob, Process, Goto, Fail
  <2>2. /\ me'.fresh = me.fresh
        /\ Len(me'.obj.status.instances) = Len(me.obj.status.instances)
        /\ keeps(me'.obj.status, me.obj.status)
        /\ me'.obj.status.instances[idx].phase = "Running"
    BY <1>1, <2>1, SetPhaseType, SetPhaseKeeps DEF IInv, Phases
  <2>3. DOMAIN me'.obj.status.instances = DOMAIN me.obj.status.instances
    BY <1>1, <2>1, SetPhaseDomain DEF IInv, Phases
  <2>. QED
    BY <1>1, <2>1, <2>2, <2>3, ProgressMoves DEF restoring, creating
<1>. QED
  BY <1>2, <1>3

(* So is one looked up, and what it shows is stored for that instance.     *)
LEMMA ProgressUpdateJob == ASSUME IInv, updateJobStatus PROVE ProgressInv'
<1> DEFINE status == me.obj.status.instances[idx]
<1>1. restore' = restore /\ pc = "job" /\ pc' \in {"instance", "status"}
  BY DEF updateJobStatus, own, Process, Goto
<1>2. CASE me' = me
  BY <1>1, <1>2, ProgressMoves DEF restoring, creating
<1>3. CASE me' # me
  <2> DEFINE p == JobPhase(jcache[local.job].obj, status.phase)
  <2>1. jcache[local.job].obj # Nil /\ setPhase(p)
    BY <1>3 DEF updateJobStatus
  <2>2. local.job \in Names
    BY <1>1 DEF IInv, TypeOK, Local, StepInv
  <2>3. jcache[local.job].obj \in Job
    BY <2>1, <2>2, Objects DEF IInv, TypeOK, CopyOf
  <2>4. status.phase \in Phases /\ status.phase # "Completed"
    BY <1>1, AtIndex DEF IInv, ProgressInv
  <2>5. p \in Phases
    BY <2>3, <2>4, PhaseOfJob
  <2> HIDE DEF p
  <2>6. /\ me'.fresh = me.fresh
        /\ Len(me'.obj.status.instances) = Len(me.obj.status.instances)
        /\ DOMAIN me'.obj.status.instances = DOMAIN me.obj.status.instances
        /\ keeps(me'.obj.status, me.obj.status)
    BY <1>1, <2>1, <2>4, <2>5, SetPhaseType, SetPhaseKeeps, SetPhaseDomain DEF IInv
  <2>. QED
    BY <1>1, <2>6, ProgressMoves DEF restoring, creating
<1>. QED
  BY <1>2, <1>3

(* A call that fails may leave statuses in memory that were to be written  *)
(* anew: they are about another number of instances than the stored ones.  *)
LEMMA ProgressCallFails == ASSUME IInv, CallFails PROVE ProgressInv'
<1>1. restore' = restore /\ pc \in {"init", "instance", "job", "status"} /\ pc' = "error"
  BY DEF CallFails, own, Goto
<1>2. me'.fresh = me.fresh
  BY FailingType DEF IInv
<1>3. CASE me' = me
  BY <1>1, <1>3, ProgressMoves DEF restoring, creating
<1>4. CASE me' # me /\ me.fresh
  <2>1. /\ pc = "init" /\ Len(me.obj.status.instances) # Len(local.targets)
        /\ me' = [me EXCEPT !.obj.status.instances = pendingStatuses(local.targets)]
    BY <1>4 DEF CallFails
  <2>2. Len(pendingStatuses(local.targets)) = Len(local.targets)
    BY PendingType DEF IInv, TypeOK, Local
  <2>3. me \in CopyOf(Restore \cup {Nil}) /\ me.obj \in Restore
    BY <2>1, MeType DEF IInv, TypeOK
  <2>4. me'.obj.status.instances = pendingStatuses(local.targets)
    BY <2>1, <2>3 DEF CopyOf, Restore, Status
  <2>5. me.obj.status = restore.status
    BY <1>4, <2>1 DEF IInv, ProgressInv
  <2>. QED
    BY <1>1, <1>2, <2>1, <2>2, <2>4, <2>5, ProgressMoves DEF restoring, creating
<1>. QED
  BY <1>1, <1>2, <1>3, <1>4, ProgressEnds

(* What people make of a restore differs from what it was.                 *)
LEMMA RestoreChanges ==
    ASSUME TypeOK,
           \/ \E s \in Selectors : CreateRestore(s) \/ EditRestore(s)
           \/ DeleteRestore
    PROVE  \E o \in Restore \cup {Nil} : PutRestoreOutside(o) /\ o # restore
<1>1. CASE \E s \in Selectors : CreateRestore(s)
  <2>1. PICK s \in Selectors : CreateRestore(s)
    BY <1>1
  <2> DEFINE o == [uid |-> uids + 1, del |-> FALSE, fin |-> FALSE, sel |-> s,
                   status |-> NoStatus]
  <2>2. o \in Restore
    <3>1. uids + 1 \in Uids
      BY <2>1, RestoreBoundsAssumption DEF TypeOK, CreateRestore, Uids
    <3>2. NoStatus \in Status
      BY DEF NoStatus, Status, InstanceStatuses
    <3>. QED
      BY <3>1, <3>2 DEF Restore
  <2>3. PutRestoreOutside(o) /\ restore = Nil
    BY <2>1 DEF CreateRestore
  <2> HIDE DEF o
  <2>. QED
    BY <2>2, <2>3, Objects
<1>2. CASE \E s \in Selectors : EditRestore(s)
  <2>1. PICK s \in Selectors : EditRestore(s)
    BY <1>2
  <2> DEFINE o == [restore EXCEPT !.sel = s]
  <2>2. restore \in Restore /\ s # restore.sel
    BY <2>1, Objects DEF EditRestore, TypeOK
  <2>3. o \in Restore /\ o.sel = s /\ PutRestoreOutside(o)
    BY <2>1, <2>2, StatusType DEF EditRestore, Restore
  <2> HIDE DEF o
  <2>. QED
    BY <2>2, <2>3
<1>3. CASE DeleteRestore
  <2> DEFINE o == [restore EXCEPT !.del = TRUE]
  <2>1. restore \in Restore /\ ~restore.del /\ restore # Nil
    BY <1>3, Objects DEF DeleteRestore, TypeOK
  <2>2. o \in Restore /\ o.del
    BY <2>1, StatusType DEF Restore
  <2>3. PutRestoreOutside(o) \/ PutRestoreOutside(Nil)
    BY <1>3 DEF DeleteRestore
  <2> HIDE DEF o
  <2>. QED
    BY <2>1, <2>2, <2>3
<1>. QED
  BY <1>1, <1>2, <1>3

(* Everything else leaves the round where it is, makes its copy old, or    *)
(* ends it.                                                                *)
LEMMA ProgressNext == ASSUME IInv, [Next]_vars PROVE ProgressInv'
<1>1. CASE AddFinalizer \/ updateRestoreStatus \/ handleError \/ RemoveFinalizer \/ Abort
  <2>1. me' = NoCopy /\ pc' = "idle"
    BY <1>1 DEF AddFinalizer, updateRestoreStatus, handleError, RemoveFinalizer, Abort, Return
  <2>. QED
    BY <2>1, Nothing, ProgressEnds
<1>2. CASE deleteJobs
  BY <1>2 DEF deleteJobs, Goto, ProgressInv, restoring, creating
<1>3. CASE \/ \E s \in Selectors : CreateRestore(s) \/ EditRestore(s)
           \/ DeleteRestore
  <2>1. PICK o : PutRestoreOutside(o) /\ o # restore
    BY <1>3, RestoreChanges DEF IInv
  <2>2. me'.obj = me.obj /\ ~me'.fresh /\ UNCHANGED <<pc, idx>>
    BY <2>1, AfterObj DEF PutRestoreOutside, IInv, TypeOK
  <2>. QED
    BY <2>2, ProgressEnds
<1>4. CASE \/ \E n \in Names : RemoveJob(n) \/ SyncJob(n) \/ RunJob(n) \/ CollectJob(n)
           \/ \E c \in Clusters \cup {Nil} : ChangeCluster(c)
           \/ \E b \in Backups \cup {Nil} : ChangeBackup(b)
           \/ SyncRestore \/ SyncCluster \/ SyncBackup
           \/ UNCHANGED vars
  <2>1. UNCHANGED <<restore, me, pc, idx>>
    BY <1>4 DEF RemoveJob, SyncJob, RunJob, CollectJob, ChangeCluster, ChangeBackup,
       SyncRestore, SyncCluster, SyncBackup, vars, own, progress
  <2>. QED
    BY <2>1 DEF IInv, ProgressInv, keeps
<1>. QED
  BY <1>1, <1>2, <1>3, <1>4, ProgressStart, ProgressInitialize, ProgressEnsureJob,
     ProgressUpdateJob, ProgressCallFails
  DEF Next, Reconcile, People, World

(* The invariant is inductive.                                             *)
LEMMA Inductive == IInv /\ [Next]_vars => IInv'
<1> SUFFICES ASSUME IInv, [Next]_vars PROVE IInv'
  OBVIOUS
<1>0. ProgressInv'
  BY ProgressNext
<1>1. CASE Reconcile
  <2>1. Facts'
    BY <1>1, FactsStart, FactsWrites, FactsInitialize, FactsEnsureJob, FactsMemory,
       FactsDeleteJobs, FactsRemoveFinalizer DEF Reconcile
  <2>. QED
    BY <2>1, TypeNext, <1>0 DEF IInv, Facts
<1>2. CASE Abort \/ CallFails
  BY <1>2, FactsMemory, TypeNext, <1>0 DEF IInv, Facts
<1>3. CASE People
  <2>1. CASE \/ \E c \in Clusters \cup {Nil} : ChangeCluster(c)
             \/ \E b \in Backups \cup {Nil} : ChangeBackup(b)
    <3>1. UNCHANGED <<restore, rcache, jobs, jcache, started, uids, me, pc>>
      BY <2>1 DEF ChangeCluster, ChangeBackup, own, work, progress, history
    <3>. QED
      BY <3>1, Quiet, TypeNext, <1>0 DEF IInv, Facts
  <2>2. CASE \/ \E s \in Selectors : CreateRestore(s) \/ EditRestore(s)
             \/ DeleteRestore
    BY <2>2, FactsPeople, TypeNext, <1>0 DEF IInv, Facts
  <2>3. CASE \E n \in Names : RemoveJob(n)
    BY <2>3, FactsJobs, TypeNext, <1>0 DEF IInv, Facts
  <2>. QED
    BY <1>3, <2>1, <2>2, <2>3 DEF People
<1>4. CASE World
  <2>1. Facts'
    BY <1>4, FactsWatches, FactsJobs DEF World
  <2>. QED
    BY <2>1, TypeNext, <1>0 DEF IInv, Facts
<1>5. CASE UNCHANGED vars
  BY <1>5, Quiet, TypeNext, <1>0 DEF vars, IInv, Facts
<1>. QED
  BY <1>1, <1>2, <1>3, <1>4, <1>5 DEF Next

(* What the copies, the Jobs and the steps of a round have to do with each *)
(* other holds at all times, however calls fail and people interfere.      *)
THEOREM Safety == Spec => []IInv
<1>1. Init => IInv
  <2>1. Init => ProgressInv
    BY DEF Init, NoCopy, ProgressInv
  <2>. QED
    BY <2>1, TypeInit, FactsInit DEF IInv, Facts
<1>. QED
  BY <1>1, Inductive, PTL DEF Spec

-----------------------------------------------------------------------------
(* What follows from it.                                                   *)

(* Only ensureJob creates Jobs.                                            *)
LEMMA Creation ==
    ASSUME IInv, [Next]_vars, NEW n \in Names,
           jobs'[n] # jobs[n], jobs'[n] # Nil, jobs'[n].state = "created"
    PROVE  ensureJob
<1>1. CASE Reconcile /\ ~ensureJob
  <2>1. ~deleteJobs
    <3>1. SUFFICES ASSUME deleteJobs PROVE FALSE
      OBVIOUS
    <3>2. CASE idx > Len(me.obj.status.instances)
      BY <3>1, <3>2 DEF deleteJobs, work
    <3>3. CASE ~(idx > Len(me.obj.status.instances))
      <4> DEFINE x == me.obj.status.instances[idx].name
      <4>1. x \in Names /\ PutJob(x, Nil)
        BY <3>1, <3>3, AtDeletion DEF IInv, deleteJobs
      <4>2. jobs'[n] = IF n = x THEN Nil ELSE jobs[n]
        BY <4>1, PutJobType DEF IInv
      <4>. QED
        BY <4>2
    <3>. QED
      BY <3>2, <3>3
  <2>2. UNCHANGED jobs
    BY <1>1, <2>1 DEF Reconcile, Start, AddFinalizer, initializeStatuses, updateJobStatus,
       updateRestoreStatus, handleError, RemoveFinalizer, work
  <2>. QED
    BY <2>2
<1>2. CASE Abort \/ CallFails \/ UNCHANGED vars
  BY <1>2 DEF Abort, CallFails, vars, work
<1>3. CASE \E x \in Names : RemoveJob(x) \/ CollectJob(x)
  <2>1. PICK x \in Names : PutJob(x, Nil)
    BY <1>3 DEF RemoveJob, CollectJob
  <2>2. jobs'[n] = IF n = x THEN Nil ELSE jobs[n]
    BY <2>1, PutJobType DEF IInv
  <2>. QED
    BY <2>2
<1>4. CASE \E x \in Names : RunJob(x)
  <2>1. PICK x \in Names : RunJob(x)
    BY <1>4
  <2>2. PICK j \in JobSteps(jobs[x], FALSE) : PutJob(x, j)
    BY <2>1 DEF RunJob
  <2>3. jobs[x] \in Job
    BY <2>1, Objects DEF RunJob, IInv, TypeOK
  <2>4. j \in Job /\ j.state # "created"
    BY <2>2, <2>3, StepsOfJob
  <2>5. jobs'[n] = IF n = x THEN j ELSE jobs[n]
    BY <2>2, <2>4, PutJobType DEF IInv
  <2>. QED
    BY <2>4, <2>5
<1>5. CASE People /\ ~\E x \in Names : RemoveJob(x)
  BY <1>5 DEF People, CreateRestore, EditRestore, DeleteRestore, PutRestoreOutside,
     ChangeCluster, ChangeBackup, work
<1>6. CASE World /\ ~\E x \in Names : RunJob(x) \/ CollectJob(x)
  BY <1>6 DEF World, SyncRestore, SyncCluster, SyncBackup, SyncJob, work
<1>. QED
  BY <1>1, <1>2, <1>3, <1>4, <1>5, <1>6 DEF Next, People, World

(* No incarnation of a restore gets a second Job for an instance, whatever *)
(* is retried, lags behind or is selected anew.                            *)
THEOREM RestoresOnce == Spec => RestoredOnce
<1> DEFINE Once == \A n \in Names :
          jobs'[n] # jobs[n] /\ jobs'[n] # Nil /\ jobs'[n].state = "created"
              => jobs'[n].owner \notin started[n]
<1>1. IInv /\ [Next]_vars => Once
  <2> SUFFICES ASSUME IInv, [Next]_vars, NEW n \in Names,
                      jobs'[n] # jobs[n], jobs'[n] # Nil, jobs'[n].state = "created"
               PROVE  jobs'[n].owner \notin started[n]
    OBVIOUS
  <2>1. ensureJob
    BY Creation
  <2>2. /\ PutJob(n, NewJob(me.obj.uid, n)) /\ NewJob(me.obj.uid, n) \in Job
        /\ me.obj.uid \notin started[n]
    BY <2>1, Created
  <2>3. jobs'[n] = NewJob(me.obj.uid, n)
    BY <2>2, PutJobType DEF IInv
  <2>. QED
    BY <2>2, <2>3 DEF NewJob
<1>. QED
  BY <1>1, Safety, PTL DEF RestoredOnce, Spec

(* Once a restore is reported Completed, nobody writes its status again.   *)
LEMMA StatusStays ==
    ASSUME IInv, [Next]_vars, restore # Nil, restore.status.phase = "Completed",
           restore' # Nil, restore'.uid = restore.uid
    PROVE  restore'.status = restore.status
<1>0. restore \in Restore
  BY Objects DEF IInv, TypeOK
<1>1. CASE AddFinalizer
  <2>1. CASE ~me.fresh
    BY <1>1, <2>1 DEF AddFinalizer, own
  <2>2. CASE me.fresh
    <3>1. me.obj \in Restore
      BY <1>1, MeType DEF IInv, AddFinalizer
    <3>2. restore' = [me.obj EXCEPT !.fin = TRUE]
      BY <1>1, <2>2 DEF AddFinalizer, PutRestore
    <3>3. me.obj.status = restore.status
      BY <1>1, <2>2 DEF AddFinalizer, IInv, FreshInv
    <3>. QED
      BY <3>1, <3>2, <3>3 DEF Restore
  <2>. QED
    BY <2>1, <2>2
<1>2. CASE initializeStatuses \/ updateRestoreStatus \/ handleError
  <2>1. me.obj.status.phase # "Completed"
    BY <1>2 DEF initializeStatuses, updateRestoreStatus, handleError, IInv, StepInv,
       restoring, creating
  <2>2. ~me.fresh
    BY <2>1 DEF IInv, FreshInv
  <2>. QED
    BY <1>2, <2>2 DEF initializeStatuses, updateRestoreStatus, handleError, own
<1>3. CASE RemoveFinalizer
  BY <1>3 DEF RemoveFinalizer, PutRestore, own
<1>4. CASE Start \/ ensureJob \/ updateJobStatus \/ deleteJobs \/ Abort \/ CallFails
  BY <1>4 DEF Start, ensureJob, updateJobStatus, deleteJobs, Abort, CallFails, own
<1>5. CASE \/ \E s \in Selectors : CreateRestore(s) \/ EditRestore(s)
           \/ DeleteRestore
  <2>1. CASE \E s \in Selectors : EditRestore(s)
    <3>1. PICK s \in Selectors : EditRestore(s)
      BY <2>1
    <3>2. restore' = [restore EXCEPT !.sel = s]
      BY <3>1 DEF EditRestore, PutRestoreOutside, PutRestore
    <3>. QED
      BY <1>0, <3>2 DEF Restore
  <2>2. CASE DeleteRestore
    <3>1. restore' = [restore EXCEPT !.del = TRUE]
      BY <2>2 DEF DeleteRestore, PutRestoreOutside, PutRestore
    <3>. QED
      BY <1>0, <3>1 DEF Restore
  <2>. QED
    BY <1>5, <2>1, <2>2 DEF CreateRestore
<1>6. CASE \/ \E n \in Names : RemoveJob(n) \/ SyncJob(n) \/ RunJob(n) \/ CollectJob(n)
           \/ \E c \in Clusters \cup {Nil} : ChangeCluster(c)
           \/ \E b \in Backups \cup {Nil} : ChangeBackup(b)
           \/ SyncRestore \/ SyncCluster \/ SyncBackup
           \/ UNCHANGED vars
  <2>1. restore' = restore
    BY <1>6 DEF RemoveJob, SyncJob, RunJob, CollectJob, ChangeCluster, ChangeBackup,
       SyncRestore, SyncCluster, SyncBackup, vars, own
  <2>. QED
    BY <2>1
<1>. QED
  BY <1>1, <1>2, <1>3, <1>4, <1>5, <1>6 DEF Next, Reconcile, People, World

(* A restore that is reported Completed stays as it was reported.          *)
THEOREM CompletedStays == Spec => CompletedIsFinal
<1> DEFINE Final ==
        restore # Nil /\ restore.status.phase = "Completed"
          /\ restore' # Nil /\ restore'.uid = restore.uid
              => restore'.status = restore.status
<1>1. IInv /\ [Next]_vars => Final
  BY StatusStays
<1>. QED
  BY <1>1, Safety, PTL DEF CompletedIsFinal, Spec
=============================================================================
