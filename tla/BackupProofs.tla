---------------------------- MODULE BackupProofs ----------------------------
(***************************************************************************)
(* Theorems about BackupController, for every value of its constants.      *)
(***************************************************************************)
EXTENDS BackupController, TLAPS, SequenceTheorems

-----------------------------------------------------------------------------
(* Lemmas about what Reconcile computes.                                   *)

(* After a write a copy holds the same object, with its type.              *)
LEMMA AfterObj ==
    ASSUME NEW T, NEW c \in CopyOf(T), NEW old, NEW new
    PROVE  /\ After(c, old, new) \in CopyOf(T)
           /\ After(c, old, new).obj = c.obj
           /\ After(c, old, new).fresh => c.fresh /\ new = old
BY DEF After, CopyOf

(* A copy that is made anew has the type of its object.                    *)
LEMMA CopyType ==
    ASSUME NEW T, NEW o \in T \cup {Nil}
    PROVE  /\ Copy(o) \in CopyOf(T \cup {Nil}) /\ NoCopy \in CopyOf(T \cup {Nil})
           /\ Copy(o).obj = o /\ Copy(o).fresh
BY DEF Copy, NoCopy, CopyOf

(* Having no copy is a copy of nothing.                                    *)
LEMMA Nothing ==
    /\ NoCopy \in CopyOf(Backup \cup {Nil}) /\ NoCopy.obj = Nil /\ ~NoCopy.fresh
BY DEF NoCopy, CopyOf

(* What is not Nil among the objects is an object.                         *)
LEMMA Objects ==
    /\ \A o \in Backup \cup {Nil} : o # Nil => o \in Backup
    /\ \A j \in Job \cup {Nil} : j # Nil => j \in Job
    /\ \A o \in Backup : o # Nil
    /\ \A j \in Job : j # Nil
BY BackupNilAssumption

(* The Job controller keeps what a Job is for.                             *)
LEMMA StepsOfJob ==
    ASSUME NEW j \in Job, NEW k \in JobSteps(j, TRUE)
    PROVE  k \in Job /\ k.owner = j.owner /\ k.target = j.target /\ k.state # "created"
BY DEF Job, JobOf, JobSteps, JobStates

(* The phase that is reported is that of the Job.                          *)
LEMMA PhaseOfJob ==
    ASSUME NEW j \in Job
    PROVE  /\ JobPhase(j, "Pending") \in {"Pending", "Running", "Completed", "Failed"}
           /\ JobPhase(j, "Pending") = "Completed" => j.state = "completed"
BY DEF Job, JobOf, JobPhase, JobStates

(* The instance that is chosen is one that was asked for.                  *)
LEMMA ChosenTarget ==
    ASSUME NEW names \in Seq(Names), NEW instances,
           NEW t \in getTargetInstance(names, instances)
    PROVE  t \in Names \cup {Nil}
<1>1. CASE instances = {}
  BY <1>1 DEF getTargetInstance
<1>2. CASE instances # {}
  <2> DEFINE c == candidates(names)
  <2>1. PICK i \in DOMAIN c : t = c[i]
    BY <1>2 DEF getTargetInstance
  <2>2. c[i] \in Names
    <3>1. CASE names = <<>>
      BY <3>1, PrimaryAssumption DEF candidates
    <3>2. CASE names # <<>>
      <4>1. c = names /\ i \in 1 .. Len(names)
        BY <3>2, LenProperties DEF candidates
      <4>. QED
        BY <4>1, ElementOfSeq
    <3>. QED
      BY <3>1, <3>2
  <2>. QED
    BY <2>1, <2>2
<1>. QED
  BY <1>1, <1>2

(* So the host of the dump is a host.                                      *)
LEMMA ChosenHost ==
    ASSUME NEW t \in Names \cup {Nil}, NEW c \in ClusterView
    PROVE  targetHost(t, c) \in Hosts
BY DEF targetHost, Hosts, ClusterView

(* And the name of it that the status shows is one.                        *)
LEMMA NameOfHost ==
    ASSUME NEW h \in Hosts
    PROVE  h # Nil /\ targetInstance(h) \in Names \cup {Nil}
BY PrimaryAssumption, BackupNilAssumption DEF targetInstance, Hosts

(* Where Reconcile goes when it begins.                                    *)
LEMMA DispatchType ==
    ASSUME NEW o \in Backup, NEW c
    PROVE  /\ dispatch(o, c) \in {"finalizer", "delete", "noCluster", "job", "error"}
           /\ dispatch(o, c) = "finalizer" => ~o.fin
           /\ dispatch(o, c) = "delete" => o.fin /\ o.del
           /\ dispatch(o, c) \in {"noCluster", "job", "error"} => o.fin /\ ~o.del
           /\ dispatch(o, c) = "job" => c # Nil
<1>1. o.del \in BOOLEAN /\ o.fin \in BOOLEAN
  BY DEF Backup
<1> DEFINE found == getTargetInstance(o.names, c.instances) # {} /\ c.pvc
<1>2. dispatch(o, c) = CASE ~o.fin -> "finalizer"
                         [] o.fin /\ o.del -> "delete"
                         [] o.fin /\ ~o.del /\ c = Nil -> "noCluster"
                         [] OTHER -> IF found THEN "job" ELSE "error"
  BY DEF dispatch
<1> HIDE DEF found
<1>3. CASE ~o.fin
  BY <1>2, <1>3
<1>4. CASE o.fin /\ o.del
  BY <1>2, <1>4
<1>5. CASE o.fin /\ ~o.del /\ c = Nil
  BY <1>2, <1>5
<1>6. CASE o.fin /\ ~o.del /\ c # Nil
  BY <1>2, <1>6
<1>. QED
  BY <1>1, <1>3, <1>4, <1>5, <1>6

(* A backup that is written has the type of a backup.                      *)
LEMMA WriteType ==
    ASSUME NEW o \in Backup
    PROVE  /\ \A p \in {"Pending", "Running", "Completed", "Failed"} :
                 /\ [o EXCEPT !.status.phase = p] \in Backup
                 /\ [o EXCEPT !.status.phase = p].uid = o.uid
                 /\ [o EXCEPT !.status.phase = p].names = o.names
                 /\ [o EXCEPT !.status.phase = p].del = o.del
                 /\ [o EXCEPT !.status.phase = p].fin = o.fin
                 /\ [o EXCEPT !.status.phase = p].status.phase = p
           /\ \A st \in Status :
                 /\ [o EXCEPT !.status = st] \in Backup
                 /\ [o EXCEPT !.status = st].uid = o.uid
                 /\ [o EXCEPT !.status = st].names = o.names
                 /\ [o EXCEPT !.status = st].del = o.del
                 /\ [o EXCEPT !.status = st].fin = o.fin
                 /\ [o EXCEPT !.status = st].status = st
           /\ /\ [o EXCEPT !.fin = TRUE] \in Backup
              /\ [o EXCEPT !.fin = TRUE].uid = o.uid
              /\ [o EXCEPT !.fin = TRUE].names = o.names
              /\ [o EXCEPT !.fin = TRUE].del = o.del
              /\ [o EXCEPT !.fin = TRUE].fin
              /\ [o EXCEPT !.fin = TRUE].status = o.status
BY DEF Backup, Status

(* So does one that people edit or delete.                                 *)
LEMMA EditType ==
    ASSUME NEW o \in Backup
    PROVE  /\ \A s \in Seq(Names) :
                 /\ [o EXCEPT !.names = s] \in Backup
                 /\ [o EXCEPT !.names = s].names = s
                 /\ [o EXCEPT !.names = s].uid = o.uid
                 /\ [o EXCEPT !.names = s].del = o.del
                 /\ [o EXCEPT !.names = s].fin = o.fin
                 /\ [o EXCEPT !.names = s].status = o.status
           /\ /\ [o EXCEPT !.del = TRUE] \in Backup
              /\ [o EXCEPT !.del = TRUE].uid = o.uid
              /\ [o EXCEPT !.del = TRUE].del
              /\ [o EXCEPT !.del = TRUE].fin = o.fin
              /\ [o EXCEPT !.del = TRUE].status = o.status
BY DEF Backup, Status

-----------------------------------------------------------------------------
(* Types.                                                                  *)

(* The copy of a round in progress is a backup.                            *)
LEMMA MeType ==
    ASSUME TypeOK, StepInv, pc # "idle"
    PROVE  me.obj \in Backup /\ me.obj # Nil /\ me.obj.uid \in Uids /\ me.obj.status \in Status
BY Objects DEF TypeOK, StepInv, CopyOf, Backup

(* Writes keep the types.                                                  *)
LEMMA PutBackupType ==
    ASSUME TypeOK, NEW o \in Backup \cup {Nil}, PutBackup(o)
    PROVE  /\ backup' \in Backup \cup {Nil} /\ bcache' \in CopyOf(Backup \cup {Nil})
           /\ backup' = o /\ bcache'.obj = bcache.obj
           /\ bcache'.fresh => bcache.fresh /\ o = backup
BY AfterObj DEF TypeOK, PutBackup

(* So do those of the Job.                                                 *)
LEMMA PutJobType ==
    ASSUME TypeOK, NEW o \in Job \cup {Nil}, PutJob(o)
    PROVE  /\ job' \in Job \cup {Nil} /\ jcache' \in CopyOf(Job \cup {Nil})
           /\ job' = o /\ jcache'.obj = jcache.obj
           /\ jcache'.fresh => jcache.fresh /\ o = job
BY AfterObj DEF TypeOK, PutJob

(* A bounded counter that is counted up keeps its bound.                   *)
LEMMA Counting == TypeOK /\ events < MaxEvents => events + 1 \in 0 .. MaxEvents
BY BackupBoundsAssumption DEF TypeOK

(* In the beginning, everything has its type and nothing is claimed.       *)
LEMMA InitIInv == Init => IInv
<1> SUFFICES ASSUME Init PROVE IInv
  OBVIOUS
<1>1. /\ backup = Nil /\ bcache = Copy(Nil) /\ cluster \in Clusters \cup {Nil}
      /\ ccache = Copy(cluster) /\ job = Nil /\ jcache = Copy(Nil) /\ queued = FALSE
      /\ pc = "idle" /\ me = NoCopy /\ target = Nil /\ started = {} /\ done = {}
      /\ uids = 0 /\ events = 0
  BY DEF Init
<1>2. cluster \in ClusterView \cup {Nil}
  BY <1>1, ClustersAssumption
<1>3. /\ bcache \in CopyOf(Backup \cup {Nil}) /\ bcache.obj = Nil
      /\ ccache \in CopyOf(ClusterView \cup {Nil})
      /\ jcache \in CopyOf(Job \cup {Nil}) /\ jcache.obj = Nil
      /\ me \in CopyOf(Backup \cup {Nil}) /\ me.obj = Nil /\ ~me.fresh
  BY <1>1, <1>2, CopyType, Nothing
<1>4. TypeOK
  <2>1. uids \in 0 .. MaxUid /\ events \in 0 .. MaxEvents
    BY <1>1, BackupBoundsAssumption
  <2>2. started \subseteq Uids /\ done \subseteq Uids \X Hosts
    BY <1>1
  <2>. QED
    BY <1>1, <1>2, <1>3, <2>1, <2>2, Nothing DEF TypeOK
<1>5. StepInv /\ FreshInv
  BY <1>1, <1>3 DEF StepInv, FreshInv, reconciling, deleting
<1>6. OrderInv /\ CopyInv
  BY <1>1, <1>3 DEF OrderInv, older, CopyInv, proves
<1>7. OwnerInv /\ StartedInv
  BY <1>1, <1>3 DEF OwnerInv, StartedInv
<1>8. ReportInv /\ DoneInv
  BY <1>1, <1>3 DEF ReportInv, DoneInv
<1>. QED
  BY <1>4, <1>5, <1>6, <1>7, <1>8 DEF IInv

(* Once a round is over, nothing is left of it.                            *)
LEMMA ReturnType ==
    ASSUME TypeOK, NEW q \in BOOLEAN, Return(q)
    PROVE  /\ queued' \in BOOLEAN /\ pc' = "idle" /\ target' \in Hosts \cup {Nil}
           /\ me' = NoCopy /\ me' \in CopyOf(Backup \cup {Nil}) /\ StepInv'
<1>1. queued \in BOOLEAN
  BY DEF TypeOK
<1>2. queued' \in BOOLEAN /\ pc' = "idle" /\ target' = Nil /\ me' = NoCopy
  BY <1>1 DEF Return
<1>3. StepInv'
  BY <1>2 DEF StepInv, reconciling, deleting
<1>. QED
  BY <1>2, <1>3, Nothing

(* Beginning a round keeps types and establishes preconditions.            *)
LEMMA TypeStart == TypeOK /\ StepInv /\ Start => TypeOK' /\ StepInv'
<1> SUFFICES ASSUME TypeOK, StepInv, Start PROVE TypeOK' /\ StepInv'
  OBVIOUS
<1>1. /\ UNCHANGED <<backup, bcache, cluster, ccache, job, jcache, history, bounds>>
      /\ queued' = FALSE
  BY DEF Start
<1>2. CASE bcache.obj = Nil
  BY <1>1, <1>2 DEF Start, TypeOK, StepInv, history, bounds, reconciling, deleting
<1>3. CASE bcache.obj # Nil
  <2>1. bcache.obj \in Backup /\ bcache \in CopyOf(Backup \cup {Nil})
    BY <1>3, Objects DEF TypeOK, CopyOf
  <2>2. /\ me' = bcache /\ pc' = dispatch(bcache.obj, ccache.obj)
        /\ target' \in IF pc' = "job"
                       THEN {targetHost(t, ccache.obj) : t \in
                               getTargetInstance(bcache.obj.names, ccache.obj.instances)}
                       ELSE {Nil}
    BY <1>3 DEF Start
  <2>3. target' \in Hosts \cup {Nil} /\ (pc' = "job" => target' # Nil)
    <3>1. CASE pc' = "job"
      <4>1. bcache.obj.names \in Seq(Names)
        BY <2>1 DEF Backup
      <4>2. ccache.obj \in ClusterView
        <5>1. ccache.obj \in ClusterView \cup {Nil}
          BY DEF TypeOK, CopyOf
        <5>. QED
          BY <2>1, <2>2, <3>1, <5>1, DispatchType
      <4>3. PICK t \in getTargetInstance(bcache.obj.names, ccache.obj.instances) :
                target' = targetHost(t, ccache.obj)
        BY <2>2, <3>1
      <4>4. target' \in Hosts
        BY <4>1, <4>2, <4>3, ChosenTarget, ChosenHost
      <4>. QED
        BY <4>4, NameOfHost
    <3>2. CASE pc' # "job"
      BY <2>2, <3>2
    <3>. QED
      BY <3>1, <3>2
  <2>4. TypeOK'
    BY <1>1, <2>1, <2>2, <2>3, DispatchType DEF TypeOK, history, bounds
  <2>5. StepInv'
    BY <1>3, <2>1, <2>2, <2>3, DispatchType DEF StepInv, reconciling, deleting
  <2>. QED
    BY <2>4, <2>5
<1>. QED
  BY <1>2, <1>3

(* A status that is reported is a status.                                  *)
LEMMA ReportedType ==
    ASSUME TypeOK, target # Nil, NEW st, jcache.obj # Nil
    PROVE  /\ reported(st) \in Status /\ reported(st).target = targetInstance(target)
           /\ reported(st).phase = "Completed" => jcache.obj.state = "completed"
<1>1. jcache.obj \in Job
  BY Objects DEF TypeOK, CopyOf
<1>. QED
  BY <1>1, PhaseOfJob, NameOfHost DEF TypeOK, reported, Status

(* What Reconcile writes, and how the round goes on.                       *)
LEMMA Writes ==
    ASSUME TypeOK, StepInv,
           AddFinalizer \/ ClusterMissing \/ updateBackupStatus \/ ReportError
    PROVE  /\ UNCHANGED <<cluster, ccache, job, jcache, history, bounds>>
           /\ me.obj \in Backup /\ me.obj # Nil
           /\ \/ /\ UNCHANGED <<backup, bcache>>
                 /\ \/ \E q \in BOOLEAN : Return(q)
                    \/ pc = "status" /\ Goto("error")
              \/ /\ me.fresh
                 /\ \E q \in BOOLEAN : Return(q)
                 /\ \E o \in Backup :
                       /\ PutBackup(o)
                       /\ o.uid = me.obj.uid /\ o.names = me.obj.names
                       /\ o.del = me.obj.del /\ (me.obj.fin => o.fin)
                       /\ o.status.phase = "Completed" =>
                             \/ o.status = me.obj.status
                             \/ /\ pc = "status" /\ jcache.obj # Nil
                                /\ jcache.obj.state = "completed"
                                /\ o.status.target = targetInstance(target)
<1>0. me.obj \in Backup /\ me.obj # Nil /\ me.obj.status \in Status
  BY MeType DEF AddFinalizer, ClusterMissing, updateBackupStatus, ReportError
<1>1. me.fresh \in BOOLEAN
  BY DEF TypeOK, CopyOf
<1>2. UNCHANGED <<cluster, ccache, job, jcache, history, bounds>>
  BY DEF AddFinalizer, ClusterMissing, updateBackupStatus, ReportError
<1>3. CASE AddFinalizer
  <2> DEFINE o == [me.obj EXCEPT !.fin = TRUE]
  <2>1. CASE me.fresh /\ ~me.obj.del
    <3>1. PutBackup(o) /\ Return(FALSE)
      BY <1>3, <2>1 DEF AddFinalizer
    <3>2. /\ o \in Backup /\ o.uid = me.obj.uid /\ o.names = me.obj.names
          /\ o.del = me.obj.del /\ o.fin /\ o.status = me.obj.status
      BY <1>0, WriteType
    <3> HIDE DEF o
    <3>. QED
      BY <1>0, <1>2, <2>1, <3>1, <3>2
  <2>2. CASE ~(me.fresh /\ ~me.obj.del)
    BY <1>0, <1>2, <1>3, <2>2 DEF AddFinalizer
  <2>. QED
    BY <2>1, <2>2
<1>4. CASE ClusterMissing \/ ReportError
  <2> DEFINE o == [me.obj EXCEPT !.status.phase = "Failed"]
  <2>1. CASE me.fresh
    <3>1. PutBackup(o) /\ \E q \in BOOLEAN : Return(q)
      BY <1>4, <2>1 DEF ClusterMissing, ReportError
    <3>2. /\ o \in Backup /\ o.uid = me.obj.uid /\ o.names = me.obj.names
          /\ o.del = me.obj.del /\ o.fin = me.obj.fin /\ o.status.phase = "Failed"
      BY <1>0, WriteType
    <3> HIDE DEF o
    <3>. QED
      BY <1>0, <1>2, <2>1, <3>1, <3>2
  <2>2. CASE ~me.fresh
    BY <1>0, <1>2, <1>4, <2>2 DEF ClusterMissing, ReportError
  <2>. QED
    BY <1>1, <2>1, <2>2
<1>5. CASE updateBackupStatus
  <2>1. CASE jcache.obj # Nil /\ me.fresh
    <3> DEFINE st == reported(me.obj.status)
    <3> DEFINE o == [me.obj EXCEPT !.status = st]
    <3>1. PutBackup([me.obj EXCEPT !.status = reported(@)]) /\ Return(TRUE)
      BY <1>5, <2>1 DEF updateBackupStatus
    <3>2. [me.obj EXCEPT !.status = reported(@)] = o
      BY <1>0 DEF Backup
    <3>3. /\ st \in Status /\ st.target = targetInstance(target)
          /\ st.phase = "Completed" => jcache.obj.state = "completed"
      <4>1. target # Nil
        BY <1>5 DEF updateBackupStatus, StepInv
      <4>. QED
        BY <2>1, <4>1, ReportedType
    <3> HIDE DEF st
    <3>4. /\ o \in Backup /\ o.uid = me.obj.uid /\ o.names = me.obj.names
          /\ o.del = me.obj.del /\ o.fin = me.obj.fin /\ o.status = st
      BY <1>0, <3>3 DEF Backup
    <3>5. pc = "status"
      BY <1>5 DEF updateBackupStatus
    <3>6. PutBackup(o)
      BY <3>1, <3>2
    <3> HIDE DEF o
    <3>. QED
      BY <1>0, <1>2, <2>1, <3>1, <3>3, <3>4, <3>5, <3>6
  <2>2. CASE ~(jcache.obj # Nil /\ me.fresh)
    BY <1>0, <1>2, <1>5, <2>2 DEF updateBackupStatus
  <2>. QED
    BY <2>1, <2>2
<1>. QED
  BY <1>3, <1>4, <1>5

(* Writing the status keeps types and establishes preconditions.           *)
LEMMA TypeWrites ==
    ASSUME TypeOK, StepInv,
           AddFinalizer \/ ClusterMissing \/ updateBackupStatus \/ ReportError
    PROVE  TypeOK' /\ StepInv'
<1>1. UNCHANGED <<cluster, ccache, job, jcache, history, bounds>>
  BY Writes
<1>2. backup' \in Backup \cup {Nil} /\ bcache' \in CopyOf(Backup \cup {Nil})
  BY Writes, PutBackupType DEF TypeOK
<1>3. CASE \E q \in BOOLEAN : Return(q)
  BY <1>1, <1>2, <1>3, ReturnType DEF TypeOK, history, bounds
<1>4. CASE pc = "status" /\ Goto("error")
  <2>1. TypeOK'
    BY <1>1, <1>2, <1>4 DEF Goto, TypeOK, history, bounds
  <2>2. StepInv'
    BY <1>4 DEF Goto, StepInv, reconciling, deleting
  <2>. QED
    BY <2>1, <2>2
<1>. QED
  BY <1>3, <1>4, Writes

(* Creating the Job, or refusing to.                                       *)
LEMMA Creates ==
    ASSUME TypeOK, StepInv, CreateOrUpdate
    PROVE  /\ UNCHANGED <<backup, bcache, cluster, ccache, done, bounds, queued, me, target>>
           /\ pc = "job" /\ me.obj \in Backup /\ me.obj # Nil
           /\ me.obj.fin /\ ~me.obj.del /\ NewJob(me.obj.uid, target) \in Job
           /\ \/ /\ job = Nil /\ jcache.obj = Nil /\ pc' = "status"
                 /\ PutJob(NewJob(me.obj.uid, target))
                 /\ started' = started \cup {me.obj.uid}
              \/ pc' = "error" /\ UNCHANGED <<job, jcache, started>>
<1>1. /\ UNCHANGED <<backup, bcache, cluster, ccache, done, bounds, queued, me, target>>
      /\ pc = "job"
  BY DEF CreateOrUpdate, CreateJob, Goto
<1>2. me.obj \in Backup /\ me.obj # Nil /\ me.obj.uid \in Uids /\ target \in Hosts
  BY <1>1, MeType DEF TypeOK, StepInv
<1>3. me.obj.fin /\ ~me.obj.del
  BY <1>1 DEF StepInv, reconciling
<1>4. NewJob(me.obj.uid, target) \in Job
  BY <1>2 DEF NewJob, Job, JobOf, JobStates
<1>5. \/ /\ job = Nil /\ jcache.obj = Nil /\ pc' = "status"
         /\ PutJob(NewJob(me.obj.uid, target))
         /\ started' = started \cup {me.obj.uid}
      \/ pc' = "error" /\ UNCHANGED <<job, jcache, started>>
  BY DEF CreateOrUpdate, CreateJob, Goto
<1>. QED
  BY <1>1, <1>2, <1>3, <1>4, <1>5

(* So does creating the Job.                                               *)
LEMMA TypeCreates == TypeOK /\ StepInv /\ CreateOrUpdate => TypeOK' /\ StepInv'
<1> SUFFICES ASSUME TypeOK, StepInv, CreateOrUpdate PROVE TypeOK' /\ StepInv'
  OBVIOUS
<1>1. /\ UNCHANGED <<backup, bcache, cluster, ccache, done, bounds, queued, me, target>>
      /\ pc' \in {"status", "error"} /\ me.obj.uid \in Uids
      /\ me.obj # Nil /\ me.obj.fin /\ ~me.obj.del /\ target # Nil
  BY Creates DEF Backup, StepInv
<1>2. /\ job' \in Job \cup {Nil} /\ jcache' \in CopyOf(Job \cup {Nil})
      /\ started' \subseteq Uids
  <2>1. CASE PutJob(NewJob(me.obj.uid, target)) /\ started' = started \cup {me.obj.uid}
    BY <1>1, <2>1, Creates, PutJobType DEF TypeOK
  <2>2. CASE UNCHANGED <<job, jcache, started>>
    BY <2>2 DEF TypeOK
  <2>. QED
    BY <2>1, <2>2, Creates
<1>3. TypeOK'
  BY <1>1, <1>2 DEF TypeOK, bounds
<1>4. StepInv'
  BY <1>1 DEF StepInv, reconciling, deleting
<1>. QED
  BY <1>3, <1>4

(* Deleting the Job and removing the finalizer.                            *)
LEMMA TypeDeletes ==
    ASSUME TypeOK, StepInv, DeleteJob \/ RemoveFinalizer PROVE TypeOK' /\ StepInv'
<1>1. CASE DeleteJob
  <2>1. /\ UNCHANGED <<backup, bcache, cluster, ccache, history, bounds, queued, me, target>>
        /\ pc = "delete" /\ pc' = "release"
    BY <1>1 DEF DeleteJob, Goto
  <2>2. job' \in Job \cup {Nil} /\ jcache' \in CopyOf(Job \cup {Nil})
    BY <1>1, PutJobType DEF DeleteJob, TypeOK
  <2>3. TypeOK'
    BY <2>1, <2>2 DEF TypeOK, history, bounds
  <2>4. StepInv'
    BY <2>1 DEF StepInv, reconciling, deleting
  <2>. QED
    BY <2>3, <2>4
<1>2. CASE RemoveFinalizer
  <2>1. backup' \in Backup \cup {Nil} /\ bcache' \in CopyOf(Backup \cup {Nil})
    BY <1>2, PutBackupType DEF RemoveFinalizer, TypeOK
  <2>2. Return(~me.fresh) /\ UNCHANGED <<cluster, ccache, job, jcache, history, bounds>>
    BY <1>2 DEF RemoveFinalizer
  <2>3. (~me.fresh) \in BOOLEAN
    BY DEF TypeOK, CopyOf
  <2>. QED
    BY <2>1, <2>2, <2>3, ReturnType DEF TypeOK, history, bounds
<1>. QED
  BY <1>1, <1>2

(* What a failed call leaves in memory.                                    *)
LEMMA Fails ==
    ASSUME TypeOK, StepInv, CallFails
    PROVE  /\ UNCHANGED <<backup, bcache, cluster, ccache, job, jcache, queued, target,
                         history, uids>>
           /\ pc \in {"job", "status"} /\ pc' = "error" /\ events' \in 0 .. MaxEvents
           /\ me' \in CopyOf(Backup \cup {Nil}) /\ me'.fresh = me.fresh
           /\ me.obj # Nil /\ me'.obj # Nil
           /\ me'.obj.uid = me.obj.uid /\ me'.obj.names = me.obj.names
           /\ me'.obj.del = me.obj.del /\ me'.obj.fin = me.obj.fin
           /\ me'.obj.status.phase = "Completed" =>
                 \/ me'.obj.status = me.obj.status
                 \/ /\ pc = "status" /\ jcache.obj # Nil
                    /\ jcache.obj.state = "completed"
                    /\ me'.obj.status.target = targetInstance(target)
<1>1. /\ UNCHANGED <<backup, bcache, cluster, ccache, job, jcache, queued, target,
                     history, uids>>
      /\ pc \in {"job", "status"} /\ pc' = "error" /\ events' \in 0 .. MaxEvents
  BY Counting DEF CallFails
<1>2. me.obj \in Backup /\ me.obj # Nil /\ me \in CopyOf(Backup \cup {Nil})
  BY <1>1, MeType DEF TypeOK
<1>3. CASE ~(pc = "status" /\ jcache.obj # Nil)
  <2>1. me' = me
    BY <1>3 DEF CallFails
  <2>. QED
    BY <1>1, <1>2, <2>1
<1>4. CASE pc = "status" /\ jcache.obj # Nil
  <2> DEFINE st == reported(me.obj.status)
  <2> DEFINE o == [me.obj EXCEPT !.status = st]
  <2>1. me' = [me EXCEPT !.obj.status = reported(@)]
    BY <1>4 DEF CallFails
  <2>2. me' = [me EXCEPT !.obj = o]
    BY <1>2, <2>1 DEF Backup, CopyOf
  <2>3. /\ st \in Status /\ st.target = targetInstance(target)
        /\ st.phase = "Completed" => jcache.obj.state = "completed"
    <3>1. target # Nil
      BY <1>4 DEF StepInv
    <3>. QED
      BY <1>4, <3>1, ReportedType
  <2> HIDE DEF st
  <2>4. /\ o \in Backup /\ o.uid = me.obj.uid /\ o.names = me.obj.names
        /\ o.del = me.obj.del /\ o.fin = me.obj.fin /\ o.status = st
    BY <1>2, <2>3 DEF Backup
  <2> HIDE DEF o
  <2>5. me'.obj = o /\ me'.fresh = me.fresh /\ me' \in CopyOf(Backup \cup {Nil})
    BY <1>2, <2>2, <2>4 DEF CopyOf
  <2>. QED
    BY <1>1, <1>2, <1>4, <2>3, <2>4, <2>5, Objects
<1>. QED
  BY <1>3, <1>4

(* So do failed calls.                                                     *)
LEMMA TypeFailures == ASSUME TypeOK, StepInv, Abort \/ CallFails PROVE TypeOK' /\ StepInv'
<1>1. CASE Abort
  <2>1. /\ UNCHANGED <<backup, bcache, cluster, ccache, job, jcache, history, uids>>
        /\ Return(TRUE) /\ events' \in 0 .. MaxEvents
    BY <1>1, Counting DEF Abort
  <2>. QED
    BY <2>1, ReturnType DEF TypeOK, history
<1>2. CASE CallFails
  <2>1. TypeOK'
    BY <1>2, Fails DEF TypeOK, history
  <2>2. StepInv'
    BY <1>2, Fails DEF StepInv, reconciling, deleting
  <2>. QED
    BY <2>1, <2>2
<1>. QED
  BY <1>1, <1>2

(* A backup that people write leaves the round in progress where it is.    *)
LEMMA OutsideType ==
    ASSUME TypeOK, StepInv, NEW o \in Backup \cup {Nil}, PutBackupOutside(o),
           uids' \in 0 .. MaxUid, events' \in 0 .. MaxEvents
    PROVE  TypeOK' /\ StepInv'
<1>1. /\ PutBackup(o) /\ me' = After(me, backup, o)
      /\ UNCHANGED <<cluster, ccache, job, jcache, queued, pc, target, history>>
  BY DEF PutBackupOutside
<1>2. me' \in CopyOf(Backup \cup {Nil}) /\ me'.obj = me.obj
  BY <1>1, AfterObj DEF TypeOK
<1>3. TypeOK'
  BY <1>1, <1>2, PutBackupType DEF TypeOK, history
<1>4. StepInv'
  BY <1>1, <1>2 DEF StepInv, reconciling, deleting
<1>. QED
  BY <1>3, <1>4

(* What people make of a backup.                                           *)
LEMMA Outside ==
    ASSUME TypeOK,
           \/ \E s \in Selections : CreateBackup(s) \/ EditBackup(s)
           \/ DeleteBackup
    PROVE  \E o \in Backup \cup {Nil} :
              /\ PutBackupOutside(o) /\ o # backup
              /\ uids' \in 0 .. MaxUid /\ events' \in 0 .. MaxEvents
              /\ \/ /\ backup = Nil /\ uids' = uids + 1 /\ o # Nil /\ o.uid = uids'
                    /\ o.status.phase = Nil
                 \/ /\ backup # Nil /\ uids' = uids /\ o # Nil /\ o.uid = backup.uid
                    /\ o.fin = backup.fin /\ (backup.del => o.del)
                    /\ o.status = backup.status
                 \/ backup # Nil /\ ~backup.fin /\ uids' = uids /\ o = Nil
<1>0. backup # Nil => backup \in Backup
  BY Objects DEF TypeOK
<1>1. CASE \E s \in Selections : CreateBackup(s)
  <2>1. PICK s \in Selections : CreateBackup(s)
    BY <1>1
  <2> DEFINE o == [uid |-> uids + 1, del |-> FALSE, fin |-> FALSE, names |-> s,
                   status |-> NoStatus]
  <2>2. backup = Nil /\ uids' = uids + 1 /\ events' = events /\ PutBackupOutside(o)
    BY <2>1 DEF CreateBackup
  <2>3. uids + 1 \in Uids /\ uids + 1 \in 0 .. MaxUid /\ events \in 0 .. MaxEvents
    BY <2>1, BackupBoundsAssumption DEF CreateBackup, TypeOK, Uids
  <2>4. s \in Seq(Names)
    BY SelectionsAssumption
  <2>5. o \in Backup
    BY <2>3, <2>4, Nothing DEF Backup, Status, NoStatus
  <2>6. o.uid = uids + 1 /\ o.status.phase = Nil
    BY DEF NoStatus
  <2> HIDE DEF o
  <2>. QED
    BY <2>2, <2>3, <2>5, <2>6, Objects
<1>2. CASE \E s \in Selections : EditBackup(s)
  <2>1. PICK s \in Selections : EditBackup(s)
    BY <1>2
  <2> DEFINE o == [backup EXCEPT !.names = s]
  <2>2. backup # Nil /\ s # backup.names /\ uids' = uids /\ PutBackupOutside(o)
    BY <2>1 DEF EditBackup
  <2>3. uids' \in 0 .. MaxUid /\ events' \in 0 .. MaxEvents
    BY <2>1, Counting DEF EditBackup, TypeOK
  <2>4. s \in Seq(Names)
    BY SelectionsAssumption
  <2>5. /\ o \in Backup /\ o.names = s /\ o.uid = backup.uid /\ o.del = backup.del
        /\ o.fin = backup.fin /\ o.status = backup.status
    BY <1>0, <2>2, <2>4, EditType
  <2> HIDE DEF o
  <2>. QED
    BY <2>2, <2>3, <2>5, Objects
<1>3. CASE DeleteBackup
  <2>1. backup # Nil /\ ~backup.del /\ uids' = uids /\ events' = events
    BY <1>3 DEF DeleteBackup, bounds
  <2>2. uids' \in 0 .. MaxUid /\ events' \in 0 .. MaxEvents
    BY <2>1 DEF TypeOK
  <2>3. CASE backup.fin
    <3> DEFINE o == [backup EXCEPT !.del = TRUE]
    <3>1. PutBackupOutside(o)
      BY <1>3, <2>3 DEF DeleteBackup
    <3>2. /\ o \in Backup /\ o.uid = backup.uid /\ o.del
          /\ o.fin = backup.fin /\ o.status = backup.status
      BY <1>0, <2>1, EditType
    <3> HIDE DEF o
    <3>. QED
      BY <2>1, <2>2, <3>1, <3>2, Objects
  <2>4. CASE ~backup.fin
    <3>1. PutBackupOutside(Nil)
      BY <1>3, <2>4 DEF DeleteBackup
    <3>. QED
      BY <2>1, <2>2, <2>4, <3>1
  <2>. QED
    BY <2>3, <2>4
<1>. QED
  BY <1>1, <1>2, <1>3

(* The caches, the cluster and the timers.                                 *)
LEMMA TypeSurroundings ==
    ASSUME TypeOK, StepInv,
           \/ SyncBackup \/ SyncJob \/ SyncCluster \/ Resync
           \/ \E c \in Clusters \cup {Nil} : ChangeCluster(c)
    PROVE  TypeOK' /\ StepInv'
<1>1. UNCHANGED <<backup, job, pc, me, target, history, uids>>
  BY DEF SyncBackup, SyncJob, SyncCluster, Resync, ChangeCluster, progress, bounds
<1>2. StepInv'
  BY <1>1 DEF StepInv, reconciling, deleting
<1>3. /\ bcache' \in CopyOf(Backup \cup {Nil}) /\ jcache' \in CopyOf(Job \cup {Nil})
      /\ queued' \in BOOLEAN
  BY CopyType DEF TypeOK, SyncBackup, SyncJob, SyncCluster, Resync, ChangeCluster, progress
<1>4. /\ cluster' \in ClusterView \cup {Nil} /\ ccache' \in CopyOf(ClusterView \cup {Nil})
      /\ events' \in 0 .. MaxEvents
  <2>1. CASE \E c \in Clusters \cup {Nil} : ChangeCluster(c)
    <3>1. PICK c \in Clusters \cup {Nil} : ChangeCluster(c)
      BY <2>1
    <3>2. c \in ClusterView \cup {Nil}
      BY ClustersAssumption
    <3>3. cluster' = c /\ ccache' = After(ccache, cluster, c) /\ events' \in 0 .. MaxEvents
      BY <3>1, Counting DEF ChangeCluster
    <3>. QED
      BY <3>2, <3>3, AfterObj DEF TypeOK
  <2>2. CASE SyncBackup \/ SyncJob \/ SyncCluster \/ Resync
    BY <2>2, CopyType DEF TypeOK, SyncBackup, SyncJob, SyncCluster, Resync, bounds
  <2>. QED
    BY <2>1, <2>2
<1>. QED
  BY <1>1, <1>2, <1>3, <1>4 DEF TypeOK, history

(* What becomes of the Job outside Reconcile.                              *)
LEMMA JobMoves ==
    ASSUME TypeOK, RunJob \/ RemoveJob \/ CollectJob
    PROVE  /\ UNCHANGED <<backup, bcache, cluster, ccache, progress, uids>>
           /\ job \in Job /\ job # Nil /\ events' \in 0 .. MaxEvents
           /\ \E j \in Job \cup {Nil} :
                 /\ PutJob(j)
                 /\ j # Nil => /\ j.owner = job.owner /\ j.target = job.target
                               /\ j.state # "created" /\ UNCHANGED started
                               /\ j.state = "completed" => <<j.owner, j.target>> \in done'
                 /\ j = Nil => \/ started' = started \ {job.owner}
                               \/ /\ started' = started
                                  /\ backup # Nil => backup.uid # job.owner
           /\ done \subseteq done' /\ done' \subseteq Uids \X Hosts
<1>0. /\ UNCHANGED <<backup, bcache, cluster, ccache, progress, uids>>
      /\ job \in Job /\ job # Nil
  BY Objects DEF RunJob, RemoveJob, CollectJob, bounds, TypeOK
<1>1. events' \in 0 .. MaxEvents
  BY Counting DEF RunJob, RemoveJob, CollectJob, bounds, TypeOK
<1>2. CASE RunJob
  <2>1. PICK j \in JobSteps(job, TRUE) :
            /\ PutJob(j)
            /\ done' = IF j.state = "completed" THEN done \cup {<<j.owner, j.target>>}
                       ELSE done
    BY <1>2 DEF RunJob
  <2>2. /\ j \in Job /\ j.owner = job.owner /\ j.target = job.target
        /\ j.state # "created" /\ j # Nil
    BY <1>0, <2>1, StepsOfJob, Objects
  <2>3. j.owner \in Uids /\ j.target \in Hosts
    BY <2>2 DEF Job, JobOf
  <2>4. started' = started
    BY <1>2 DEF RunJob
  <2>. QED
    BY <1>0, <1>1, <2>1, <2>2, <2>3, <2>4 DEF TypeOK
<1>3. CASE RemoveJob
  BY <1>0, <1>1, <1>3 DEF RemoveJob, TypeOK
<1>4. CASE CollectJob
  BY <1>0, <1>1, <1>4 DEF CollectJob, TypeOK, history
<1>. QED
  BY <1>2, <1>3, <1>4

(* So do the steps of the Job.                                             *)
LEMMA TypeJobs ==
    ASSUME TypeOK, StepInv, RunJob \/ RemoveJob \/ CollectJob PROVE TypeOK' /\ StepInv'
<1>1. job' \in Job \cup {Nil} /\ jcache' \in CopyOf(Job \cup {Nil}) /\ started' \subseteq Uids
  BY JobMoves, PutJobType DEF TypeOK
<1>2. TypeOK'
  BY <1>1, JobMoves DEF TypeOK, progress
<1>3. StepInv'
  BY JobMoves DEF StepInv, progress, reconciling, deleting
<1>. QED
  BY <1>2, <1>3

(* Every step keeps the types and what the steps rely on.                  *)
LEMMA TypeNext == TypeOK /\ StepInv /\ [Next]_vars => TypeOK' /\ StepInv'
<1> SUFFICES ASSUME TypeOK, StepInv, [Next]_vars PROVE TypeOK' /\ StepInv'
  OBVIOUS
<1>1. CASE Reconcile
  BY <1>1, TypeStart, TypeWrites, TypeCreates, TypeDeletes DEF Reconcile
<1>2. CASE Abort \/ CallFails
  BY <1>2, TypeFailures
<1>3. CASE People
  <2>1. CASE \/ \E s \in Selections : CreateBackup(s) \/ EditBackup(s)
             \/ DeleteBackup
    BY <2>1, Outside, OutsideType
  <2>. QED
    BY <1>3, <2>1, TypeJobs, TypeSurroundings DEF People
<1>4. CASE World
  BY <1>4, TypeJobs, TypeSurroundings DEF World
<1>5. CASE UNCHANGED vars
  <2>1. TypeOK'
    BY <1>5 DEF vars, TypeOK
  <2>2. StepInv'
    BY <1>5 DEF vars, StepInv, reconciling, deleting
  <2>. QED
    BY <2>1, <2>2
<1>. QED
  BY <1>1, <1>2, <1>3, <1>4, <1>5 DEF Next

(* Every variable of the backup controller and of its surroundings keeps   *)
(* its type, however calls fail and people interfere.                      *)
THEOREM TypeCorrect == Spec => []TypeOK
<1>1. Init => TypeOK /\ StepInv
  BY InitIInv DEF IInv
<1>. QED
  BY <1>1, TypeNext, PTL DEF Spec

-----------------------------------------------------------------------------
(* The inductive invariant.                                                *)

Facts ==
    /\ FreshInv /\ OrderInv /\ CopyInv /\ OwnerInv /\ StartedInv /\ ReportInv /\ DoneInv

(* Steps that only move Reconcile along, or end its round, leave it alone. *)
LEMMA Quiet ==
    ASSUME IInv, UNCHANGED <<backup, bcache, job, jcache, started, done, uids>>,
           \/ me' = NoCopy /\ pc' = "idle"
           \/ me' = me /\ pc' = pc /\ target' = target
           \/ /\ me'.fresh = me.fresh /\ me'.obj # Nil /\ me.obj # Nil
              /\ me'.obj.uid = me.obj.uid /\ me'.obj.names = me.obj.names
              /\ me'.obj.del = me.obj.del /\ me'.obj.fin = me.obj.fin
              /\ me'.obj.status.phase = "Completed" =>
                    dumped(me'.obj)
              /\ pc' \notin {"status", "job"}
              /\ pc' \in deleting => pc \in deleting
    PROVE  Facts'
<1>1. FreshInv'
  BY Nothing DEF IInv, FreshInv
<1>2. OrderInv'
  BY Nothing DEF IInv, OrderInv, older
<1>3. CopyInv'
  BY Nothing DEF IInv, CopyInv, proves
<1>4. OwnerInv'
  BY Nothing DEF IInv, OwnerInv, deleting
<1>5. StartedInv'
  <2>1. \A u : over(u) => over(u)'
    BY Nothing DEF over
  <2>. QED
    BY <2>1 DEF IInv, StartedInv
<1>6. ReportInv'
  BY DEF IInv, ReportInv
<1>7. DoneInv'
  BY Nothing DEF IInv, DoneInv, dumped
<1>. QED
  BY <1>1, <1>2, <1>3, <1>4, <1>5, <1>6, <1>7 DEF Facts

(* A completed Job that is about to be reported was the right one.         *)
LEMMA Reporting ==
    ASSUME IInv, pc = "status", jcache.obj # Nil, jcache.obj.state = "completed"
    PROVE  \A o : o.uid = me.obj.uid /\ o.status.target = targetInstance(target) => dumped(o)
<1>1. <<me.obj.uid, target>> \in done
  BY DEF IInv, ReportInv, DoneInv
<1>2. target \in Hosts
  BY DEF IInv, TypeOK, StepInv
<1>. QED
  BY <1>1, <1>2 DEF dumped

(* A round begins with what the caches show.                               *)
LEMMA FactsStart == IInv /\ Start => Facts'
<1> SUFFICES ASSUME IInv, Start PROVE Facts'
  OBVIOUS
<1>0. UNCHANGED <<backup, bcache, job, jcache, started, done, uids>> /\ pc = "idle"
  BY DEF Start, history, bounds
<1>1. CASE bcache.obj = Nil
  BY <1>0, <1>1, Quiet DEF Start
<1>2. CASE bcache.obj # Nil
  <2>1. bcache.obj \in Backup
    BY <1>2, Objects DEF IInv, TypeOK, CopyOf
  <2>2. me' = bcache /\ pc' = dispatch(bcache.obj, ccache.obj)
    BY <1>2 DEF Start
  <2>3. /\ pc' \in {"finalizer", "delete", "noCluster", "job", "error"}
        /\ (pc' = "job" => ~bcache.obj.del)
    BY <2>1, <2>2, DispatchType
  <2>4. FreshInv'
    BY <1>0, <1>2, <2>2 DEF IInv, FreshInv
  <2>5. OrderInv'
    BY <1>0, <1>2, <2>1, <2>2 DEF IInv, OrderInv, older, Backup, Uids
  <2>6. CopyInv'
    BY <1>0, <2>2 DEF IInv, CopyInv, proves
  <2>7. OwnerInv'
    BY <1>0, <1>2, <2>2 DEF IInv, OwnerInv, deleting
  <2>8. StartedInv'
    <3>1. \A u : over(u) => over(u)'
      BY <1>0, <1>2, <2>2, <2>3 DEF over
    <3>. QED
      BY <1>0, <3>1 DEF IInv, StartedInv
  <2>9. ReportInv' /\ DoneInv'
    BY <1>0, <2>2, <2>3 DEF IInv, ReportInv, DoneInv, dumped
  <2>. QED
    BY <2>4, <2>5, <2>6, <2>7, <2>8, <2>9 DEF Facts
<1>. QED
  BY <1>1, <1>2

(* A write of a fresh copy keeps what the other copies show true.          *)
LEMMA Written ==
    ASSUME IInv, me.fresh, NEW o \in Backup, PutBackup(o),
           o.uid = backup.uid, o.names = backup.names, o.del = backup.del,
           backup.fin => o.fin,
           o.status.phase = "Completed" => dumped(o),
           UNCHANGED <<job, jcache, started, done, uids>>,
           me' = NoCopy, pc' = "idle"
    PROVE  Facts'
<1>0. backup # Nil /\ o # Nil
  BY Objects DEF IInv, FreshInv
<1>1. backup' = o /\ bcache'.obj = bcache.obj /\ (bcache'.fresh => bcache.fresh /\ o = backup)
  BY PutBackupType DEF IInv
<1>2. me'.obj = Nil /\ ~me'.fresh
  BY Nothing
<1>3. FreshInv'
  BY <1>0, <1>1, <1>2 DEF IInv, FreshInv
<1>4. OrderInv'
  BY <1>0, <1>1, <1>2 DEF IInv, OrderInv, older
<1>5. CopyInv'
  BY <1>0, <1>1, <1>2 DEF IInv, CopyInv, proves
<1>6. OwnerInv'
  BY <1>0, <1>1, <1>2 DEF IInv, OwnerInv, deleting
<1>7. StartedInv'
  <2>1. \A u : over(u) => over(u)'
    BY <1>0, <1>1, <1>2 DEF over
  <2>. QED
    BY <1>0, <1>1, <2>1 DEF IInv, StartedInv
<1>8. ReportInv' /\ DoneInv'
  BY <1>0, <1>1, <1>2 DEF IInv, ReportInv, DoneInv, dumped
<1>. QED
  BY <1>3, <1>4, <1>5, <1>6, <1>7, <1>8 DEF Facts

(* Writing the status keeps the other parts of the invariant.              *)
LEMMA FactsWrites ==
    ASSUME IInv, AddFinalizer \/ ClusterMissing \/ updateBackupStatus \/ ReportError
    PROVE  Facts'
<1>0. UNCHANGED <<job, jcache, started, done, uids>> /\ me.obj \in Backup /\ me.obj # Nil
  BY Writes DEF IInv, history, bounds
<1>1. me.obj.status.phase = "Completed" => dumped(me.obj)
  BY <1>0 DEF IInv, DoneInv
<1>2. CASE UNCHANGED <<backup, bcache>> /\ \E q \in BOOLEAN : Return(q)
  <2>1. me' = NoCopy /\ pc' = "idle"
    BY <1>2 DEF Return
  <2>. QED
    BY <1>0, <1>2, <2>1, Quiet
<1>3. CASE UNCHANGED <<backup, bcache>> /\ Goto("error")
  <2>1. me' = me /\ pc' = "error"
    BY <1>3 DEF Goto
  <2>. QED
    BY <1>0, <1>1, <1>3, <2>1, Quiet DEF deleting
<1>4. CASE /\ me.fresh /\ \E q \in BOOLEAN : Return(q)
           /\ \E o \in Backup :
                 /\ PutBackup(o)
                 /\ o.uid = me.obj.uid /\ o.names = me.obj.names
                 /\ o.del = me.obj.del /\ (me.obj.fin => o.fin)
                 /\ o.status.phase = "Completed" =>
                       \/ o.status = me.obj.status
                       \/ /\ pc = "status" /\ jcache.obj # Nil
                          /\ jcache.obj.state = "completed"
                          /\ o.status.target = targetInstance(target)
  <2>1. PICK o \in Backup :
                 /\ PutBackup(o)
                 /\ o.uid = me.obj.uid /\ o.names = me.obj.names
                 /\ o.del = me.obj.del /\ (me.obj.fin => o.fin)
                 /\ o.status.phase = "Completed" =>
                       \/ o.status = me.obj.status
                       \/ /\ pc = "status" /\ jcache.obj # Nil
                          /\ jcache.obj.state = "completed"
                          /\ o.status.target = targetInstance(target)
    BY <1>4
  <2>2. /\ me.obj.uid = backup.uid /\ me.obj.names = backup.names
        /\ me.obj.del = backup.del /\ me.obj.fin = backup.fin
    BY <1>4 DEF IInv, FreshInv
  <2>3. o.status.phase = "Completed" => dumped(o)
    <3>1. CASE o.status = me.obj.status
      BY <1>1, <2>1, <3>1 DEF dumped
    <3>2. CASE o.status # me.obj.status
      BY <2>1, <3>2, Reporting
    <3>. QED
      BY <3>1, <3>2
  <2>4. me' = NoCopy /\ pc' = "idle"
    BY <1>4 DEF Return
  <2>. QED
    BY <1>0, <1>4, <2>1, <2>2, <2>3, <2>4, Written
<1>. QED
  BY <1>2, <1>3, <1>4, Writes DEF IInv

(* A Job is created for an incarnation that exists and that has none yet.  *)
LEMMA Created ==
    ASSUME IInv, CreateOrUpdate, job = Nil
    PROVE  me.obj.uid \notin started
<1>1. pc = "job"
  BY Creates DEF IInv
<1>. QED
  BY <1>1 DEF IInv, StartedInv, over

(* So does creating the Job.                                               *)
LEMMA FactsCreates == IInv /\ CreateOrUpdate => Facts'
<1> SUFFICES ASSUME IInv, CreateOrUpdate PROVE Facts'
  OBVIOUS
<1>0. /\ UNCHANGED <<backup, bcache, done, uids, me, target>> /\ pc = "job"
      /\ me.obj \in Backup /\ me.obj # Nil /\ me.obj.fin /\ ~me.obj.del
  BY Creates DEF IInv, bounds
<1>1. CASE pc' = "error" /\ UNCHANGED <<job, jcache, started>>
  <2>1. me.obj.status.phase = "Completed" => dumped(me.obj)
    BY <1>0 DEF IInv, DoneInv
  <2>. QED
    BY <1>0, <1>1, <2>1, Quiet DEF deleting
<1>2. CASE /\ job = Nil /\ jcache.obj = Nil /\ pc' = "status"
           /\ PutJob(NewJob(me.obj.uid, target))
           /\ started' = started \cup {me.obj.uid}
  <2> DEFINE j == NewJob(me.obj.uid, target)
  <2>1. j \in Job /\ j # Nil /\ j.owner = me.obj.uid /\ j.target = target /\ j.state = "created"
    BY Creates, Objects DEF IInv, NewJob
  <2>2. job' = j /\ jcache'.obj = Nil /\ ~jcache'.fresh
    BY <1>2, <2>1, PutJobType DEF IInv
  <2> HIDE DEF j
  <2>3. backup # Nil /\ backup.uid = me.obj.uid /\ backup.fin
    BY <1>0 DEF IInv, CopyInv, proves
  <2>4. FreshInv'
    BY <1>0, <2>2 DEF IInv, FreshInv
  <2>5. OrderInv'
    BY <1>0 DEF IInv, OrderInv, older
  <2>6. CopyInv'
    BY <1>0 DEF IInv, CopyInv, proves
  <2>7. OwnerInv'
    BY <1>0, <1>2, <2>1, <2>2 DEF IInv, OwnerInv, OrderInv, older, deleting
  <2>8. StartedInv'
    <3>1. \A u : over(u) => over(u)'
      BY <1>0, <1>2 DEF over
    <3>2. bcache.obj # Nil /\ bcache.obj.uid = me.obj.uid => bcache.obj.fin
      BY <1>0 DEF IInv, OrderInv, older
    <3>3. me.obj.uid <= uids
      BY <1>0 DEF IInv, OrderInv
    <3>. QED
      BY <1>0, <1>2, <2>1, <2>2, <2>3, <3>1, <3>2, <3>3 DEF IInv, StartedInv
  <2>9. ReportInv' /\ DoneInv'
    BY <1>0, <2>1, <2>2 DEF IInv, ReportInv, DoneInv, dumped
  <2>. QED
    BY <2>4, <2>5, <2>6, <2>7, <2>8, <2>9 DEF Facts
<1>. QED
  BY <1>1, <1>2, Creates DEF IInv

(* A Job that changes hands with its owner kept, or that goes when its     *)
(* owner needs it no more, leaves the invariant alone.                     *)
LEMMA JobChanged ==
    ASSUME IInv, job' \in Job \cup {Nil}, PutJob(job'), job # Nil,
           UNCHANGED <<backup, bcache, me, target, uids>>,
           pc' = pc \/ (pc = "delete" /\ pc' = "release"),
           job' # Nil =>
               /\ job'.owner = job.owner /\ job'.target = job.target
               /\ job'.state = "completed" => <<job'.owner, job'.target>> \in done',
           started' \subseteq started, done \subseteq done',
           job' = Nil /\ job.owner \in started' => over(job.owner)
    PROVE  Facts'
<1>0. jcache'.obj = jcache.obj /\ (jcache'.fresh => jcache.fresh /\ job' = job)
  BY AfterObj DEF IInv, TypeOK, PutJob
<1>1. FreshInv'
  BY <1>0 DEF IInv, FreshInv
<1>2. OrderInv'
  BY DEF IInv, OrderInv, older
<1>3. CopyInv'
  BY DEF IInv, CopyInv, proves
<1>4. OwnerInv'
  BY <1>0 DEF IInv, OwnerInv, deleting
<1>5. StartedInv'
  <2>1. \A u : over(u) => over(u)'
    BY DEF over
  <2>. QED
    BY <1>0, <2>1 DEF IInv, StartedInv
<1>6. ReportInv'
  BY <1>0 DEF IInv, ReportInv
<1>7. DoneInv'
  BY <1>0 DEF IInv, DoneInv, dumped
<1>. QED
  BY <1>1, <1>2, <1>3, <1>4, <1>5, <1>6, <1>7 DEF Facts

(* A deletion deletes the Job of an incarnation that is over, and when the *)
(* finalizer goes, no copy is left that shows the backup whole.            *)
LEMMA FactsDeletes == ASSUME IInv, DeleteJob \/ RemoveFinalizer PROVE Facts'
<1>0. pc \in deleting /\ me.obj \in Backup /\ me.obj # Nil /\ me.obj.fin /\ me.obj.del
  BY MeType DEF IInv, StepInv, deleting, DeleteJob, RemoveFinalizer
<1>1. CASE DeleteJob
  <2>1. /\ UNCHANGED <<backup, bcache, me, target, started, done, uids>>
        /\ pc = "delete" /\ pc' = "release"
    BY <1>1 DEF DeleteJob, Goto, history, bounds
  <2>2. CASE UNCHANGED <<job, jcache>>
    <3>1. me.obj.status.phase = "Completed" => dumped(me.obj)
      BY <1>0 DEF IInv, DoneInv
    <3>. QED
      BY <1>0, <2>1, <2>2, <3>1, Quiet
  <2>3. CASE PutJob(Nil) /\ job = Nil
    <3>1. job' = Nil /\ jcache'.obj = jcache.obj /\ (jcache'.fresh => jcache.fresh)
      BY <2>3, PutJobType DEF IInv
    <3>2. FreshInv'
      BY <2>1, <2>3, <3>1 DEF IInv, FreshInv
    <3>3. OrderInv' /\ CopyInv'
      BY <2>1 DEF IInv, OrderInv, older, CopyInv, proves
    <3>4. OwnerInv'
      BY <3>1 DEF OwnerInv
    <3>5. StartedInv'
      <4>1. \A u : over(u) => over(u)'
        BY <2>1 DEF over
      <4>. QED
        BY <2>1, <2>3, <3>1, <4>1 DEF IInv, StartedInv
    <3>6. ReportInv' /\ DoneInv'
      BY <2>1, <3>1 DEF IInv, ReportInv, DoneInv, dumped
    <3>. QED
      BY <3>2, <3>3, <3>4, <3>5, <3>6 DEF Facts
  <2>4. CASE PutJob(Nil) /\ job # Nil
    <3> DEFINE u == job.owner
    <3>1. u \in Nat /\ me.obj.uid \in Nat /\ uids \in Nat
      <4>1. job \in Job
        BY <2>4, Objects DEF IInv, TypeOK
      <4>. QED
        BY <1>0, <4>1 DEF IInv, TypeOK, Backup, Job, JobOf, Uids
    <3>2. u <= me.obj.uid
      BY <1>0, <2>4 DEF IInv, OwnerInv
    <3>3. backup # Nil /\ backup.uid = u => backup.del
      BY <1>0, <3>1, <3>2 DEF IInv, OrderInv, older
    <3>4. bcache.obj # Nil /\ bcache.obj.uid = u => bcache.obj.del
      BY <1>0, <3>1, <3>2 DEF IInv, OrderInv, older
    <3>5. over(job.owner)
      BY <2>1, <3>3, <3>4 DEF over
    <3>6. job' = Nil /\ PutJob(job')
      BY <2>4 DEF PutJob
    <3>. QED
      BY <2>1, <2>4, <3>5, <3>6, JobChanged
  <2>. QED
    BY <1>1, <2>2, <2>3, <2>4 DEF DeleteJob
<1>2. CASE RemoveFinalizer /\ ~me.fresh
  <2>1. /\ UNCHANGED <<backup, bcache, job, jcache, started, done, uids>>
        /\ me' = NoCopy /\ pc' = "idle"
    BY <1>2 DEF RemoveFinalizer, Return, history, bounds
  <2>. QED
    BY <2>1, Quiet
<1>3. CASE RemoveFinalizer /\ me.fresh
  <2>1. /\ UNCHANGED <<job, jcache, started, done, uids>>
        /\ me' = NoCopy /\ pc' = "idle" /\ PutBackup(Nil)
    BY <1>3 DEF RemoveFinalizer, Return, history, bounds
  <2>2. /\ backup' = Nil /\ bcache'.obj = bcache.obj
        /\ (bcache'.fresh => bcache.fresh /\ Nil = backup)
    BY <2>1, PutBackupType DEF IInv
  <2>3. backup # Nil /\ backup.uid = me.obj.uid
    BY <1>3 DEF IInv, FreshInv
  <2>4. me'.obj = Nil /\ ~me'.fresh
    BY <2>1, Nothing
  <2>5. FreshInv'
    BY <2>1, <2>2, <2>3, <2>4 DEF IInv, FreshInv
  <2>6. OrderInv'
    BY <2>1, <2>2, <2>4 DEF IInv, OrderInv, older
  <2>7. CopyInv'
    BY <1>0, <2>2, <2>3, <2>4 DEF IInv, CopyInv, proves, OrderInv, older
  <2>8. OwnerInv'
    BY <2>1, <2>2 DEF IInv, OwnerInv, deleting
  <2>9. StartedInv'
    <3>1. \A u : over(u) => over(u)'
      BY <2>1, <2>2 DEF over
    <3>. QED
      BY <2>1, <2>2, <3>1 DEF IInv, StartedInv
  <2>10. ReportInv' /\ DoneInv'
    BY <2>1, <2>2, <2>4 DEF IInv, ReportInv, DoneInv, dumped
  <2>. QED
    BY <2>5, <2>6, <2>7, <2>8, <2>9, <2>10 DEF Facts
<1>. QED
  BY <1>1, <1>2, <1>3

(* Failing and restarting change memory only.                              *)
LEMMA FactsFailures == ASSUME IInv, Abort \/ CallFails PROVE Facts'
<1>1. CASE Abort
  <2>1. /\ UNCHANGED <<backup, bcache, job, jcache, started, done, uids>>
        /\ me' = NoCopy /\ pc' = "idle"
    BY <1>1 DEF Abort, Return, history
  <2>. QED
    BY <2>1, Quiet
<1>2. CASE CallFails
  <2>1. UNCHANGED <<backup, bcache, job, jcache, started, done, uids>>
    BY <1>2, Fails DEF IInv, history
  <2>2. me.obj.status.phase = "Completed" => dumped(me.obj)
    BY <1>2, Fails DEF IInv, DoneInv
  <2>3. me'.obj.status.phase = "Completed" =>
            dumped(me'.obj)
    <3>1. CASE me'.obj.status = me.obj.status
      <4>1. me'.obj.uid = me.obj.uid
        BY <1>2, Fails DEF IInv
      <4>. QED
        BY <2>2, <3>1, <4>1 DEF dumped
    <3>2. CASE me'.obj.status # me.obj.status
      BY <1>2, <3>2, Fails, Reporting DEF IInv
    <3>. QED
      BY <3>1, <3>2
  <2>. QED
    BY <1>2, <2>1, <2>3, Fails, Quiet DEF IInv, deleting
<1>. QED
  BY <1>1, <1>2

(* Whoever writes the backup, the copies stay older than it.               *)
LEMMA FactsOutside ==
    ASSUME IInv, NEW o \in Backup \cup {Nil}, PutBackupOutside(o), o # backup,
           \/ /\ backup = Nil /\ uids' = uids + 1 /\ o # Nil /\ o.uid = uids'
              /\ o.status.phase = Nil
           \/ /\ backup # Nil /\ uids' = uids /\ o # Nil /\ o.uid = backup.uid
              /\ o.fin = backup.fin /\ (backup.del => o.del)
              /\ o.status = backup.status
           \/ backup # Nil /\ ~backup.fin /\ uids' = uids /\ o = Nil
    PROVE  Facts'
<1>0. /\ backup' = o /\ bcache'.obj = bcache.obj /\ ~bcache'.fresh
      /\ me'.obj = me.obj /\ ~me'.fresh
      /\ UNCHANGED <<job, jcache, pc, target, started, done>>
  BY AfterObj DEF IInv, TypeOK, PutBackupOutside, PutBackup, history
<1>1. uids \in Nat /\ (bcache.obj # Nil => bcache.obj.uid \in Nat)
      /\ (me.obj # Nil => me.obj.uid \in Nat) /\ started \subseteq Nat
      /\ (job # Nil => job.owner \in Nat)
  <2>1. bcache.obj # Nil => bcache.obj \in Backup
    BY Objects DEF IInv, TypeOK, CopyOf
  <2>2. me.obj # Nil => me.obj \in Backup
    BY Objects DEF IInv, TypeOK, CopyOf
  <2>3. job # Nil => job \in Job
    BY Objects DEF IInv, TypeOK
  <2>. QED
    BY <2>1, <2>2, <2>3 DEF IInv, TypeOK, Backup, Job, JobOf, Uids
<1>2. FreshInv'
  BY <1>0 DEF IInv, FreshInv
<1>3. OrderInv'
  BY <1>0, <1>1 DEF IInv, OrderInv, older
<1>4. CopyInv'
  BY <1>0, <1>1 DEF IInv, CopyInv, proves
<1>5. OwnerInv'
  BY <1>0, <1>1 DEF IInv, OwnerInv, deleting
<1>6. StartedInv'
  <2>0. backup # Nil => backup.uid = uids
    BY DEF IInv, OrderInv
  <2>1. \A u \in Nat : u <= uids /\ over(u) => over(u)'
    BY <1>0, <1>1 DEF over
  <2>2. \A u \in started :
            /\ u \in Nat /\ u <= uids /\ u <= uids' /\ (o # Nil /\ o.uid = u => o.fin)
    <3>1. SUFFICES ASSUME NEW u \in started
                   PROVE  /\ u \in Nat /\ u <= uids /\ u <= uids'
                          /\ (o # Nil /\ o.uid = u => o.fin)
      OBVIOUS
    <3>2. u \in Nat /\ u <= uids /\ (backup # Nil /\ backup.uid = u => backup.fin)
      BY <1>1 DEF IInv, StartedInv
    <3>3. uids' = uids \/ uids' = uids + 1
      OBVIOUS
    <3>4. o # Nil /\ o.uid = u => o.fin
      BY <1>1, <3>2
    <3>. QED
      BY <1>1, <3>2, <3>3, <3>4
  <2>. QED
    BY <1>0, <2>1, <2>2 DEF IInv, StartedInv
<1>7. ReportInv'
  BY <1>0 DEF IInv, ReportInv
<1>8. DoneInv'
  BY <1>0, BackupNilAssumption DEF IInv, DoneInv, dumped
<1>. QED
  BY <1>2, <1>3, <1>4, <1>5, <1>6, <1>7, <1>8 DEF Facts

(* The caches, the cluster and the timers.                                 *)
LEMMA FactsSurroundings ==
    ASSUME IInv,
           \/ SyncBackup \/ SyncJob \/ SyncCluster \/ Resync
           \/ \E c \in Clusters \cup {Nil} : ChangeCluster(c)
    PROVE  Facts'
<1>0. UNCHANGED <<backup, job, pc, me, target, started, done, uids>>
  BY DEF SyncBackup, SyncJob, SyncCluster, Resync, ChangeCluster, progress, history, bounds
<1>1. CASE SyncCluster \/ Resync \/ \E c \in Clusters \cup {Nil} : ChangeCluster(c)
  <2>1. UNCHANGED <<bcache, jcache>>
    BY <1>1 DEF SyncCluster, Resync, ChangeCluster
  <2>. QED
    BY <1>0, <2>1, Quiet
<1>2. CASE SyncBackup
  <2>1. bcache'.obj = backup /\ bcache'.fresh /\ jcache' = jcache
    BY <1>2 DEF SyncBackup, Copy
  <2>2. backup # Nil => backup.uid \in Nat
    BY Objects DEF IInv, TypeOK, Backup, Uids
  <2>3. FreshInv'
    BY <1>0, <2>1 DEF IInv, FreshInv
  <2>4. OrderInv'
    BY <1>0, <2>1, <2>2 DEF IInv, OrderInv, older
  <2>5. CopyInv'
    BY <1>0, <2>1 DEF IInv, CopyInv, proves
  <2>6. OwnerInv'
    BY <1>0, <2>1 DEF IInv, OwnerInv, OrderInv, deleting
  <2>7. StartedInv'
    <3>1. \A u : over(u) => over(u)'
      BY <1>0, <2>1 DEF over
    <3>. QED
      BY <1>0, <2>1, <3>1 DEF IInv, StartedInv
  <2>8. ReportInv' /\ DoneInv'
    BY <1>0, <2>1 DEF IInv, ReportInv, DoneInv, dumped
  <2>. QED
    BY <2>3, <2>4, <2>5, <2>6, <2>7, <2>8 DEF Facts
<1>3. CASE SyncJob
  <2>1. jcache'.obj = job /\ bcache' = bcache
    BY <1>3 DEF SyncJob, Copy
  <2>2. FreshInv'
    BY <1>0, <2>1 DEF IInv, FreshInv
  <2>3. OrderInv' /\ CopyInv'
    BY <1>0, <2>1 DEF IInv, OrderInv, older, CopyInv, proves
  <2>4. OwnerInv'
    BY <1>0, <2>1 DEF IInv, OwnerInv, deleting
  <2>5. StartedInv'
    <3>1. \A u : over(u) => over(u)'
      BY <1>0, <2>1 DEF over
    <3>. QED
      BY <1>0, <2>1, <3>1 DEF IInv, StartedInv
  <2>6. ReportInv' /\ DoneInv'
    BY <1>0, <2>1 DEF IInv, ReportInv, DoneInv, dumped
  <2>. QED
    BY <2>2, <2>3, <2>4, <2>5, <2>6 DEF Facts
<1>. QED
  BY <1>1, <1>2, <1>3

(* Whoever runs, deletes or collects the Job.                              *)
LEMMA FactsJobs == ASSUME IInv, RunJob \/ RemoveJob \/ CollectJob PROVE Facts'
<1>0. /\ UNCHANGED <<backup, bcache, me, pc, target, uids>> /\ job # Nil
      /\ done \subseteq done'
  BY JobMoves DEF IInv, progress
<1>1. PICK j \in Job \cup {Nil} :
         /\ PutJob(j)
         /\ j # Nil => /\ j.owner = job.owner /\ j.target = job.target
                       /\ j.state # "created" /\ UNCHANGED started
                       /\ j.state = "completed" => <<j.owner, j.target>> \in done'
         /\ j = Nil => \/ started' = started \ {job.owner}
                       \/ /\ started' = started
                          /\ backup # Nil => backup.uid # job.owner
  BY JobMoves DEF IInv
<1>2. started' \subseteq started
  BY <1>1
<1>3. j = Nil /\ job.owner \in started' => over(job.owner)
  <2>1. SUFFICES ASSUME j = Nil, job.owner \in started' PROVE over(job.owner)
    OBVIOUS
  <2>2. job.owner \in started /\ (backup # Nil => backup.uid # job.owner)
    BY <1>1, <2>1
  <2>3. bcache.obj # Nil /\ bcache.obj.uid = job.owner => bcache.obj.del
    BY <2>2 DEF IInv, StartedInv, CopyInv, proves
  <2>4. pc = "job" => me.obj.uid # job.owner
    BY <2>2 DEF IInv, StepInv, CopyInv, proves, reconciling
  <2>. QED
    BY <2>2, <2>3, <2>4 DEF over
<1>4. j # Nil => /\ j.owner = job.owner /\ j.target = job.target
                 /\ j.state = "completed" => <<j.owner, j.target>> \in done'
  BY <1>1
<1>5. PutJob(j) /\ UNCHANGED <<backup, bcache, me, target, uids>> /\ pc' = pc
  BY <1>0, <1>1
<1>6. job # Nil /\ done \subseteq done'
  BY <1>0
<1>7. job' = j
  BY <1>5 DEF PutJob
<1>8. job' = Nil /\ job.owner \in started' => over(job.owner)
  BY <1>3, <1>7
<1>. QED
  BY <1>2, <1>4, <1>5, <1>6, <1>7, <1>8, JobChanged

(* The invariant is inductive.                                             *)
LEMMA Inductive == IInv /\ [Next]_vars => IInv'
<1> SUFFICES ASSUME IInv, [Next]_vars PROVE IInv'
  OBVIOUS
<1>1. Facts'
  <2>1. CASE Reconcile
    BY <2>1, FactsStart, FactsWrites, FactsCreates, FactsDeletes DEF Reconcile
  <2>2. CASE Abort \/ CallFails
    BY <2>2, FactsFailures
  <2>3. CASE People
    <3>1. CASE \/ \E s \in Selections : CreateBackup(s) \/ EditBackup(s)
               \/ DeleteBackup
      BY <3>1, Outside, FactsOutside DEF IInv
    <3>. QED
      BY <2>3, <3>1, FactsJobs, FactsSurroundings DEF People
  <2>4. CASE World
    BY <2>4, FactsJobs, FactsSurroundings DEF World
  <2>5. CASE UNCHANGED vars
    BY <2>5, Quiet DEF vars
  <2>. QED
    BY <2>1, <2>2, <2>3, <2>4, <2>5 DEF Next
<1>. QED
  BY <1>1, TypeNext DEF IInv, Facts

(* What the copies, the Job and the steps of a round have to do with each  *)
(* other holds at all times, however calls fail and people interfere.      *)
THEOREM Safety == Spec => []IInv
BY InitIInv, Inductive, PTL DEF Spec

-----------------------------------------------------------------------------
(* What follows from it.                                                   *)

(* A backup that is reported Completed was dumped, in this incarnation,    *)
(* from the instance that its status names, or, if that is "primary",      *)
(* perhaps from the pod that the cluster gave for its primary.             *)
THEOREM CompletedIsBackedUp == Spec => []CompletedMeansBackedUp
<1>1. ASSUME IInv, backup # Nil, backup.status.phase = "Completed"
      PROVE  \/ <<backup.uid, [service |-> TRUE, name |-> backup.status.target]>> \in done
             \/ /\ backup.status.target = "primary"
                /\ \E n \in Names \cup {Nil} :
                      <<backup.uid, [service |-> FALSE, name |-> n]>> \in done
  <2>1. PICK h \in Hosts :
            <<backup.uid, h>> \in done /\ backup.status.target = targetInstance(h)
    BY <1>1 DEF IInv, DoneInv, dumped
  <2>2. h = [service |-> h.service, name |-> h.name] /\ h.service \in BOOLEAN
        /\ h.name \in Names \cup {Nil}
    BY DEF Hosts
  <2>3. CASE h.service
    BY <2>1, <2>2, <2>3 DEF targetInstance
  <2>4. CASE ~h.service
    BY <2>1, <2>2, <2>4 DEF targetInstance
  <2>. QED
    BY <2>2, <2>3, <2>4
<1>2. IInv => CompletedMeansBackedUp
  BY <1>1 DEF CompletedMeansBackedUp
<1>. QED
  BY <1>2, Safety, PTL

(* Only CreateOrUpdate creates the Job, and only once for an incarnation.  *)
LEMMA Creation ==
    ASSUME IInv, [Next]_vars, job' # job, job' # Nil, job'.state = "created"
    PROVE  job'.owner \notin started
<1>1. CASE CreateOrUpdate
  <2>1. job = Nil /\ PutJob(NewJob(me.obj.uid, target)) /\ NewJob(me.obj.uid, target) \in Job
    BY <1>1, Creates DEF IInv
  <2>2. job' = NewJob(me.obj.uid, target)
    BY <2>1, PutJobType DEF IInv
  <2>. QED
    BY <1>1, <2>1, <2>2, Created DEF NewJob
<1>2. CASE RunJob \/ RemoveJob \/ CollectJob
  <2>1. PICK j \in Job \cup {Nil} : PutJob(j) /\ (j # Nil => j.state # "created")
    BY <1>2, JobMoves DEF IInv
  <2>. QED
    BY <2>1, PutJobType DEF IInv
<1>3. CASE DeleteJob
  <2>1. PutJob(Nil) \/ job' = job
    BY <1>3 DEF DeleteJob
  <2>. QED
    BY <2>1 DEF PutJob
<1>4. CASE \/ Start \/ AddFinalizer \/ ClusterMissing \/ updateBackupStatus \/ ReportError
           \/ RemoveFinalizer \/ Abort \/ CallFails
           \/ SyncBackup \/ SyncJob \/ SyncCluster \/ Resync \/ UNCHANGED vars
  BY <1>4 DEF Start, AddFinalizer, ClusterMissing, updateBackupStatus, ReportError,
     RemoveFinalizer, Abort, CallFails, SyncBackup, SyncJob, SyncCluster, Resync, vars
<1>5. CASE \/ \E s \in Selections : CreateBackup(s) \/ EditBackup(s)
           \/ DeleteBackup
           \/ \E c \in Clusters \cup {Nil} : ChangeCluster(c)
  BY <1>5 DEF CreateBackup, EditBackup, DeleteBackup, PutBackupOutside, ChangeCluster
<1>. QED
  BY <1>1, <1>2, <1>3, <1>4, <1>5 DEF Next, Reconcile, People, World

(* No incarnation of a backup gets a second Job, whatever is retried.      *)
THEOREM BacksUpOnce == Spec => BackedUpOnce
<1> DEFINE Once ==
        job' # job /\ job' # Nil /\ job'.state = "created" => job'.owner \notin started
<1>1. IInv /\ [Next]_vars => Once
  BY Creation
<1>. QED
  BY <1>1, Safety, PTL DEF BackedUpOnce, Spec
=============================================================================
