----------------------------- MODULE UserProofs -----------------------------
(***************************************************************************)
(* Theorems about UserController, for every value of its constants.        *)
(***************************************************************************)
EXTENDS UserController, TLAPS, SequenceTheorems

-----------------------------------------------------------------------------
(* Lemmas about what Reconcile computes.                                   *)

(* After a write a copy holds the same object, with its type.              *)
LEMMA AfterObj ==
    ASSUME NEW T, NEW c \in CopyOf(T), NEW old, NEW new
    PROVE  /\ After(c, old, new) \in CopyOf(T)
           /\ After(c, old, new).obj = c.obj
           /\ After(c, old, new).fresh => c.fresh /\ new = old
BY DEF After, CopyOf

(* A copy that is made anew has the type of its object.                    *)
LEMMA CopyType ==
    ASSUME NEW T, NEW o \in T \cup {Nil}
    PROVE  /\ Copy(o) \in CopyOf(T \cup {Nil}) /\ NoCopy \in CopyOf(T \cup {Nil})
           /\ Copy(o).obj = o /\ Copy(o).fresh
           /\ NoCopy.obj = Nil /\ ~NoCopy.fresh
BY DEF Copy, NoCopy, CopyOf

(* What is not Nil among the objects is an object.                         *)
LEMMA Objects ==
    /\ \A o \in User \cup {Nil} : o # Nil => o \in User
    /\ \A o \in SecretObject \cup {Nil} : o # Nil => o \in SecretObject
    /\ \A c \in Statuses \cup {Nil} : c # Nil => c \in Statuses
    /\ \A o \in User : o # Nil
    /\ \A o \in SecretObject : o # Nil
BY UserNilAssumption

(* The selection that a specification makes is a sequence of names.        *)
LEMMA TargetsType ==
    ASSUME NEW s \in UserSpecs, NEW c \in Statuses \cup {Nil},
           ~(readsCluster(s.selector) /\ c = Nil)
    PROVE  getTargetInstances(s.selector, c) \in Seq(Names)
<1>1. CASE c # Nil
  BY <1>1, Objects, SelectionAssumption
<1>2. CASE c = Nil
  <2>1. s.selector.kind = "names" /\ s.selector.names \in Seq(Names)
    BY <1>2, UserSpecsAssumption DEF readsCluster, UserSpec, Selector
  <2>. QED
    BY <2>1 DEF getTargetInstances
<1>. QED
  BY <1>1, <1>2

(* A status that is stored keeps what the new one does not have.           *)
LEMMA PreservedType ==
    ASSUME NEW st \in Status, NEW old \in Status
    PROVE  /\ preserved(st, old) \in Status
           /\ preserved(st, old).phase = st.phase
           /\ preserved(st, old).last = IF st.last = Nil THEN old.last ELSE st.last
           /\ preserved(st, old).instances
                  = IF st.instances = <<>> THEN old.instances ELSE st.instances
BY DEF preserved, Status

(* The status that reports an error is a status.                           *)
LEMMA FailureType ==
    ASSUME NEW e \in {Nil, "cluster", "targets", "password", "instances"}
    PROVE  /\ NoStatus \in Status /\ NoStatus.last = Nil
           /\ failure(e) \in Status /\ failure(e).last = Nil
           /\ failure(e).phase = "Failed"
<1>1. <<>> \in Seq(Results)
  OBVIOUS
<1>. QED
  BY <1>1 DEF failure, NoStatus, Status

(* A user that is written keeps the rest of it.                            *)
LEMMA WriteType ==
    ASSUME NEW o \in User
    PROVE  /\ \A st \in Status :
                 /\ [o EXCEPT !.status = st] \in User
                 /\ [o EXCEPT !.status = st].uid = o.uid
                 /\ [o EXCEPT !.status = st].spec = o.spec
                 /\ [o EXCEPT !.status = st].del = o.del
                 /\ [o EXCEPT !.status = st].fin = o.fin
                 /\ [o EXCEPT !.status = st].status = st
           /\ \A s \in UserSpecs :
                 /\ [o EXCEPT !.spec = s] \in User
                 /\ [o EXCEPT !.spec = s].uid = o.uid
                 /\ [o EXCEPT !.spec = s].spec = s
                 /\ [o EXCEPT !.spec = s].del = o.del
                 /\ [o EXCEPT !.spec = s].fin = o.fin
                 /\ [o EXCEPT !.spec = s].status = o.status
           /\ /\ [o EXCEPT !.fin = TRUE] \in User
              /\ [o EXCEPT !.fin = TRUE].status = o.status
           /\ /\ [o EXCEPT !.del = TRUE] \in User
              /\ [o EXCEPT !.del = TRUE].uid = o.uid
              /\ [o EXCEPT !.del = TRUE].del
              /\ [o EXCEPT !.del = TRUE].fin = o.fin
              /\ [o EXCEPT !.del = TRUE].status = o.status
BY DEF User

(* The time of a change that a round remembers.                            *)
LEMMA RememberType ==
    ASSUME NEW o \in User, NEW t \in Times
    PROVE  /\ [o EXCEPT !.status.last = t] \in User
           /\ [o EXCEPT !.status.last = t].uid = o.uid
           /\ [o EXCEPT !.status.last = t].spec = o.spec
           /\ [o EXCEPT !.status.last = t].del = o.del
           /\ [o EXCEPT !.status.last = t].fin = o.fin
           /\ [o EXCEPT !.status.last = t].status.last = t
BY DEF User, Status

-----------------------------------------------------------------------------
(* Types.                                                                  *)

(* The bounds are natural numbers, and so is the time.                     *)
LEMMA Numbers ==
    /\ Times \subseteq Nat /\ 0 \in Times /\ MaxUid \in Nat /\ MaxEdits \in Nat
    /\ MaxFaults \in Nat /\ MaxClock \in Nat
BY UserBoundsAssumption DEF Times

(* No copy and no local variables are well typed.                          *)
LEMMA Nothing ==
    /\ NoLocal \in Local /\ NoCopy \in CopyOf(User \cup {Nil})
    /\ NoCopy.obj = Nil /\ ~NoCopy.fresh /\ 1 \in Nat \ {0}
<1>1. <<>> \in Seq(Names) /\ <<>> \in Seq(Results) /\ 1 \in Nat \ {0}
  OBVIOUS
<1>. QED
  BY <1>1 DEF NoLocal, Local, NoCopy, CopyOf

(* The copy of a round in progress is a user.                              *)
LEMMA MeType ==
    ASSUME TypeOK, StepInv, pc # "idle"
    PROVE  /\ me.obj \in User /\ me.obj # Nil /\ me.obj.status \in Status
           /\ me.obj.spec \in UserSpecs /\ me.obj.status.last \in Times \cup {Nil}
           /\ me \in CopyOf(User \cup {Nil})
BY Objects DEF TypeOK, StepInv, CopyOf, User, Status

(* The user on the server, when there is one.                              *)
LEMMA UserType ==
    ASSUME TypeOK, user # Nil
    PROVE  /\ user \in User /\ user.status \in Status /\ user.spec \in UserSpecs
           /\ user.status.last \in Times \cup {Nil}
BY Objects DEF TypeOK, User, Status

(* Writes keep the types.                                                  *)
LEMMA PutUserType ==
    ASSUME TypeOK, NEW o \in User \cup {Nil}, PutUser(o)
    PROVE  /\ user' \in User \cup {Nil} /\ ucache' \in CopyOf(User \cup {Nil})
           /\ user' = o /\ ucache'.obj = ucache.obj
           /\ ucache'.fresh => ucache.fresh /\ o = user
BY AfterObj DEF TypeOK, PutUser

(* Writing a Secret changes that Secret only.                              *)
LEMMA PutSecretType ==
    ASSUME TypeOK, NEW k \in Sources, NEW o \in SecretObject \cup {Nil}, PutSecret(k, o)
    PROVE  /\ secret' \in [Sources -> SecretObject \cup {Nil}]
           /\ scache' \in [Sources -> CopyOf(SecretObject \cup {Nil})]
           /\ secret'[k] = o /\ \A l \in Sources \ {k} : secret'[l] = secret[l]
<1>1. scache[k] \in CopyOf(SecretObject \cup {Nil})
  BY DEF TypeOK
<1>2. After(scache[k], secret[k], o) \in CopyOf(SecretObject \cup {Nil})
  BY <1>1, AfterObj
<1>3. /\ secret' = [secret EXCEPT ![k] = o]
      /\ scache' = [scache EXCEPT ![k] = After(scache[k], secret[k], o)]
  BY DEF PutSecret
<1>. QED
  BY <1>2, <1>3 DEF TypeOK

(* A status write keeps the rest of the user on the server.                *)
LEMMA StatusWrite ==
    ASSUME TypeOK, user # Nil, NEW st \in Status, NEW old \in Status,
           updateStatus(st, old)
    PROVE  /\ user' \in User /\ user'.uid = user.uid /\ user'.spec = user.spec
           /\ user'.del = user.del /\ user'.fin = user.fin
           /\ user'.status = preserved(st, old)
           /\ ucache' \in CopyOf(User \cup {Nil}) /\ ucache'.obj = ucache.obj
           /\ ucache'.fresh => ucache.fresh /\ user' = user
<1> DEFINE p == preserved(st, old)
<1> DEFINE o == [user EXCEPT !.status = p]
<1>1. PutUser(o)
  BY DEF updateStatus
<1>2. p \in Status /\ user \in User
  BY UserType, PreservedType
<1> HIDE DEF p
<1>3. /\ o \in User /\ o.uid = user.uid /\ o.spec = user.spec /\ o.del = user.del
      /\ o.fin = user.fin /\ o.status = p
  BY <1>2, WriteType
<1> HIDE DEF o
<1>4. /\ user' = o /\ ucache' \in CopyOf(User \cup {Nil}) /\ ucache'.obj = ucache.obj
      /\ ucache'.fresh => ucache.fresh /\ o = user
  BY <1>1, <1>3, PutUserType
<1>. QED
  BY <1>3, <1>4 DEF p

(* Once a round is over, nothing is left of it.                            *)
LEMMA ReturnType ==
    ASSUME TypeOK, NEW q \in BOOLEAN, Return(q)
    PROVE  /\ queued' \in BOOLEAN /\ pc' = "idle" /\ idx' \in Nat \ {0}
           /\ me' = NoCopy /\ me' \in CopyOf(User \cup {Nil}) /\ local' \in Local
BY Nothing DEF TypeOK, Return

(* What Reconcile writes at the end of a round.                            *)
LEMMA Ends ==
    ASSUME IInv,
           \/ AddFinalizer \/ ReportError \/ FinalStatus \/ RemoveFinalizer
           \/ GetCluster /\ pc' = "idle"
    PROVE  /\ \E q \in BOOLEAN : Return(q)
           /\ UNCHANGED <<secret, scache, cluster, ccache, up, roles, clock, uids,
                          edits, faults>>
           /\ user' \in User \cup {Nil} /\ ucache' \in CopyOf(User \cup {Nil})
           /\ ucache'.obj = ucache.obj
           /\ ucache'.fresh => ucache.fresh /\ user' = user
           /\ user' # Nil /\ user' # user =>
                /\ user # Nil
                /\ user.status.last # Nil => user'.status.last # Nil
                /\ user'.status.last = me.obj.status.last
                /\ pc \in working \/ me.obj = user
                /\ user'.status.phase = "Ready" /\ user.status.phase # "Ready" =>
                       FinalStatus /\ local.error = Nil
<1>0. /\ TypeOK /\ StepInv /\ FreshInv /\ RoundInv
      /\ me.obj \in User /\ me.obj # Nil /\ me.obj.status \in Status
      /\ me.obj.status.last \in Times \cup {Nil} /\ me.fresh \in BOOLEAN
  BY MeType DEF IInv, AddFinalizer, ReportError, FinalStatus, RemoveFinalizer, GetCluster,
     TypeOK, CopyOf
<1>1. UNCHANGED <<secret, scache, cluster, ccache, up, roles, clock, uids, edits, faults>>
  BY DEF AddFinalizer, ReportError, FinalStatus, RemoveFinalizer, GetCluster, database,
     bounds
<1>2. CASE UNCHANGED <<user, ucache>> /\ \E q \in BOOLEAN : Return(q)
  BY <1>0, <1>1, <1>2 DEF TypeOK
<1>3. CASE AddFinalizer /\ me.fresh /\ ~me.obj.del
  <2> DEFINE o == [me.obj EXCEPT !.fin = TRUE]
  <2>1. PutUser(o) /\ Return(TRUE) /\ me.obj = user
    BY <1>0, <1>3 DEF AddFinalizer, FreshInv
  <2>2. o \in User /\ o.status = me.obj.status
    BY <1>0, WriteType
  <2> HIDE DEF o
  <2>3. user' = o /\ o.status = user.status /\ user # Nil
    BY <1>0, <2>1, <2>2, PutUserType
  <2>. QED
    BY <1>0, <1>1, <2>1, <2>2, <2>3, PutUserType
<1>4. CASE RemoveFinalizer /\ me.fresh
  <2>1. PutUser(Nil) /\ Return(~me.fresh) /\ (~me.fresh) \in BOOLEAN
    BY <1>0, <1>4 DEF RemoveFinalizer
  <2>. QED
    BY <1>0, <1>1, <2>1, PutUserType
<1>5. CASE GetCluster /\ pc' = "idle" /\ me.fresh
  <2>1. /\ updateStatus(failure("cluster"), me.obj.status) /\ me.obj = user
        /\ Return(TRUE) /\ user # Nil
    BY <1>0, <1>5 DEF GetCluster, FreshInv, Goto
  <2>2. /\ failure("cluster") \in Status /\ failure("cluster").last = Nil
        /\ failure("cluster").phase = "Failed"
    BY FailureType
  <2>3. user'.status.last = user.status.last /\ user'.status.phase = "Failed"
    BY <1>0, <2>1, <2>2, StatusWrite, PreservedType
  <2>. QED
    BY <1>0, <1>1, <2>1, <2>2, <2>3, StatusWrite
<1>6. CASE ReportError /\ me.fresh
  <2>1. updateStatus(failure(local.error), me.obj.status) /\ Return(TRUE) /\ user # Nil
    BY <1>0, <1>6 DEF ReportError, FreshInv
  <2>2. user.status.last # Nil => me.obj.status.last # Nil
    BY <1>0, <1>6 DEF ReportError, RoundInv, working
  <2>3. local.error \in {Nil, "cluster", "targets", "password", "instances"}
    BY <1>0 DEF TypeOK, Local
  <2>4. /\ failure(local.error) \in Status /\ failure(local.error).last = Nil
        /\ failure(local.error).phase = "Failed"
    BY <2>3, FailureType
  <2>5. user'.status.last = me.obj.status.last /\ user'.status.phase = "Failed"
    BY <1>0, <2>1, <2>4, StatusWrite, PreservedType
  <2>6. pc \in working
    BY <1>6 DEF ReportError, working
  <2>. QED
    BY <1>0, <1>1, <2>1, <2>2, <2>4, <2>5, <2>6, StatusWrite
<1>7. CASE FinalStatus /\ me.fresh
  <2> DEFINE st == [phase |-> IF local.error = Nil THEN "Ready" ELSE "Failed",
                    error |-> local.error, instances |-> local.results,
                    last |-> me.obj.status.last]
  <2>1. updateStatus(st, me.obj.status) /\ Return(TRUE) /\ user # Nil
    BY <1>0, <1>7 DEF FinalStatus, FreshInv
  <2>2. user.status.last # Nil => me.obj.status.last # Nil
    BY <1>0, <1>7 DEF FinalStatus, RoundInv, working
  <2>3. st \in Status
    BY <1>0 DEF TypeOK, Local, Status
  <2>4. st.last = me.obj.status.last /\ (st.phase = "Ready" => local.error = Nil)
    OBVIOUS
  <2> HIDE DEF st
  <2>5. /\ user'.status.last = me.obj.status.last
        /\ user'.status.phase = "Ready" => local.error = Nil
    BY <1>0, <2>1, <2>3, <2>4, StatusWrite, PreservedType
  <2>6. pc \in working
    BY <1>7 DEF FinalStatus, working
  <2>. QED
    BY <1>0, <1>1, <1>7, <2>1, <2>2, <2>3, <2>5, <2>6, StatusWrite
<1>. QED
  <2>1. CASE AddFinalizer /\ ~(me.fresh /\ ~me.obj.del)
    BY <1>2, <2>1 DEF AddFinalizer
  <2>2. CASE RemoveFinalizer /\ ~me.fresh
    BY <1>2, <2>2 DEF RemoveFinalizer
  <2>3. CASE GetCluster /\ ~me.fresh
    BY <1>2, <2>3 DEF GetCluster
  <2>4. CASE ReportError /\ ~me.fresh
    BY <1>2, <2>4 DEF ReportError
  <2>5. CASE FinalStatus /\ ~me.fresh
    BY <1>2, <2>5 DEF FinalStatus
  <2>. QED
    BY <1>3, <1>4, <1>5, <1>6, <1>7, <2>1, <2>2, <2>3, <2>4, <2>5

-----------------------------------------------------------------------------
(* The inductive invariant.                                                *)

Facts == StepInv /\ FreshInv /\ RoundInv /\ TimeInv /\ ResultsInv

(* In the beginning, everything has its type and nothing is claimed.       *)
LEMMA InitIInv == Init => IInv
<1> SUFFICES ASSUME Init PROVE IInv
  OBVIOUS
<1>1. /\ user = Nil /\ ucache = Copy(Nil) /\ secret = [k \in Sources |-> Nil]
      /\ scache = [k \in Sources |-> Copy(Nil)] /\ cluster \in Statuses \cup {Nil}
      /\ ccache = Copy(cluster) /\ up = Names /\ roles = [n \in Names |-> Nil]
      /\ queued = FALSE /\ pc = "idle" /\ idx = 1 /\ me = NoCopy /\ local = NoLocal
      /\ clock = 0 /\ uids = 0 /\ edits = 0 /\ faults = 0
  BY DEF Init
<1>2. /\ ucache \in CopyOf(User \cup {Nil}) /\ ucache.obj = Nil
      /\ ccache \in CopyOf(Statuses \cup {Nil})
      /\ scache \in [Sources -> CopyOf(SecretObject \cup {Nil})]
  BY <1>1, CopyType
<1>3. /\ idx \in Nat \ {0} /\ me \in CopyOf(User \cup {Nil}) /\ local \in Local
      /\ me.obj = Nil /\ ~me.fresh
  BY <1>1, Nothing
<1>4. /\ clock \in Times /\ uids \in 0 .. MaxUid /\ edits \in 0 .. MaxEdits
      /\ faults \in 0 .. MaxFaults
  BY <1>1, Numbers
<1>5. TypeOK
  BY <1>1, <1>2, <1>3, <1>4 DEF TypeOK
<1>6. StepInv /\ FreshInv /\ RoundInv /\ TimeInv /\ ResultsInv /\ OrderInv
  BY <1>1, <1>2, <1>3
  DEF StepInv, FreshInv, RoundInv, TimeInv, ResultsInv, OrderInv, working, deleting
<1>. QED
  BY <1>5, <1>6 DEF IInv

(* The end of a round leaves nothing to be claimed about it.               *)
LEMMA Ended ==
    ASSUME IInv, NEW q \in BOOLEAN, Return(q), clock' = clock,
           ucache'.obj = ucache.obj, ucache'.fresh => ucache.fresh /\ user' = user,
           user' # Nil /\ user' # user /\ user'.status.last # Nil =>
               user'.status.last <= clock
    PROVE  Facts'
<1>1. pc' = "idle" /\ me'.obj = Nil /\ ~me'.fresh
  BY ReturnType, Nothing DEF IInv
<1>2. StepInv' /\ RoundInv' /\ ResultsInv'
  BY <1>1 DEF StepInv, RoundInv, ResultsInv, working, deleting
<1>3. FreshInv'
  BY <1>1 DEF IInv, FreshInv
<1>4. TimeInv'
  BY <1>1 DEF IInv, TimeInv
<1>. QED
  BY <1>2, <1>3, <1>4 DEF Facts

(* Writing at the end of a round keeps the invariant.                      *)
LEMMA EndsInv ==
    ASSUME IInv,
           \/ AddFinalizer \/ ReportError \/ FinalStatus \/ RemoveFinalizer
           \/ GetCluster /\ pc' = "idle"
    PROVE  TypeOK' /\ Facts'
<1>1. PICK q \in BOOLEAN : Return(q)
  BY Ends
<1>2. TypeOK'
  BY <1>1, Ends, ReturnType DEF IInv, TypeOK
<1>3. user' # Nil /\ user' # user /\ user'.status.last # Nil =>
          user'.status.last <= clock
  <2>1. SUFFICES ASSUME user' # Nil, user' # user, user'.status.last # Nil
                 PROVE  user'.status.last <= clock
    OBVIOUS
  <2>2. user'.status.last = me.obj.status.last
    BY <2>1, Ends
  <2>3. me.obj # Nil
    BY MeType DEF IInv, AddFinalizer, ReportError, FinalStatus, RemoveFinalizer, GetCluster
  <2>. QED
    BY <2>1, <2>2, <2>3 DEF IInv, TimeInv
<1>4. /\ clock' = clock /\ ucache'.obj = ucache.obj
      /\ ucache'.fresh => ucache.fresh /\ user' = user
  BY Ends
<1>5. Facts'
  BY <1>1, <1>3, <1>4, Ended
<1>. QED
  BY <1>2, <1>5

(* Counting up keeps the bound.                                            *)
LEMMA Counting ==
    ASSUME TypeOK
    PROVE  /\ faults < MaxFaults => faults + 1 \in 0 .. MaxFaults
           /\ edits < MaxEdits => edits + 1 \in 0 .. MaxEdits
           /\ uids < MaxUid => uids + 1 \in 0 .. MaxUid /\ uids + 1 \in 1 .. MaxUid
           /\ clock < MaxClock => clock + 1 \in Times
BY UserBoundsAssumption DEF TypeOK, Times

(* A round that is cut short.                                              *)
LEMMA AbortInv == IInv /\ Abort => TypeOK' /\ Facts'
<1> SUFFICES ASSUME IInv, Abort PROVE TypeOK' /\ Facts'
  OBVIOUS
<1>1. /\ Return(TRUE) /\ faults' \in 0 .. MaxFaults
      /\ UNCHANGED <<user, ucache, secret, scache, cluster, ccache, up, roles, clock,
                     uids, edits>>
  BY Counting DEF Abort, IInv, api, caches, database
<1>2. TypeOK'
  BY <1>1, ReturnType DEF IInv, TypeOK
<1>3. Facts'
  BY <1>1, Ended
<1>. QED
  BY <1>2, <1>3

(* A step that leaves the user and the round in progress alone.            *)
LEMMA Quiet ==
    ASSUME IInv, UNCHANGED <<user, ucache, me, pc, idx, local, roles>>,
           clock' \in Times, clock' >= clock
    PROVE  Facts'
<1>1. StepInv' /\ FreshInv' /\ RoundInv' /\ ResultsInv'
  BY DEF IInv, StepInv, FreshInv, RoundInv, ResultsInv
<1>2. TimeInv'
  <2>1. SUFFICES ASSUME NEW o \in {user, ucache.obj, me.obj}, o # Nil, o.status.last # Nil
                 PROVE  o.status.last <= clock'
    BY DEF TimeInv
  <2>2. o.status.last <= clock
    BY <2>1 DEF IInv, TimeInv
  <2>3. o \in User
    BY <2>1, Objects DEF IInv, TypeOK, CopyOf
  <2>4. o.status.last \in Times /\ clock \in Times
    BY <2>1, <2>3 DEF User, Status, IInv, TypeOK
  <2>5. o.status.last \in Nat /\ clock \in Nat /\ clock' \in Nat
    BY <2>4, Numbers
  <2>. QED
    BY <2>2, <2>5
<1>. QED
  BY <1>1, <1>2 DEF Facts

(* Secrets, the cluster, the instances and the clock.                      *)
LEMMA SurroundingsInv ==
    ASSUME IInv,
           \/ RemoveSecret \/ CollectSecret \/ SyncCluster \/ Tick
           \/ \E o \in [owner : {0}, pw : Passwords] \cup {Nil} : ProvideSecret(o)
           \/ \E k \in Sources : SyncSecret(k)
           \/ \E c \in Statuses \cup {Nil} : ChangeCluster(c)
           \/ \E n \in Names : Unreachable(n) \/ Reachable(n)
           \/ UNCHANGED vars
    PROVE  TypeOK' /\ Facts'
<1>1. /\ UNCHANGED <<user, ucache, me, pc, idx, local, roles, uids>>
      /\ queued' \in BOOLEAN /\ edits' \in 0 .. MaxEdits /\ faults' \in 0 .. MaxFaults
      /\ clock' \in Times /\ clock' >= clock
  <2>1. clock \in Times /\ clock \in Nat /\ queued \in BOOLEAN
    BY Numbers DEF IInv, TypeOK
  <2> DEFINE G ==
            /\ UNCHANGED <<user, ucache, me, pc, idx, local, roles, uids>>
            /\ queued' \in BOOLEAN
            /\ edits' = edits \/ (edits < MaxEdits /\ edits' = edits + 1)
            /\ faults' = faults \/ (faults < MaxFaults /\ faults' = faults + 1)
            /\ clock' = clock \/ (clock < MaxClock /\ clock' = clock + 1)
  <2>2. G
    <3>1. CASE RemoveSecret \/ CollectSecret
      BY <2>1, <3>1 DEF RemoveSecret, CollectSecret, database, progress, bounds
    <3>2. CASE SyncCluster \/ Tick
      BY <2>1, <3>2 DEF SyncCluster, Tick, api, caches, database, progress, bounds
    <3>3. CASE \E o \in [owner : {0}, pw : Passwords] \cup {Nil} : ProvideSecret(o)
      BY <2>1, <3>3 DEF ProvideSecret, database, progress
    <3>4. CASE \E k \in Sources : SyncSecret(k)
      BY <2>1, <3>4 DEF SyncSecret, api, database, bounds
    <3>5. CASE \E c \in Statuses \cup {Nil} : ChangeCluster(c)
      BY <2>1, <3>5 DEF ChangeCluster, database, progress
    <3>6. CASE \E n \in Names : Unreachable(n) \/ Reachable(n)
      BY <2>1, <3>6 DEF Unreachable, Reachable, api, caches, progress, bounds
    <3>7. CASE UNCHANGED vars
      BY <2>1, <3>7 DEF vars
    <3>. QED
      BY <3>1, <3>2, <3>3, <3>4, <3>5, <3>6, <3>7
  <2>3. edits' \in 0 .. MaxEdits /\ faults' \in 0 .. MaxFaults
    BY <2>2, Counting DEF IInv, TypeOK
  <2>4. clock' \in Times /\ clock' >= clock
    BY <2>1, <2>2, Counting DEF IInv
  <2>. QED
    BY <2>2, <2>3, <2>4
<1>2. /\ secret' \in [Sources -> SecretObject \cup {Nil}]
      /\ scache' \in [Sources -> CopyOf(SecretObject \cup {Nil})]
  <2>1. "given" \in Sources /\ "generated" \in Sources
    BY DEF Sources
  <2>2. \A o \in [owner : {0}, pw : Passwords] : o \in SecretObject
    BY UserBoundsAssumption DEF SecretObject
  <2>3. CASE \E k \in Sources, o \in SecretObject \cup {Nil} : PutSecret(k, o)
    BY <2>3, PutSecretType DEF IInv
  <2>4. CASE \E k \in Sources : SyncSecret(k)
    <3>1. PICK k \in Sources : SyncSecret(k)
      BY <2>4
    <3>2. Copy(secret[k]) \in CopyOf(SecretObject \cup {Nil})
      BY CopyType DEF IInv, TypeOK
    <3>3. secret' = secret /\ scache' = [scache EXCEPT ![k] = Copy(secret[k])]
      BY <3>1 DEF SyncSecret, api
    <3>. QED
      BY <3>2, <3>3 DEF IInv, TypeOK
  <2>5. CASE UNCHANGED <<secret, scache>>
    BY <2>5 DEF IInv, TypeOK
  <2>6. \/ \E k \in Sources, o \in SecretObject \cup {Nil} : PutSecret(k, o)
        \/ \E k \in Sources : SyncSecret(k)
        \/ UNCHANGED <<secret, scache>>
    <3>1. CASE RemoveSecret \/ CollectSecret
      BY <2>1, <3>1 DEF RemoveSecret, CollectSecret
    <3>2. CASE \E o \in [owner : {0}, pw : Passwords] \cup {Nil} : ProvideSecret(o)
      BY <2>1, <2>2, <3>2 DEF ProvideSecret
    <3>3. CASE \/ SyncCluster \/ Tick
               \/ \E c \in Statuses \cup {Nil} : ChangeCluster(c)
               \/ \E n \in Names : Unreachable(n) \/ Reachable(n)
               \/ UNCHANGED vars
      BY <3>3 DEF SyncCluster, Tick, ChangeCluster, Unreachable, Reachable, vars, api,
         caches
    <3>. QED
      BY <3>1, <3>2, <3>3
  <2>. QED
    BY <2>3, <2>4, <2>5, <2>6
<1>3. /\ cluster' \in Statuses \cup {Nil} /\ ccache' \in CopyOf(Statuses \cup {Nil})
      /\ up' \subseteq Names
  <2>1. CASE \E c \in Statuses \cup {Nil} : ChangeCluster(c)
    BY <2>1, AfterObj DEF ChangeCluster, database, IInv, TypeOK
  <2>2. CASE SyncCluster
    BY <2>2, CopyType DEF SyncCluster, api, database, IInv, TypeOK
  <2>3. CASE \E n \in Names : Unreachable(n) \/ Reachable(n)
    BY <2>3 DEF Unreachable, Reachable, api, caches, IInv, TypeOK
  <2>4. CASE \/ RemoveSecret \/ CollectSecret \/ Tick
             \/ \E o \in [owner : {0}, pw : Passwords] \cup {Nil} : ProvideSecret(o)
             \/ \E k \in Sources : SyncSecret(k)
             \/ UNCHANGED vars
    BY <2>4 DEF RemoveSecret, CollectSecret, Tick, ProvideSecret, SyncSecret, vars, api,
       caches, database, IInv, TypeOK
  <2>. QED
    BY <2>1, <2>2, <2>3, <2>4
<1>4. TypeOK'
  BY <1>1, <1>2, <1>3 DEF IInv, TypeOK
<1>5. Facts'
  BY <1>1, Quiet
<1>. QED
  BY <1>4, <1>5

(* The cached copy of the user follows.                                    *)
LEMMA SyncUserInv == IInv /\ SyncUser => TypeOK' /\ Facts'
<1> SUFFICES ASSUME IInv, SyncUser PROVE TypeOK' /\ Facts'
  OBVIOUS
<1>1. /\ UNCHANGED <<user, secret, scache, cluster, ccache, up, roles, pc, idx, me, local,
                     clock, uids, edits, faults>>
      /\ ucache' = Copy(user) /\ queued' = TRUE
  BY DEF SyncUser, api, database, bounds
<1>2. ucache' \in CopyOf(User \cup {Nil}) /\ ucache'.obj = user
  BY <1>1, CopyType DEF IInv, TypeOK
<1>3. TypeOK'
  BY <1>1, <1>2 DEF IInv, TypeOK
<1>4. StepInv' /\ FreshInv' /\ RoundInv' /\ TimeInv' /\ ResultsInv'
  BY <1>1, <1>2 DEF IInv, StepInv, FreshInv, RoundInv, TimeInv, ResultsInv
<1>. QED
  BY <1>3, <1>4 DEF Facts

(* What people make of a user.                                             *)
LEMMA Outside ==
    ASSUME TypeOK,
           \/ \E s \in UserSpecs : CreateUser(s) \/ EditUser(s)
           \/ DeleteUser
    PROVE  \E o \in User \cup {Nil} :
              /\ PutUserOutside(o) /\ o # user
              /\ uids' \in 0 .. MaxUid /\ edits' \in 0 .. MaxEdits
              /\ UNCHANGED <<clock, faults>>
              /\ \/ user = Nil /\ o # Nil /\ o.status.last = Nil
                 \/ /\ user # Nil /\ o # Nil /\ o.uid = user.uid /\ o.fin = user.fin
                    /\ o.status = user.status
                 \/ user # Nil /\ ~user.fin /\ o = Nil
<1>0. user # Nil => user \in User
  BY UserType
<1>1. CASE \E s \in UserSpecs : CreateUser(s)
  <2>1. PICK s \in UserSpecs : CreateUser(s)
    BY <1>1
  <2> DEFINE o == [uid |-> uids + 1, del |-> FALSE, fin |-> FALSE, spec |-> s,
                   status |-> NoStatus]
  <2>2. /\ user = Nil /\ uids' = uids + 1 /\ uids < MaxUid /\ PutUserOutside(o)
        /\ UNCHANGED <<clock, edits, faults>>
    BY <2>1 DEF CreateUser
  <2>3. uids' \in 0 .. MaxUid /\ uids + 1 \in 1 .. MaxUid /\ edits' \in 0 .. MaxEdits
    BY <2>2, Counting DEF TypeOK
  <2>4. o \in User /\ o.status.last = Nil
    BY <2>3, FailureType DEF User
  <2> HIDE DEF o
  <2>. QED
    BY <2>2, <2>3, <2>4, Objects
<1>2. CASE \E s \in UserSpecs : EditUser(s)
  <2>1. PICK s \in UserSpecs : EditUser(s)
    BY <1>2
  <2> DEFINE o == [user EXCEPT !.spec = s]
  <2>2. /\ user # Nil /\ s # user.spec /\ edits < MaxEdits /\ edits' = edits + 1
        /\ PutUserOutside(o) /\ UNCHANGED <<clock, uids, faults>>
    BY <2>1 DEF EditUser
  <2>3. uids' \in 0 .. MaxUid /\ edits' \in 0 .. MaxEdits
    BY <2>2, Counting DEF TypeOK
  <2>4. /\ o \in User /\ o.spec = s /\ o.uid = user.uid /\ o.fin = user.fin
        /\ o.status = user.status
    BY <1>0, <2>2, WriteType
  <2> HIDE DEF o
  <2>. QED
    BY <2>2, <2>3, <2>4, Objects
<1>3. CASE DeleteUser
  <2>1. user # Nil /\ ~user.del /\ UNCHANGED <<clock, uids, edits, faults>>
    BY <1>3 DEF DeleteUser, bounds
  <2>2. uids' \in 0 .. MaxUid /\ edits' \in 0 .. MaxEdits
    BY <2>1 DEF TypeOK
  <2>3. CASE user.fin
    <3> DEFINE o == [user EXCEPT !.del = TRUE]
    <3>1. PutUserOutside(o)
      BY <1>3, <2>3 DEF DeleteUser
    <3>2. /\ o \in User /\ o.del /\ o.uid = user.uid /\ o.fin = user.fin
          /\ o.status = user.status
      BY <1>0, <2>1, WriteType
    <3> HIDE DEF o
    <3>. QED
      BY <2>1, <2>2, <3>1, <3>2, Objects
  <2>4. CASE ~user.fin
    <3>1. PutUserOutside(Nil)
      BY <1>3, <2>4 DEF DeleteUser
    <3>. QED
      BY <2>1, <2>2, <2>4, <3>1
  <2>. QED
    BY <2>3, <2>4
<1>. QED
  BY <1>1, <1>2, <1>3

(* Whatever people do to a user, a round that works on it keeps it there.  *)
LEMMA OutsideInv ==
    ASSUME IInv,
           \/ \E s \in UserSpecs : CreateUser(s) \/ EditUser(s)
           \/ DeleteUser
    PROVE  TypeOK' /\ Facts'
<1>1. PICK o \in User \cup {Nil} :
              /\ PutUserOutside(o) /\ o # user
              /\ uids' \in 0 .. MaxUid /\ edits' \in 0 .. MaxEdits
              /\ UNCHANGED <<clock, faults>>
              /\ \/ user = Nil /\ o # Nil /\ o.status.last = Nil
                 \/ /\ user # Nil /\ o # Nil /\ o.uid = user.uid /\ o.fin = user.fin
                    /\ o.status = user.status
                 \/ user # Nil /\ ~user.fin /\ o = Nil
  BY Outside DEF IInv
<1>2. /\ PutUser(o) /\ me' = After(me, user, o)
      /\ UNCHANGED <<secret, scache, cluster, ccache, up, roles, queued, pc, idx, local>>
  BY <1>1 DEF PutUserOutside, database
<1>3. me' \in CopyOf(User \cup {Nil}) /\ me'.obj = me.obj /\ ~me'.fresh
  BY <1>1, <1>2, AfterObj DEF IInv, TypeOK
<1>4. /\ user' \in User \cup {Nil} /\ ucache' \in CopyOf(User \cup {Nil})
      /\ user' = o /\ ucache'.obj = ucache.obj /\ ~ucache'.fresh
  BY <1>1, <1>2, PutUserType DEF IInv
<1>5. TypeOK'
  BY <1>1, <1>2, <1>3, <1>4 DEF IInv, TypeOK
<1>6. StepInv' /\ FreshInv' /\ ResultsInv'
  BY <1>2, <1>3, <1>4 DEF IInv, StepInv, FreshInv, ResultsInv
<1>7. RoundInv'
  BY <1>1, <1>2, <1>3, <1>4 DEF IInv, RoundInv
<1>8. TimeInv'
  BY <1>1, <1>2, <1>3, <1>4 DEF IInv, TimeInv
<1>. QED
  BY <1>5, <1>6, <1>7, <1>8 DEF Facts

(* Beginning a round.                                                      *)
LEMMA StartInv == IInv /\ Start => TypeOK' /\ Facts'
<1> SUFFICES ASSUME IInv, Start PROVE TypeOK' /\ Facts'
  OBVIOUS
<1>1. /\ UNCHANGED <<user, ucache, secret, scache, cluster, ccache, up, roles, idx, clock,
                     uids, edits, faults>>
      /\ queued' = FALSE /\ clock \in Times /\ clock' >= clock
  BY Numbers DEF Start, api, caches, database, bounds, IInv, TypeOK
<1>2. CASE ucache.obj = Nil
  <2>1. UNCHANGED <<pc, me, local>>
    BY <1>2 DEF Start
  <2>2. TypeOK'
    BY <1>1, <2>1 DEF IInv, TypeOK
  <2>. QED
    BY <1>1, <2>1, <2>2, Quiet
<1>3. CASE ucache.obj # Nil
  <2>1. ucache.obj \in User /\ ucache \in CopyOf(User \cup {Nil})
    BY <1>3, Objects DEF IInv, TypeOK, CopyOf
  <2>2. /\ me' = ucache /\ local' = [NoLocal EXCEPT !.cluster = ccache.obj]
        /\ pc' = IF ~ucache.obj.fin THEN "finalizer"
                 ELSE IF ucache.obj.del THEN "drop" ELSE "getCluster"
    BY <1>3 DEF Start
  <2>3. local' \in Local /\ local'.results = <<>>
    <3>1. ccache.obj \in Statuses \cup {Nil}
      BY DEF IInv, TypeOK, CopyOf
    <3>. QED
      BY <2>2, <3>1, Nothing DEF NoLocal, Local
  <2>4. TypeOK'
    BY <1>1, <2>1, <2>2, <2>3 DEF IInv, TypeOK
  <2>5. StepInv'
    BY <1>3, <2>2 DEF StepInv, working, deleting
  <2>6. FreshInv'
    <3>1. ucache.fresh => ucache.obj = user
      BY DEF IInv, FreshInv
    <3>2. ucache.obj = [ucache.obj EXCEPT !.status.last = ucache.obj.status.last]
      BY <2>1 DEF User, Status
    <3>. QED
      BY <1>1, <1>3, <2>2, <3>1, <3>2 DEF FreshInv
  <2>7. RoundInv' /\ TimeInv'
    BY <1>1, <2>2 DEF IInv, RoundInv, TimeInv, working
  <2>8. ResultsInv'
    BY <2>2, <2>3 DEF ResultsInv
  <2>. QED
    BY <2>4, <2>5, <2>6, <2>7, <2>8 DEF Facts
<1>. QED
  BY <1>2, <1>3

(* A step of a round that keeps its copy of the user.                      *)
LEMMA Onward ==
    ASSUME IInv, UNCHANGED <<user, ucache, clock, me>>, pc \in working, pc' \in working,
           pc' \in {"report", "password"} => pc \in {"report", "password"}
    PROVE  FreshInv' /\ RoundInv' /\ TimeInv'
<1>1. FreshInv'
  BY DEF IInv, FreshInv, working
<1>2. RoundInv' /\ TimeInv'
  BY DEF IInv, RoundInv, TimeInv
<1>. QED
  BY <1>1, <1>2

(* The first status write is made by a round whose user is on the server.  *)
LEMMA FirstWrite ==
    ASSUME IInv, GetCluster, pc' # "idle"
    PROVE  /\ UNCHANGED <<secret, scache, cluster, ccache, up, roles, clock, uids, edits,
                          faults, queued>>
           /\ pc = "getCluster" /\ me.fresh /\ me.obj = user /\ user # Nil
           /\ user' \in User /\ user'.uid = user.uid /\ user'.spec = user.spec
           /\ user'.del = user.del /\ user'.fin = user.fin
           /\ user'.status.last = user.status.last /\ user'.status.phase = "Failed"
           /\ ucache' \in CopyOf(User \cup {Nil}) /\ ucache'.obj = ucache.obj
           /\ ucache'.fresh => ucache.fresh /\ user' = user
           /\ me' = Copy(user') /\ idx' = 1
           /\ ~(readsCluster(user.spec.selector) /\ local.cluster = Nil)
           /\ LET targets == getTargetInstances(user.spec.selector, local.cluster)
              IN  \/ pc' = "report" /\ local' = [local EXCEPT !.error = "targets"]
                  \/ pc' = "password" /\ local' = [local EXCEPT !.targets = targets]
<1>1. me.fresh /\ pc = "getCluster"
  BY DEF GetCluster, Return
<1>2. me.obj = user /\ user # Nil
  BY <1>1 DEF IInv, FreshInv
<1>3. updateStatus(failure("cluster"), me.obj.status)
  BY <1>1 DEF GetCluster
<1>4. /\ failure("cluster") \in Status /\ failure("cluster").last = Nil
      /\ failure("cluster").phase = "Failed" /\ me.obj.status \in Status
  BY <1>1, FailureType, MeType DEF IInv
<1>5. user'.status.last = user.status.last /\ user'.status.phase = "Failed"
  BY <1>2, <1>3, <1>4, StatusWrite, PreservedType DEF IInv
<1>6. UNCHANGED <<secret, scache, cluster, ccache, up, roles, clock, uids, edits, faults>>
  BY DEF GetCluster, database, bounds
<1> DEFINE targets == getTargetInstances(me.obj.spec.selector, local.cluster)
<1>7. /\ ~(readsCluster(me.obj.spec.selector) /\ local.cluster = Nil)
      /\ me' = Copy(user') /\ idx' = 1 /\ queued' = queued
      /\ \/ pc' = "report" /\ local' = [local EXCEPT !.error = "targets"]
         \/ pc' = "password" /\ local' = [local EXCEPT !.targets = targets]
  BY <1>1 DEF GetCluster, Return, Goto
<1>. QED
  BY <1>1, <1>2, <1>3, <1>4, <1>5, <1>6, <1>7, StatusWrite DEF IInv

(* The first status write, and the selection of the instances.             *)
LEMMA GetClusterInv == IInv /\ GetCluster => TypeOK' /\ Facts'
<1> SUFFICES ASSUME IInv, GetCluster PROVE TypeOK' /\ Facts'
  OBVIOUS
<1>1. CASE pc' = "idle"
  BY <1>1, EndsInv
<1>2. CASE pc' # "idle"
  <2>1. /\ UNCHANGED <<secret, scache, cluster, ccache, up, roles, clock, uids, edits,
                       faults, queued>>
        /\ pc = "getCluster" /\ me.obj = user /\ user # Nil
        /\ user' \in User /\ user'.spec = user.spec
        /\ user'.del = user.del /\ user'.fin = user.fin
        /\ user'.status.last = user.status.last
        /\ ucache' \in CopyOf(User \cup {Nil}) /\ ucache'.obj = ucache.obj
        /\ ucache'.fresh => ucache.fresh /\ user' = user
        /\ me' = Copy(user') /\ idx' = 1
        /\ ~(readsCluster(user.spec.selector) /\ local.cluster = Nil)
    BY <1>2, FirstWrite
  <2> DEFINE targets == getTargetInstances(user.spec.selector, local.cluster)
  <2>2. \/ pc' = "report" /\ local' = [local EXCEPT !.error = "targets"]
        \/ pc' = "password" /\ local' = [local EXCEPT !.targets = targets]
    BY <1>2, FirstWrite
  <2>3. me' \in CopyOf(User \cup {Nil}) /\ me'.obj = user' /\ user' # Nil
    BY <2>1, CopyType, Objects
  <2>4. targets \in Seq(Names)
    <3>1. user.spec \in UserSpecs /\ local.cluster \in Statuses \cup {Nil}
      BY <2>1, UserType DEF IInv, TypeOK, Local
    <3>. QED
      BY <2>1, <3>1, TargetsType
  <2> HIDE DEF targets
  <2>5. local \in Local /\ local.results = <<>>
    BY <2>1 DEF IInv, TypeOK, ResultsInv
  <2>6. /\ local' \in Local /\ local'.results = <<>> /\ local'.cluster = local.cluster
        /\ pc' = "password" => local'.targets = targets
    BY <2>2, <2>4, <2>5 DEF Local
  <2>7. TypeOK'
    <3>1. idx' \in Nat \ {0}
      BY <2>1, Nothing
    <3>2. pc' \in {"report", "password"}
      BY <2>2
    <3>. QED
      BY <2>1, <2>3, <2>6, <3>1, <3>2 DEF IInv, TypeOK
  <2>8. StepInv'
    <3>1. user.fin /\ ~user.del
      BY <2>1 DEF IInv, StepInv
    <3>. QED
      BY <2>1, <2>2, <2>3, <3>1 DEF StepInv, working, deleting
  <2>9. FreshInv'
    <3>1. user' = [user' EXCEPT !.status.last = user'.status.last]
      BY <2>1 DEF User, Status
    <3>. QED
      BY <2>1, <2>3, <3>1 DEF IInv, FreshInv
  <2>10. RoundInv'
    <3>1. user'.status.last # Nil => user'.status.last \in Nat
      BY <2>1, Numbers DEF User, Status
    <3>2. user'.status.last # Nil => user'.status.last >= user'.status.last
      BY <3>1
    <3>3. user'.fin
      BY <2>1 DEF IInv, StepInv
    <3>. QED
      BY <2>2, <2>3, <3>2, <3>3 DEF RoundInv
  <2>11. TimeInv'
    BY <2>1, <2>3 DEF IInv, TimeInv
  <2>12. ResultsInv'
    BY <2>1, <2>2, <2>3, <2>6 DEF ResultsInv, targets
  <2>. QED
    BY <2>7, <2>8, <2>9, <2>10, <2>11, <2>12 DEF Facts
<1>. QED
  BY <1>1, <1>2

(* Giving up before the password is there, or finding it there.            *)
LEMMA PasswordKept ==
    ASSUME IInv, pc = "password", UNCHANGED <<user, ucache, cluster, ccache, up, roles,
                                             clock, uids, edits, faults>>,
           PasswordFails \/ (PasswordStands /\ me.obj.spec.source \in Sources)
    PROVE  TypeOK' /\ Facts'
<1>1. UNCHANGED <<secret, scache, me, queued>> /\ idx' = 1
  BY DEF PasswordFails, PasswordStands, Goto
<1>2. \/ pc' = "report" /\ local' = [local EXCEPT !.error = "password"]
      \/ pc' = "read" /\ local' = local /\ me.obj.spec.source \in Sources
  BY DEF PasswordFails, PasswordStands, Goto
<1>3. /\ local' \in Local /\ local'.results = local.results
      /\ local'.targets = local.targets /\ local'.cluster = local.cluster
  <2>1. local \in Local
    BY DEF IInv, TypeOK
  <2>. QED
    BY <1>2, <2>1 DEF Local
<1>4. TypeOK'
  <2>1. idx' \in Nat \ {0} /\ pc' \in {"report", "read"}
    BY <1>1, <1>2, Nothing
  <2>. QED
    BY <1>1, <1>3, <2>1 DEF IInv, TypeOK
<1>5. StepInv'
  BY <1>1, <1>2 DEF IInv, StepInv, working, deleting
<1>6. FreshInv' /\ RoundInv' /\ TimeInv'
  <2>1. pc \in working /\ pc' \in working
    BY <1>2 DEF working
  <2>. QED
    BY <1>1, <2>1, Onward
<1>7. ResultsInv'
  BY <1>1, <1>2, <1>3 DEF IInv, ResultsInv
<1>. QED
  BY <1>4, <1>5, <1>6, <1>7 DEF Facts

(* Storing a new password, and remembering when.                           *)
LEMMA Rotated ==
    ASSUME IInv, pc = "password", me.obj.spec.source \in Sources,
           UNCHANGED <<user, ucache, cluster, ccache, up, roles, clock, uids, edits, faults,
                       local>>,
           NEW o \in SecretObject, PutSecret("generated", o),
           me' = [me EXCEPT !.obj.status.last = clock], Goto("read", 1)
    PROVE  TypeOK' /\ Facts'
<1> DEFINE u == [me.obj EXCEPT !.status.last = clock]
<1>1. /\ me.obj \in User /\ me \in CopyOf(User \cup {Nil}) /\ clock \in Times
      /\ clock \in Nat /\ clock # Nil
  BY MeType, Numbers, UserNilAssumption DEF IInv, TypeOK
<1>2. me' = [me EXCEPT !.obj = u]
  BY <1>1 DEF CopyOf, User
<1>3. /\ u \in User /\ u.uid = me.obj.uid /\ u.spec = me.obj.spec /\ u.del = me.obj.del
      /\ u.fin = me.obj.fin /\ u.status.last = clock
  BY <1>1, RememberType
<1>4. me.obj = user => user = [u EXCEPT !.status.last = user.status.last]
  BY <1>1 DEF User, Status
<1> HIDE DEF u
<1>5. me' \in CopyOf(User \cup {Nil}) /\ me'.obj = u /\ me'.fresh = me.fresh /\ u # Nil
  BY <1>1, <1>2, <1>3, Objects DEF CopyOf
<1>6. pc' = "read" /\ idx' = 1 /\ queued' = queued
  BY DEF Goto
<1>7. /\ secret' \in [Sources -> SecretObject \cup {Nil}]
      /\ scache' \in [Sources -> CopyOf(SecretObject \cup {Nil})]
  <2>1. "generated" \in Sources
    BY DEF Sources
  <2>. QED
    BY <2>1, PutSecretType DEF IInv
<1>8. TypeOK'
  <2>1. idx' \in Nat \ {0}
    BY <1>6, Nothing
  <2>. QED
    BY <1>5, <1>6, <1>7, <2>1 DEF IInv, TypeOK
<1>9. StepInv'
  BY <1>3, <1>5, <1>6 DEF IInv, StepInv, working, deleting
<1>10. FreshInv'
  BY <1>4, <1>5, <1>6 DEF IInv, FreshInv
<1>11. RoundInv'
  <2>1. user # Nil /\ user.uid = me.obj.uid /\ user.fin
    BY DEF IInv, RoundInv, working
  <2>2. user.status.last # Nil => clock >= user.status.last
    <3>1. user.status.last # Nil => user.status.last <= clock
      BY <2>1 DEF IInv, TimeInv
    <3>2. user.status.last # Nil => user.status.last \in Nat
      BY <2>1, UserType, Numbers DEF IInv
    <3>. QED
      BY <1>1, <3>1, <3>2
  <2>. QED
    BY <1>1, <1>3, <1>5, <1>6, <2>1, <2>2 DEF RoundInv
<1>12. TimeInv'
  <2>1. u.status.last <= clock
    BY <1>1, <1>3
  <2>. QED
    BY <1>5, <2>1 DEF IInv, TimeInv
<1>13. ResultsInv'
  BY <1>3, <1>5, <1>6 DEF IInv, ResultsInv
<1>. QED
  BY <1>8, <1>9, <1>10, <1>11, <1>12, <1>13 DEF Facts

(* The password is looked after.                                           *)
LEMMA PasswordInv == IInv /\ reconcilePasswordSecret => TypeOK' /\ Facts'
<1> SUFFICES ASSUME IInv, reconcilePasswordSecret PROVE TypeOK' /\ Facts'
  OBVIOUS
<1>1. /\ UNCHANGED <<user, ucache, cluster, ccache, up, roles, clock, uids, edits, faults>>
      /\ pc = "password"
  BY DEF reconcilePasswordSecret, database, bounds
<1>2. me.obj \in User /\ me.obj.uid \in 1 .. MaxUid
  BY <1>1, MeType DEF IInv, User
<1>3. me.obj.spec.source \in {"given", "generated", "none"}
  BY <1>1, MeType, UserSpecsAssumption DEF IInv, UserSpec
<1>4. CASE PasswordFails \/ (PasswordStands /\ me.obj.spec.source \in Sources)
  BY <1>1, <1>4, PasswordKept
<1>5. CASE /\ me.obj.spec.source = "generated"
           /\ \E pw \in Passwords : RotatePassword(pw)
  <2>1. PICK pw \in Passwords : RotatePassword(pw)
    BY <1>5
  <2> DEFINE cur == scache["generated"]
  <2> DEFINE o == [owner |-> IF cur.obj = Nil THEN me.obj.uid ELSE cur.obj.owner, pw |-> pw]
  <2>2. CASE PasswordFails
    BY <1>1, <2>2, PasswordKept
  <2>3. CASE ~PasswordFails
    <3>1. /\ PutSecret("generated", o) /\ me' = [me EXCEPT !.obj.status.last = clock]
          /\ Goto("read", 1) /\ UNCHANGED local
      BY <2>1, <2>3 DEF RotatePassword
    <3>2. o \in SecretObject
      <4>1. cur \in CopyOf(SecretObject \cup {Nil})
        BY DEF IInv, TypeOK, Sources
      <4>2. cur.obj # Nil => cur.obj.owner \in 0 .. MaxUid
        BY <4>1, Objects DEF CopyOf, SecretObject
      <4>. QED
        BY <1>2, <4>2, Numbers DEF SecretObject
    <3> HIDE DEF o
    <3>3. me.obj.spec.source \in Sources
      BY <1>5 DEF Sources
    <3>. QED
      BY <1>1, <3>1, <3>2, <3>3, Rotated
  <2>. QED
    BY <2>2, <2>3
<1>. QED
  BY <1>3, <1>4, <1>5 DEF reconcilePasswordSecret, Sources

(* The password is read.                                                   *)
LEMMA ReadInv == IInv /\ getPasswordFromSecret => TypeOK' /\ Facts'
<1> SUFFICES ASSUME IInv, getPasswordFromSecret PROVE TypeOK' /\ Facts'
  OBVIOUS
<1>1. /\ UNCHANGED <<user, ucache, secret, scache, cluster, ccache, up, roles, clock, uids,
                     edits, faults, me, queued>>
      /\ pc = "read" /\ idx' = 1
  BY DEF getPasswordFromSecret, Goto, api, caches, database, bounds
<1> DEFINE s == scache[me.obj.spec.source].obj
<1>2. \/ s = Nil /\ pc' = "final" /\ local' = [local EXCEPT !.error = "instances"]
      \/ /\ s # Nil /\ local' = [local EXCEPT !.password = s.pw]
         /\ pc' = IF local.targets = <<>> THEN "final" ELSE "instance"
  BY DEF getPasswordFromSecret, Goto
<1>3. s # Nil => s.pw \in Passwords
  <2>1. me.obj.spec.source \in Sources
    BY <1>1 DEF IInv, StepInv
  <2>. QED
    BY <2>1, Objects DEF IInv, TypeOK, CopyOf, SecretObject
<1> HIDE DEF s
<1>4. local \in Local /\ local.results = <<>> /\ local.targets \in Seq(Names)
  BY <1>1 DEF IInv, TypeOK, ResultsInv, Local
<1>5. /\ local' \in Local /\ local'.results = <<>> /\ local'.targets = local.targets
      /\ local'.cluster = local.cluster
      /\ s # Nil => local'.password \in Passwords
      /\ s = Nil => local'.error # Nil
  BY <1>2, <1>3, <1>4, UserNilAssumption DEF Local
<1>6. Len(local.targets) \in Nat /\ (local.targets # <<>> => Len(local.targets) # 0)
  BY <1>4, LenProperties, EmptySeq
<1>7. TypeOK'
  <2>1. idx' \in Nat \ {0} /\ pc' \in {"final", "instance"}
    BY <1>1, <1>2, Nothing
  <2>. QED
    BY <1>1, <1>5, <2>1 DEF IInv, TypeOK
<1>8. StepInv'
  <2>1. pc' = "instance" => idx' \in 1 .. Len(local'.targets) /\ local'.password \in Passwords
    BY <1>1, <1>2, <1>5, <1>6
  <2>. QED
    BY <1>1, <1>2, <2>1 DEF IInv, StepInv, working, deleting
<1>9. FreshInv' /\ RoundInv' /\ TimeInv'
  <2>1. pc \in working /\ pc' \in working /\ pc' \notin {"report", "password"}
    BY <1>1, <1>2 DEF working
  <2>. QED
    BY <1>1, <2>1, Onward
<1>10. ResultsInv'
  <2>1. Len(local'.results) = 0 /\ idx' - 1 = 0 /\ 1 .. Len(local'.results) = {}
    BY <1>1, <1>5
  <2>2. local'.targets = getTargetInstances(me'.obj.spec.selector, local'.cluster)
    BY <1>1, <1>5 DEF IInv, ResultsInv
  <2>3. pc' = "final" /\ local'.error = Nil =>
            Len(local'.targets) = 0 /\ local'.password \in Passwords
    <3>1. pc' = "final" /\ local'.error = Nil => s # Nil /\ local.targets = <<>>
      BY <1>2, <1>5
    <3>. QED
      BY <1>5, <3>1
  <2>. QED
    BY <1>2, <1>5, <1>6, <2>1, <2>2, <2>3 DEF ResultsInv
<1>. QED
  BY <1>7, <1>8, <1>9, <1>10 DEF Facts

(* An instance was visited: its result is noted and the loop goes on.      *)
LEMMA Visited ==
    ASSUME IInv, pc = "instance", NEW ready \in BOOLEAN, Finish(ready),
           UNCHANGED <<user, ucache, secret, scache, cluster, ccache, up, clock, uids,
                       edits>>,
           UNCHANGED faults,
           \/ \E outcome \in Outcomes :
                  /\ ready = (outcome = "done")
                  /\ CreateOrUpdateUser(local.targets[idx], local.password, outcome)
           \/ UNCHANGED roles /\ ~ready
    PROVE  TypeOK' /\ Facts'
<1> DEFINE n == local.targets[idx]
<1> DEFINE r == [name |-> n, ready |-> ready]
<1>1. /\ local \in Local /\ local.targets \in Seq(Names) /\ local.results \in Seq(Results)
      /\ idx \in 1 .. Len(local.targets) /\ local.password \in Passwords
      /\ Len(local.results) = idx - 1 /\ Len(local.targets) \in Nat
  BY LenProperties DEF IInv, TypeOK, Local, StepInv, ResultsInv
<1>2. n \in Names /\ r \in Results
  BY <1>1, ElementOfSeq DEF Results
<1>3. /\ local' = [local EXCEPT !.results = Append(@, r),
                                !.error = IF ready THEN @ ELSE "instances"]
      /\ IF idx < Len(local.targets) THEN Goto("instance", idx + 1) ELSE Goto("final", 1)
      /\ UNCHANGED <<me, queued>>
  BY DEF Finish, Goto
<1> HIDE DEF r
<1>4. /\ local' \in Local /\ local'.targets = local.targets
      /\ local'.cluster = local.cluster /\ local'.password = local.password
      /\ local'.results = Append(local.results, r)
      /\ local'.error = IF ready THEN local.error ELSE "instances"
  <2>1. Append(local.results, r) \in Seq(Results)
    BY <1>1, <1>2, AppendProperties
  <2>. QED
    BY <1>1, <1>3, <2>1 DEF Local
<1>5. /\ Len(local'.results) = idx
      /\ \A i \in 1 .. (idx - 1) : local'.results[i] = local.results[i]
      /\ local'.results[idx] = r
  BY <1>1, <1>2, <1>4, AppendProperties
<1>6. \/ idx < Len(local.targets) /\ pc' = "instance" /\ idx' = idx + 1
      \/ idx = Len(local.targets) /\ pc' = "final" /\ idx' = 1
  BY <1>1, <1>3 DEF Goto
<1>7. /\ roles' \in [Names -> Passwords \cup {Nil}]
      /\ \A m \in Names : roles[m] = local.password => roles'[m] = local.password
      /\ ready => roles'[n] = local.password
  <2>1. \/ UNCHANGED roles /\ ~ready
        \/ roles' = [roles EXCEPT ![n] = local.password]
    BY DEF CreateOrUpdateUser
  <2>. QED
    BY <1>1, <1>2, <2>1 DEF IInv, TypeOK
<1>8. TypeOK'
  <2>1. idx' \in Nat \ {0} /\ pc' \in {"final", "instance"}
    BY <1>1, <1>6, Nothing
  <2>. QED
    BY <1>3, <1>4, <1>7, <2>1 DEF IInv, TypeOK
<1>9. StepInv'
  <2>1. pc' = "instance" => idx' \in 1 .. Len(local'.targets) /\ local'.password \in Passwords
    BY <1>1, <1>4, <1>6
  <2>. QED
    BY <1>3, <1>6, <2>1 DEF IInv, StepInv, working, deleting
<1>10. FreshInv' /\ RoundInv' /\ TimeInv'
  <2>1. pc \in working /\ pc' \in working /\ pc' \notin {"report", "password"}
    BY <1>6 DEF working
  <2>. QED
    BY <1>3, <2>1, Onward
<1>11. ResultsInv'
  <2>1. local'.targets = getTargetInstances(me'.obj.spec.selector, local'.cluster)
    BY <1>3, <1>4 DEF IInv, ResultsInv
  <2>2. \A i \in 1 .. Len(local'.results) :
            /\ local'.results[i].name = local'.targets[i]
            /\ local'.error = Nil => roles'[local'.targets[i]] = local'.password
    <3>1. SUFFICES ASSUME NEW i \in 1 .. idx
                   PROVE  /\ local'.results[i].name = local.targets[i]
                          /\ local'.error = Nil => roles'[local.targets[i]] = local.password
      BY <1>4, <1>5
    <3>2. local'.error = Nil => ready /\ local.error = Nil
      BY <1>4, UserNilAssumption
    <3>3. CASE i = idx
      BY <1>5, <1>7, <3>2, <3>3 DEF r
    <3>4. CASE i # idx
      <4>1. i \in 1 .. (idx - 1) /\ i \in 1 .. Len(local.targets)
        BY <1>1, <3>4
      <4>2. /\ local.results[i].name = local.targets[i]
            /\ local.error = Nil => roles[local.targets[i]] = local.password
        BY <1>1, <4>1 DEF IInv, ResultsInv
      <4>3. local.targets[i] \in Names
        BY <1>1, <4>1, ElementOfSeq
      <4>. QED
        BY <1>5, <1>7, <3>2, <4>1, <4>2, <4>3
    <3>. QED
      BY <3>3, <3>4
  <2>3. /\ Len(local'.results) <= Len(local'.targets)
        /\ pc' = "instance" => Len(local'.results) = idx' - 1
        /\ pc' = "final" => Len(local'.results) = Len(local'.targets)
    BY <1>1, <1>4, <1>5, <1>6
  <2>4. local'.password \in Passwords
    BY <1>1, <1>4
  <2>. QED
    BY <1>6, <2>1, <2>2, <2>3, <2>4 DEF ResultsInv
<1>. QED
  BY <1>8, <1>9, <1>10, <1>11 DEF Facts

(* Configuring an instance, whatever becomes of the statements.            *)
LEMMA InstanceInv == IInv /\ ConfigureInstance => TypeOK' /\ Facts'
<1> SUFFICES ASSUME IInv, ConfigureInstance PROVE TypeOK' /\ Facts'
  OBVIOUS
<1>1. /\ UNCHANGED <<user, ucache, secret, scache, cluster, ccache, up, clock, uids, edits,
                     faults>>
      /\ pc = "instance"
  BY DEF ConfigureInstance, api, caches, bounds
<1>2. CASE local.cluster = Nil
  <2>1. Return(TRUE) /\ UNCHANGED roles
    BY <1>2 DEF ConfigureInstance
  <2>2. TypeOK'
    BY <1>1, <2>1, ReturnType DEF IInv, TypeOK
  <2>3. Facts'
    BY <1>1, <2>1, Ended
  <2>. QED
    BY <2>2, <2>3
<1>3. CASE local.cluster # Nil /\ connects(local.targets[idx])
  <2>1. PICK outcome \in Outcomes :
            /\ Finish(outcome = "done")
            /\ CreateOrUpdateUser(local.targets[idx], local.password, outcome)
    BY <1>3 DEF ConfigureInstance
  <2>. QED
    BY <1>1, <2>1, Visited
<1>4. CASE local.cluster # Nil /\ ~connects(local.targets[idx])
  <2>1. Finish(FALSE) /\ UNCHANGED roles
    BY <1>4 DEF ConfigureInstance
  <2>. QED
    BY <1>1, <2>1, Visited
<1>. QED
  BY <1>2, <1>3, <1>4

(* Dropping the role of a user that is deleted.                            *)
LEMMA DropInv == IInv /\ DropFromInstances => TypeOK' /\ Facts'
<1> SUFFICES ASSUME IInv, DropFromInstances PROVE TypeOK' /\ Facts'
  OBVIOUS
<1>1. /\ UNCHANGED <<user, ucache, secret, scache, cluster, ccache, up, clock, uids, edits,
                     faults, me, local, queued>>
      /\ pc = "drop"
  BY DEF DropFromInstances, Goto, api, caches, bounds
<1>2. pc' \in deleting /\ idx' \in {1, idx + 1}
  BY DEF DropFromInstances, Goto, deleting
<1>3. roles' \in [Names -> Passwords \cup {Nil}]
  <2>1. roles' = roles \/ \E n : roles' = [roles EXCEPT ![n] = Nil]
    BY DEF DropFromInstances, DropUser
  <2>. QED
    BY <2>1 DEF IInv, TypeOK
<1>4. TypeOK'
  <2>1. idx' \in Nat \ {0}
    BY <1>2, Nothing DEF IInv, TypeOK
  <2>. QED
    BY <1>1, <1>2, <1>3, <2>1 DEF IInv, TypeOK, deleting
<1>5. StepInv'
  BY <1>1, <1>2 DEF IInv, StepInv, working, deleting
<1>6. FreshInv' /\ RoundInv' /\ TimeInv' /\ ResultsInv'
  BY <1>1, <1>2 DEF IInv, FreshInv, RoundInv, TimeInv, ResultsInv, working, deleting
<1>. QED
  BY <1>4, <1>5, <1>6 DEF Facts

(* Which user the writes at the end of a round leave behind.               *)
LEMMA EndsWrite ==
    ASSUME IInv,
           \/ AddFinalizer \/ ReportError \/ FinalStatus \/ RemoveFinalizer
           \/ GetCluster /\ pc' = "idle"
    PROVE  \/ user' = user
           \/ /\ RemoveFinalizer /\ me.obj = user
              /\ user' = Nil /\ user # Nil /\ user.fin /\ user.del
           \/ /\ AddFinalizer /\ me.obj = user /\ user # Nil /\ ~user.fin /\ ~user.del
              /\ user' \in User /\ user'.uid = user.uid /\ user'.fin /\ ~user'.del
              /\ user'.status = user.status
           \/ /\ pc \in working \cup {"getCluster"} /\ me.fresh /\ user # Nil
              /\ user.fin /\ ~user.del
              /\ user' \in User /\ user'.uid = user.uid /\ user'.fin /\ ~user'.del
<1>0. /\ TypeOK /\ StepInv /\ FreshInv /\ RoundInv
      /\ me.obj \in User /\ me.obj # Nil /\ me.obj.status \in Status
  BY MeType DEF IInv, AddFinalizer, ReportError, FinalStatus, RemoveFinalizer, GetCluster
<1>1. CASE AddFinalizer /\ me.fresh /\ ~me.obj.del
  <2> DEFINE o == [me.obj EXCEPT !.fin = TRUE]
  <2>1. PutUser(o) /\ me.obj = user /\ user # Nil /\ ~me.obj.fin
    BY <1>0, <1>1 DEF AddFinalizer, FreshInv, StepInv
  <2>2. /\ o \in User /\ o.status = me.obj.status /\ o.uid = me.obj.uid
        /\ o.del = me.obj.del /\ o.fin
    BY <1>0 DEF User
  <2> HIDE DEF o
  <2>3. user' = o
    BY <2>1 DEF PutUser
  <2>. QED
    BY <1>1, <2>1, <2>2, <2>3
<1>2. CASE RemoveFinalizer /\ me.fresh
  <2>1. PutUser(Nil) /\ me.obj = user /\ user # Nil /\ me.obj.fin /\ me.obj.del
    BY <1>0, <1>2 DEF RemoveFinalizer, FreshInv, StepInv, deleting
  <2>. QED
    BY <1>2, <2>1 DEF PutUser
<1>3. CASE (ReportError \/ FinalStatus \/ GetCluster) /\ me.fresh
  <2>1. pc \in working \cup {"getCluster"}
    BY <1>3 DEF ReportError, FinalStatus, GetCluster, working
  <2>2. /\ user # Nil /\ user = [me.obj EXCEPT !.status.last = user.status.last]
        /\ me.obj.fin /\ ~me.obj.del
    BY <1>0, <1>3, <2>1 DEF FreshInv, StepInv
  <2>3. user.fin /\ ~user.del
    BY <1>0, <2>2 DEF User
  <2>4. \E st \in Status : updateStatus(st, me.obj.status)
    <3>1. /\ failure("cluster") \in Status
          /\ local.error \in {Nil, "cluster", "targets", "password", "instances"}
      BY <1>0, FailureType DEF TypeOK, Local
    <3>2. failure(local.error) \in Status
      BY <3>1, FailureType
    <3>3. [phase |-> IF local.error = Nil THEN "Ready" ELSE "Failed",
           error |-> local.error, instances |-> local.results,
           last |-> me.obj.status.last] \in Status
      BY <1>0 DEF TypeOK, Local, Status
    <3>. QED
      BY <1>3, <3>1, <3>2, <3>3 DEF ReportError, FinalStatus, GetCluster
  <2>. QED
    BY <1>0, <1>3, <2>1, <2>2, <2>3, <2>4, StatusWrite
<1>. QED
  BY <1>1, <1>2, <1>3 DEF AddFinalizer, RemoveFinalizer, ReportError, FinalStatus, GetCluster

(* Steps that keep the incarnation of the user and of the copies.          *)
LEMMA OrderKept ==
    ASSUME IInv, uids' = uids, ucache'.obj = ucache.obj,
           \/ user' = Nil
           \/ /\ user # Nil /\ user'.uid = user.uid /\ user'.del = user.del
              /\ user'.fin => user.fin \/ (me.obj # Nil /\ me.obj.uid = user.uid),
           \/ me'.obj = Nil
           \/ /\ me.obj # Nil /\ me'.obj.uid = me.obj.uid
              /\ me'.obj.del = me.obj.del,
           pc' \in deleting => pc \in deleting /\ UNCHANGED <<user, me>>
    PROVE  OrderInv'
BY DEF IInv, OrderInv

(* People create users in their order, and only people ask for a deletion. *)
LEMMA OrderOutside ==
    ASSUME IInv,
           \/ \E s \in UserSpecs : CreateUser(s) \/ EditUser(s)
           \/ DeleteUser
    PROVE  OrderInv'
<1>0. /\ TypeOK /\ uids \in Nat /\ (user # Nil => user \in User)
      /\ ucache \in CopyOf(User \cup {Nil}) /\ me \in CopyOf(User \cup {Nil})
  <2>1. TypeOK
    BY DEF IInv
  <2>2. user # Nil => user \in User
    BY <2>1, UserType
  <2>. QED
    BY <2>1, <2>2 DEF TypeOK
<1>1. /\ UNCHANGED pc /\ ucache'.obj = ucache.obj /\ me'.obj = me.obj
  BY <1>0 DEF CreateUser, EditUser, DeleteUser, PutUserOutside, PutUser, After, CopyOf
<1>2. \A o \in {ucache.obj, me.obj} : o # Nil => o.uid \in Nat /\ o.uid <= uids
  BY <1>0, Objects, UserBoundsAssumption DEF IInv, OrderInv, CopyOf, User
<1>3. CASE \E s \in UserSpecs : CreateUser(s)
  <2>1. /\ user' # Nil /\ user'.uid = uids + 1 /\ ~user'.fin /\ uids' = uids + 1
    <3>1. PICK s \in UserSpecs : CreateUser(s)
      BY <1>3
    <3> DEFINE o == [uid |-> uids + 1, del |-> FALSE, fin |-> FALSE, spec |-> s,
                     status |-> NoStatus]
    <3>2. user' = o /\ uids' = uids + 1 /\ uids < MaxUid
      BY <3>1 DEF CreateUser, PutUserOutside, PutUser
    <3>3. o \in User
      BY <1>0, <3>2, Counting, FailureType DEF User
    <3>. QED
      BY <3>2, <3>3, Objects
  <2>2. \A o \in {ucache.obj, me.obj} : o # Nil => o.uid <= uids' /\ o.uid # user'.uid
    BY <1>0, <1>2, <2>1
  <2>. QED
    BY <1>1, <2>1, <2>2 DEF OrderInv
<1>4. CASE (\E s \in UserSpecs : EditUser(s)) \/ DeleteUser
  <2>1. /\ user # Nil /\ uids' = uids
        /\ \/ user' = Nil
           \/ /\ user'.uid = user.uid /\ user'.fin = user.fin
              /\ user.del => user'.del
    <3>1. CASE \E s \in UserSpecs : EditUser(s)
      <4>1. PICK s \in UserSpecs : EditUser(s)
        BY <3>1
      <4>2. user # Nil /\ uids' = uids /\ user' = [user EXCEPT !.spec = s]
        BY <4>1 DEF EditUser, PutUserOutside, PutUser
      <4>. QED
        BY <1>0, <4>2, WriteType
    <3>2. CASE DeleteUser
      <4>1. /\ user # Nil /\ uids' = uids
            /\ user' = IF user.fin THEN [user EXCEPT !.del = TRUE] ELSE Nil
        BY <3>2 DEF DeleteUser, PutUserOutside, PutUser, bounds
      <4>. QED
        BY <1>0, <4>1, WriteType
    <3>. QED
      BY <1>4, <3>1, <3>2
  <2>. QED
    BY <1>1, <2>1 DEF IInv, OrderInv
<1>. QED
  BY <1>3, <1>4

(* A round that begins works on what the cache shows, and the cache shows  *)
(* what the server has when it is told.                                    *)
LEMMA OrderCopies ==
    ASSUME IInv, Start \/ SyncUser
    PROVE  OrderInv'
<1>1. CASE Start /\ ucache.obj = Nil
  BY <1>1, OrderKept DEF Start, api, caches, bounds, IInv, StepInv, deleting
<1>2. CASE Start /\ ucache.obj # Nil
  BY <1>2 DEF Start, api, caches, bounds, IInv, OrderInv
<1>3. CASE SyncUser
  <2>1. /\ UNCHANGED <<user, me, pc, uids>> /\ ucache'.obj = user
    BY <1>3 DEF SyncUser, api, bounds, Copy
  <2>2. uids \in Nat /\ uids <= uids
    BY DEF IInv, TypeOK
  <2>. QED
    BY <2>1, <2>2 DEF IInv, OrderInv
<1>. QED
  BY <1>1, <1>2, <1>3

(* In every step.                                                          *)
LEMMA OrderNext == ASSUME IInv, [Next]_vars PROVE OrderInv'
<1>1. CASE \/ AddFinalizer \/ ReportError \/ FinalStatus \/ RemoveFinalizer
           \/ GetCluster /\ pc' = "idle"
  <2>1. PICK q \in BOOLEAN : Return(q)
    BY <1>1, Ends
  <2>2. pc' = "idle" /\ me'.obj = Nil
    BY <2>1, Nothing DEF Return
  <2>3. uids' = uids /\ ucache'.obj = ucache.obj
    BY <1>1, Ends
  <2>4. \/ user' = Nil
        \/ /\ user # Nil /\ user'.uid = user.uid /\ user'.del = user.del
           /\ user'.fin => user.fin \/ (me.obj # Nil /\ me.obj.uid = user.uid)
    <3>1. user # Nil => user.del \in BOOLEAN
      BY UserType DEF IInv, User
    <3>2. user' # Nil => user'.del \in BOOLEAN
      BY <1>1, Ends, Objects DEF User
    <3>. QED
      BY <1>1, <3>1, <3>2, EndsWrite
  <2>. QED
    BY <2>2, <2>3, <2>4, OrderKept DEF deleting
<1>2. CASE GetCluster /\ pc' # "idle"
  <2>1. /\ uids' = uids /\ ucache'.obj = ucache.obj /\ user # Nil /\ me.obj = user
        /\ user'.uid = user.uid /\ user'.del = user.del /\ user'.fin = user.fin
        /\ me'.obj = user' /\ pc' \in {"report", "password"}
    BY <1>2, FirstWrite DEF Copy
  <2>. QED
    BY <2>1, OrderKept DEF deleting
<1>3. CASE reconcilePasswordSecret
  <2>1. /\ UNCHANGED <<user, ucache, uids>> /\ pc' \in {"report", "read"} /\ pc = "password"
        /\ me' = me \/ me' = [me EXCEPT !.obj.status.last = clock]
    <3>1. me.obj.spec.source \in {"given", "generated", "none"}
      BY <1>3, MeType, UserSpecsAssumption DEF reconcilePasswordSecret, IInv, UserSpec
    <3>. QED
      BY <1>3, <3>1 DEF reconcilePasswordSecret, RotatePassword, PasswordFails,
         PasswordStands, Goto, bounds
  <2>2. /\ me.obj \in User /\ me.obj # Nil /\ me \in CopyOf(User \cup {Nil})
        /\ clock \in Times
    BY <2>1, MeType DEF IInv, TypeOK
  <2>3. me'.obj.uid = me.obj.uid /\ me'.obj.del = me.obj.del
    BY <2>1, <2>2 DEF CopyOf, User
  <2>. QED
    BY <2>1, <2>2, <2>3, OrderKept DEF deleting
<1>4. CASE getPasswordFromSecret \/ ConfigureInstance \/ Abort
  <2>1. /\ UNCHANGED <<user, ucache, uids>> /\ pc' \notin deleting
        /\ me' = me \/ me' = NoCopy
    BY <1>4 DEF getPasswordFromSecret, ConfigureInstance, Abort, Return,
       Finish, Goto, api, caches, bounds, deleting
  <2>. QED
    BY <2>1, OrderKept, Nothing
<1>5. CASE DropFromInstances
  <2>1. UNCHANGED <<user, ucache, uids, me>> /\ pc = "drop"
    BY <1>5 DEF DropFromInstances, api, caches, bounds
  <2>. QED
    BY <2>1, OrderKept DEF deleting
<1>6. CASE Start \/ SyncUser
  BY <1>6, OrderCopies
<1>7. CASE \/ \E s \in UserSpecs : CreateUser(s) \/ EditUser(s)
           \/ DeleteUser
  BY <1>7, OrderOutside
<1>8. CASE \/ RemoveSecret \/ CollectSecret \/ SyncCluster \/ Tick
           \/ \E o \in [owner : {0}, pw : Passwords] \cup {Nil} : ProvideSecret(o)
           \/ \E k \in Sources : SyncSecret(k)
           \/ \E c \in Statuses \cup {Nil} : ChangeCluster(c)
           \/ \E n \in Names : Unreachable(n) \/ Reachable(n)
           \/ UNCHANGED vars
  <2>1. UNCHANGED <<user, ucache, uids, me, pc>>
    BY <1>8 DEF RemoveSecret, CollectSecret, SyncCluster, Tick, ProvideSecret, SyncSecret,
       ChangeCluster, Unreachable, Reachable, vars, api, caches, progress, bounds
  <2>. QED
    BY <2>1 DEF IInv, OrderInv
<1>. QED
  BY <1>1, <1>2, <1>3, <1>4, <1>5, <1>6, <1>7, <1>8 DEF Next, Reconcile, People, World

(* The invariant is inductive.                                             *)
LEMMA Inductive == IInv /\ [Next]_vars => IInv'
<1> SUFFICES ASSUME IInv, [Next]_vars PROVE IInv'
  OBVIOUS
<1>0. OrderInv'
  BY OrderNext
<1>1. CASE Reconcile
  BY <1>0, <1>1, StartInv, EndsInv, GetClusterInv, PasswordInv, ReadInv, InstanceInv, DropInv
  DEF Reconcile, IInv, Facts
<1>2. CASE Abort
  BY <1>0, <1>2, AbortInv DEF IInv, Facts
<1>3. CASE People
  BY <1>0, <1>3, OutsideInv, SurroundingsInv DEF People, IInv, Facts
<1>4. CASE World
  BY <1>0, <1>4, SyncUserInv, SurroundingsInv DEF World, IInv, Facts
<1>5. CASE UNCHANGED vars
  BY <1>0, <1>5, SurroundingsInv DEF IInv, Facts
<1>. QED
  BY <1>1, <1>2, <1>3, <1>4, <1>5 DEF Next

(* What a round, its copy of the user and the roles have to do with each   *)
(* other holds at all times, whatever fails and whatever is edited.        *)
THEOREM Safety == Spec => []IInv
BY InitIInv, Inductive, PTL DEF Spec

(* Every variable keeps its type.                                          *)
THEOREM TypeCorrect == Spec => []TypeOK
<1>1. IInv => TypeOK
  BY DEF IInv
<1>. QED
  BY <1>1, Safety, PTL

-----------------------------------------------------------------------------
(* What follows from it.                                                   *)

(* Only reconcilePasswordSecret stores a generated password, and only when *)
(* its copy of the user says that it is due.                               *)
LEMMA Rotation ==
    ASSUME IInv, [Next]_vars, secret'["generated"] \notin {Nil, secret["generated"]}
    PROVE  pc = "password" /\ shouldRotatePassword(me.obj)
<1>1. CASE reconcilePasswordSecret
  <2>1. pc = "password"
    BY <1>1 DEF reconcilePasswordSecret
  <2>2. me.obj.spec.source \in {"given", "generated", "none"}
    BY <2>1, MeType, UserSpecsAssumption DEF IInv, UserSpec
  <2>. QED
    BY <1>1, <2>1, <2>2 DEF reconcilePasswordSecret, PasswordFails, PasswordStands
<1>2. CASE RemoveSecret \/ CollectSecret
  BY <1>2, PutSecretType DEF RemoveSecret, CollectSecret, PutSecret, IInv, TypeOK, Sources
<1>3. CASE \E o \in [owner : {0}, pw : Passwords] \cup {Nil} : ProvideSecret(o)
  BY <1>3 DEF ProvideSecret, PutSecret
<1>4. CASE \/ Start \/ AddFinalizer \/ GetCluster \/ ReportError \/ getPasswordFromSecret
           \/ ConfigureInstance \/ FinalStatus \/ DropFromInstances \/ RemoveFinalizer
  BY <1>4 DEF Start, AddFinalizer, GetCluster, ReportError, getPasswordFromSecret,
     ConfigureInstance, FinalStatus, DropFromInstances, RemoveFinalizer, api
<1>5. CASE \/ Abort \/ SyncUser \/ SyncCluster \/ Tick \/ UNCHANGED vars
           \/ \E k \in Sources : SyncSecret(k)
           \/ \E c \in Statuses \cup {Nil} : ChangeCluster(c)
           \/ \E n \in Names : Unreachable(n) \/ Reachable(n)
  BY <1>5 DEF Abort, SyncUser, SyncCluster, Tick, SyncSecret, ChangeCluster,
     Unreachable, Reachable, api, vars
<1>6. CASE \/ \E s \in UserSpecs : CreateUser(s) \/ EditUser(s)
           \/ DeleteUser
  BY <1>6 DEF CreateUser, EditUser, DeleteUser, PutUserOutside
<1>. QED
  BY <1>1, <1>2, <1>3, <1>4, <1>5, <1>6 DEF Next, Reconcile, People, World

(* Only a status write changes the status of a user.                       *)
LEMMA StatusChange ==
    ASSUME IInv, [Next]_vars, user # Nil, user' # Nil
    PROVE  \/ user'.status = user.status
           \/ AddFinalizer \/ ReportError \/ FinalStatus \/ RemoveFinalizer \/ GetCluster
<1>1. CASE \/ Start \/ reconcilePasswordSecret \/ getPasswordFromSecret
           \/ ConfigureInstance \/ DropFromInstances
  BY <1>1 DEF Start, reconcilePasswordSecret, getPasswordFromSecret, ConfigureInstance,
     DropFromInstances, api
<1>2. CASE \/ Abort \/ SyncUser \/ SyncCluster \/ Tick \/ UNCHANGED vars
           \/ RemoveSecret \/ CollectSecret
           \/ \E o \in [owner : {0}, pw : Passwords] \cup {Nil} : ProvideSecret(o)
           \/ \E k \in Sources : SyncSecret(k)
           \/ \E c \in Statuses \cup {Nil} : ChangeCluster(c)
           \/ \E n \in Names : Unreachable(n) \/ Reachable(n)
  BY <1>2 DEF Abort, SyncUser, SyncCluster, Tick, RemoveSecret,
     CollectSecret, ProvideSecret, SyncSecret, ChangeCluster, Unreachable, Reachable, api,
     vars
<1>3. CASE \/ \E s \in UserSpecs : CreateUser(s) \/ EditUser(s)
           \/ DeleteUser
  <2>1. PICK o \in User \cup {Nil} :
            /\ PutUserOutside(o)
            /\ \/ user = Nil
               \/ o.status = user.status
               \/ o = Nil
    BY <1>3, Outside DEF IInv
  <2>2. user' = o
    BY <2>1 DEF PutUserOutside, PutUser
  <2>. QED
    BY <2>1, <2>2
<1>. QED
  BY <1>1, <1>2, <1>3 DEF Next, Reconcile, People, World

(* A recorded change is not forgotten or set back.                         *)
LEMMA Remembered ==
    ASSUME IInv, [Next]_vars, user # Nil, user.status.last # Nil, user' # Nil
    PROVE  user'.status.last \in user.status.last .. clock
<1>1. user.status.last \in Nat /\ clock \in Nat /\ user.status.last <= clock
  BY UserType, Numbers DEF IInv, TypeOK, TimeInv
<1>2. CASE user'.status = user.status
  BY <1>1, <1>2
<1>3. CASE GetCluster /\ pc' # "idle"
  BY <1>1, <1>3, FirstWrite
<1>4. CASE /\ user' # user
           /\ \/ AddFinalizer \/ ReportError \/ FinalStatus \/ RemoveFinalizer
              \/ GetCluster /\ pc' = "idle"
  <2>1. /\ user'.status.last = me.obj.status.last
        /\ pc \in working \/ me.obj = user
    BY <1>4, Ends
  <2>2. CASE me.obj = user
    BY <1>1, <2>1, <2>2
  <2>3. CASE pc \in working
    <3>1. pc # "idle"
      BY <2>3 DEF working
    <3>2. me.obj.status.last # Nil /\ me.obj.status.last >= user.status.last
      BY <2>3 DEF IInv, RoundInv
    <3>3. me.obj.status.last \in Nat /\ me.obj.status.last <= clock
      BY <3>1, <3>2, MeType, Numbers DEF IInv, TimeInv
    <3>. QED
      BY <1>1, <2>1, <3>2, <3>3
  <2>. QED
    BY <2>1, <2>2, <2>3
<1>. QED
  BY <1>2, <1>3, <1>4, StatusChange

(* A password that exists is replaced only when the user on the server has *)
(* no recorded change or its interval has elapsed, and a recorded change   *)
(* is never forgotten or set back.                                         *)
THEOREM RotatesOnlyWhenDue == Spec => RotatesWhenDue
<1> DEFINE Due ==
        /\ secret["generated"] # Nil /\ secret'["generated"] \notin {Nil, secret["generated"]} =>
               user # Nil /\ (user.status.last = Nil \/ due(user.status.last))
        /\ user # Nil /\ user.status.last # Nil /\ user' # Nil =>
               user'.status.last \in user.status.last .. clock
<1>1. IInv /\ [Next]_vars => Due
  <2>1. ASSUME IInv, [Next]_vars, secret'["generated"] \notin {Nil, secret["generated"]}
        PROVE  user # Nil /\ (user.status.last = Nil \/ due(user.status.last))
    <3>1. pc = "password" /\ shouldRotatePassword(me.obj)
      BY <2>1, Rotation
    <3>2. user # Nil /\ me.obj.status.last = user.status.last
      BY <2>1, <3>1 DEF IInv, RoundInv, working
    <3>. QED
      BY <3>1, <3>2 DEF shouldRotatePassword
  <2>. QED
    BY <2>1, Remembered
<1>. QED
  BY <1>1, Safety, PTL DEF RotatesWhenDue, Spec

(* The results of a round without error are those of all targets.          *)
LEMMA Reported ==
    ASSUME IInv, FinalStatus, local.error = Nil, local.targets # <<>>, me.fresh
    PROVE  /\ namesOf(local.results)
                  = getTargetInstances(user.spec.selector, local.cluster)
           /\ local.results # <<>>
           /\ \E pw \in Passwords : \A i \in DOMAIN local.results :
                 roles[local.results[i].name] = pw
<1>1. pc = "final"
  BY DEF FinalStatus
<1>2. local.results \in Seq(Results) /\ local.targets \in Seq(Names)
  BY DEF IInv, TypeOK, Local
<1>3. /\ local.targets = getTargetInstances(me.obj.spec.selector, local.cluster)
      /\ Len(local.results) = Len(local.targets) /\ local.password \in Passwords
      /\ \A i \in 1 .. Len(local.results) :
            /\ local.results[i].name = local.targets[i]
            /\ roles[local.targets[i]] = local.password
  BY <1>1 DEF IInv, ResultsInv
<1>4. me.obj.spec = user.spec
  <2>1. me.obj \in User /\ user = [me.obj EXCEPT !.status.last = user.status.last]
    BY <1>1, MeType DEF IInv, FreshInv
  <2>. QED
    BY <2>1 DEF User
<1>5. DOMAIN local.results = 1 .. Len(local.results)
  BY <1>2, LenProperties
<1>6. local.targets = [i \in 1 .. Len(local.targets) |-> local.targets[i]]
  BY <1>2, LenProperties
<1>7. namesOf(local.results) = local.targets
  BY <1>3, <1>5, <1>6 DEF namesOf
<1>8. local.results # <<>>
  <2>1. Len(local.targets) # 0
    BY <1>2, EmptySeq
  <2>2. Len(<<>>) = 0
    OBVIOUS
  <2>. QED
    BY <1>3, <2>1, <2>2
<1>. QED
  BY <1>3, <1>4, <1>5, <1>7, <1>8

(* When the status turns Ready, the instances that it lists are those that *)
(* the specification selects, and all of them have the same password.      *)
THEOREM ReadyMeansConfigured == Spec => ReadyIsConfigured
<1> DEFINE Ready ==
        user # Nil /\ user' # Nil /\ user.status.phase # "Ready"
         /\ user'.status.phase = "Ready" /\ local.targets # <<>> =>
         /\ namesOf(user'.status.instances)
                = getTargetInstances(user.spec.selector, local.cluster)
         /\ \E pw \in Passwords : \A i \in DOMAIN user'.status.instances :
               roles[user'.status.instances[i].name] = pw
<1>1. IInv /\ [Next]_vars => Ready
  <2>1. SUFFICES ASSUME IInv, [Next]_vars, user # Nil, user' # Nil,
                        user.status.phase # "Ready", user'.status.phase = "Ready",
                        local.targets # <<>>
                 PROVE  /\ namesOf(user'.status.instances)
                               = getTargetInstances(user.spec.selector, local.cluster)
                        /\ \E pw \in Passwords : \A i \in DOMAIN user'.status.instances :
                              roles[user'.status.instances[i].name] = pw
    OBVIOUS
  <2>2. FinalStatus /\ local.error = Nil
    <3>1. ~(GetCluster /\ pc' # "idle")
      BY <2>1, FirstWrite
    <3>2. \/ AddFinalizer \/ ReportError \/ FinalStatus \/ RemoveFinalizer
          \/ GetCluster /\ pc' = "idle"
      BY <2>1, <3>1, StatusChange
    <3>. QED
      BY <2>1, <3>2, Ends
  <2>3. me.fresh
    BY <2>1, <2>2 DEF FinalStatus
  <2> DEFINE st == [phase |-> IF local.error = Nil THEN "Ready" ELSE "Failed",
                    error |-> local.error, instances |-> local.results,
                    last |-> me.obj.status.last]
  <2>4. updateStatus(st, me.obj.status)
    BY <2>2, <2>3 DEF FinalStatus
  <2>5. st \in Status /\ me.obj.status \in Status
    <3>1. pc # "idle"
      BY <2>2 DEF FinalStatus
    <3>. QED
      BY <2>1, <3>1, MeType DEF IInv, TypeOK, Local, Status
  <2>6. st.instances = local.results
    OBVIOUS
  <2> HIDE DEF st
  <2>7. user'.status = preserved(st, me.obj.status)
    BY <2>1, <2>4, <2>5, StatusWrite DEF IInv
  <2>8. /\ namesOf(local.results) = getTargetInstances(user.spec.selector, local.cluster)
        /\ local.results # <<>>
        /\ \E pw \in Passwords : \A i \in DOMAIN local.results :
              roles[local.results[i].name] = pw
    BY <2>1, <2>2, <2>3, Reported
  <2>9. user'.status.instances = local.results
    BY <2>5, <2>6, <2>7, <2>8, PreservedType
  <2>. QED
    BY <2>8, <2>9
<1>. QED
  BY <1>1, Safety, PTL DEF ReadyIsConfigured, Spec

-----------------------------------------------------------------------------
(* Nothing is forgotten.                                                   *)

(* Secrets, the cluster, the instances and the clock leave alone the user, *)
(* the round in progress and what is queued.                               *)
LEMMA SurroundingsChange ==
    ASSUME IInv,
           \/ RemoveSecret \/ CollectSecret \/ SyncCluster \/ Tick
           \/ \E o \in [owner : {0}, pw : Passwords] \cup {Nil} : ProvideSecret(o)
           \/ \E k \in Sources : SyncSecret(k)
           \/ \E c \in Statuses \cup {Nil} : ChangeCluster(c)
           \/ \E n \in Names : Unreachable(n) \/ Reachable(n)
           \/ UNCHANGED vars
    PROVE  UNCHANGED <<user, ucache, pc, roles>> /\ (queued => queued')
<1>1. CASE RemoveSecret \/ CollectSecret \/ SyncCluster \/ Tick \/ UNCHANGED vars
  BY <1>1 DEF RemoveSecret, CollectSecret, SyncCluster, Tick, vars, api, caches, database,
     progress
<1>2. CASE \E o \in [owner : {0}, pw : Passwords] \cup {Nil} : ProvideSecret(o)
  BY <1>2 DEF ProvideSecret, database, progress
<1>3. CASE \E k \in Sources : SyncSecret(k)
  <2>1. UNCHANGED <<user, ucache, pc, roles>>
    BY <1>3 DEF SyncSecret, api, database
  <2>2. \E k \in Sources : queued' = (queued \/ k = "generated")
    BY <1>3 DEF SyncSecret
  <2>. QED
    BY <2>1, <2>2
<1>4. CASE \/ \E c \in Statuses \cup {Nil} : ChangeCluster(c)
           \/ \E n \in Names : Unreachable(n) \/ Reachable(n)
  BY <1>4 DEF ChangeCluster, Unreachable, Reachable, api, caches, database, progress
<1>. QED
  BY <1>1, <1>2, <1>3, <1>4

(* As long as a user exists, a round is under way, or one is queued, or    *)
(* the cache has yet to show its last change, which queues one.            *)
LEMMA NothingForgottenNext ==
    ASSUME IInv, NothingForgotten, [Next]_vars
    PROVE  NothingForgotten'
<1>1. CASE AddFinalizer \/ ReportError \/ FinalStatus \/ ConfigureInstance \/ Abort
           \/ GetCluster
  BY <1>1 DEF AddFinalizer, ReportError, FinalStatus, ConfigureInstance, Abort, GetCluster,
     Return, Goto, Finish, NothingForgotten
<1>2. CASE RemoveFinalizer
  BY <1>2 DEF RemoveFinalizer, Return, PutUser, NothingForgotten
<1>3. CASE Start
  <2>1. ucache.fresh => ucache.obj = user
    BY DEF IInv, FreshInv
  <2>. QED
    BY <1>3, <2>1 DEF Start, api, caches, NothingForgotten
<1>4. CASE reconcilePasswordSecret
  <2>1. me.obj.spec.source \in {"given", "generated", "none"}
    BY <1>4, MeType, UserSpecsAssumption DEF reconcilePasswordSecret, IInv, UserSpec
  <2>. QED
    BY <1>4, <2>1 DEF reconcilePasswordSecret, RotatePassword, PasswordFails,
       PasswordStands, Goto, NothingForgotten
<1>5. CASE getPasswordFromSecret \/ DropFromInstances
  BY <1>5 DEF getPasswordFromSecret, DropFromInstances, Finish, Goto,
     NothingForgotten
<1>6. CASE SyncUser
  BY <1>6 DEF SyncUser, NothingForgotten
<1>7. CASE \/ \E s \in UserSpecs : CreateUser(s) \/ EditUser(s)
           \/ DeleteUser
  <2>1. PICK o \in User \cup {Nil} : PutUserOutside(o) /\ o # user
    BY <1>7, Outside DEF IInv
  <2>2. PutUser(o)
    BY <2>1 DEF PutUserOutside
  <2>3. ~ucache'.fresh
    BY <2>1, <2>2, PutUserType DEF IInv
  <2>. QED
    BY <2>3 DEF NothingForgotten
<1>8. CASE \/ RemoveSecret \/ CollectSecret \/ SyncCluster \/ Tick
           \/ \E o \in [owner : {0}, pw : Passwords] \cup {Nil} : ProvideSecret(o)
           \/ \E k \in Sources : SyncSecret(k)
           \/ \E c \in Statuses \cup {Nil} : ChangeCluster(c)
           \/ \E n \in Names : Unreachable(n) \/ Reachable(n)
           \/ UNCHANGED vars
  BY <1>8, SurroundingsChange DEF NothingForgotten
<1>. QED
  BY <1>1, <1>2, <1>3, <1>4, <1>5, <1>6, <1>7, <1>8 DEF Next, Reconcile, People, World

(* No conflict, error, panic, failed call or restart and no missing        *)
(* cluster, Secret or instance ends the work on a user that exists.        *)
THEOREM ForgetsNothing == Spec => []NothingForgotten
<1>1. Init => NothingForgotten
  BY DEF Init, NothingForgotten
<1>2. IInv /\ NothingForgotten /\ [Next]_vars => NothingForgotten'
  BY NothingForgottenNext
<1>. QED
  BY <1>1, <1>2, Safety, PTL DEF Spec

-----------------------------------------------------------------------------
(* The life cycle of a role.                                               *)

(* A user that is being worked on is bound to be cleaned up after.         *)
LEMMA Bound == ASSUME IInv, pc \in working PROVE Lifecycle!bound
BY DEF IInv, RoundInv, Lifecycle!bound

(* In the beginning there is neither a user nor a role.                    *)
LEMMA LifecycleInit == Init => Lifecycle!Init
BY DEF Init, Lifecycle!Init, Sources

(* The end of a round adopts the user, releases it, or records when its    *)
(* password was changed.                                                   *)
LEMMA LifecycleEnds ==
    ASSUME IInv, [Next]_vars,
           \/ AddFinalizer \/ ReportError \/ FinalStatus \/ RemoveFinalizer
           \/ GetCluster /\ pc' = "idle"
    PROVE  [Lifecycle!Next]_(Lifecycle!vars)
<1>0. UNCHANGED <<clock, secret, roles>>
  BY Ends
<1>1. CASE user' = user
  BY <1>0, <1>1 DEF Lifecycle!vars
<1>2. CASE user' = Nil /\ user # Nil /\ user.del
  <2>1. Lifecycle!Disappear
    BY <1>0, <1>2 DEF Lifecycle!Disappear
  <2>. QED
    BY <2>1 DEF Lifecycle!Next
<1>3. CASE /\ user # Nil /\ ~user.fin /\ ~user.del
           /\ user' \in User /\ user'.fin /\ ~user'.del /\ user'.status = user.status
  <2>1. Lifecycle!Adopt
    BY <1>0, <1>3, Objects DEF Lifecycle!Adopt
  <2>. QED
    BY <2>1 DEF Lifecycle!Next
<1>4. CASE /\ user # Nil /\ user.fin /\ ~user.del
           /\ user' # user /\ user' \in User /\ user'.fin /\ ~user'.del
  <2> DEFINE t == user'.status.last
  <2>1. user' # Nil /\ t = me.obj.status.last
    BY <1>4, Ends, Objects
  <2>2. CASE t = user.status.last
    BY <1>0, <1>4, <2>1, <2>2 DEF Lifecycle!vars
  <2>3. CASE t # user.status.last
    <3>1. t # Nil
      BY <1>4, <2>1, <2>3, Ends
    <3>2. t \in 0 .. clock
      <4>1. me.obj # Nil
        BY MeType DEF IInv, AddFinalizer, ReportError, FinalStatus, RemoveFinalizer,
           GetCluster
      <4>2. t \in Nat /\ clock \in Nat
        BY <2>1, <3>1, MeType, Numbers DEF IInv, TypeOK, AddFinalizer, ReportError,
           FinalStatus, RemoveFinalizer, GetCluster
      <4>3. t <= clock
        BY <2>1, <3>1, <4>1 DEF IInv, TimeInv
      <4>. QED
        BY <4>2, <4>3
    <3>3. user.status.last # Nil => user.status.last <= t
      BY <1>4, <2>1, Remembered, UserType, Numbers DEF IInv, TypeOK
    <3>4. Lifecycle!RecordChange(t)
      BY <1>0, <1>4, <2>1, <3>3 DEF Lifecycle!RecordChange
    <3>. QED
      BY <3>2, <3>4 DEF Lifecycle!Next
  <2>. QED
    BY <2>2, <2>3
<1>. QED
  BY <1>1, <1>2, <1>3, <1>4, EndsWrite

(* A generated password is replaced for a user that is in use, when its    *)
(* change is due.                                                          *)
LEMMA LifecyclePassword ==
    ASSUME IInv, reconcilePasswordSecret
    PROVE  [Lifecycle!Next]_(Lifecycle!vars)
<1>0. UNCHANGED <<user, clock, roles>> /\ pc = "password"
  BY DEF reconcilePasswordSecret, database, bounds
<1>1. me.obj.spec.source \in {"given", "generated", "none"}
  BY <1>0, MeType, UserSpecsAssumption DEF IInv, UserSpec
<1>2. CASE UNCHANGED secret
  BY <1>0, <1>2 DEF Lifecycle!vars
<1>3. CASE secret' # secret
  <2>1. /\ shouldRotatePassword(me.obj)
        /\ \E pw \in Passwords : RotatePassword(pw)
    BY <1>1, <1>3 DEF reconcilePasswordSecret, PasswordFails, PasswordStands
  <2>2. PICK pw \in Passwords, w \in 0 .. MaxUid :
            PutSecret("generated", [owner |-> w, pw |-> pw])
    <3> DEFINE cur == scache["generated"]
    <3>1. me.obj.uid \in 0 .. MaxUid
      BY <1>0, MeType, Numbers DEF IInv, User
    <3>2. cur.obj # Nil => cur.obj.owner \in 0 .. MaxUid
      BY Objects DEF IInv, TypeOK, Sources, CopyOf, SecretObject
    <3>. QED
      BY <1>3, <2>1, <3>1, <3>2 DEF RotatePassword, PasswordFails
  <2>3. secret'["generated"] = [owner |-> w, pw |-> pw]
    BY <2>2 DEF PutSecret, IInv, TypeOK, Sources
  <2>4. secret'["generated"] # Nil
    BY <2>3, Objects DEF SecretObject
  <2>5. user # Nil /\ me.obj.status.last = user.status.last
    BY <1>0 DEF IInv, RoundInv, working
  <2>6. user.status.last = Nil \/ clock - user.status.last >= 1
    BY <2>1, <2>5 DEF shouldRotatePassword, due
  <2>7. Lifecycle!bound
    BY <1>0, Bound DEF working
  <2>8. Lifecycle!ReplacePassword(pw)
    BY <1>0, <2>3, <2>4, <2>5, <2>6, <2>7 DEF Lifecycle!ReplacePassword
  <2>. QED
    BY <2>8 DEF Lifecycle!Next
<1>. QED
  BY <1>2, <1>3

(* A role is set up for a user that is in use, and dropped only for one    *)
(* that is not.                                                            *)
LEMMA LifecycleRoles ==
    ASSUME IInv, ConfigureInstance \/ DropFromInstances
    PROVE  [Lifecycle!Next]_(Lifecycle!vars)
<1>0. UNCHANGED <<user, clock, secret>>
  BY DEF ConfigureInstance, DropFromInstances, api, bounds
<1>1. CASE UNCHANGED roles
  BY <1>0, <1>1 DEF Lifecycle!vars
<1>2. CASE roles' # roles /\ ConfigureInstance
  <2>1. pc = "instance" /\ roles' = [roles EXCEPT ![local.targets[idx]] = local.password]
    BY <1>2 DEF ConfigureInstance, CreateOrUpdateUser
  <2>2. /\ local.targets[idx] \in Names /\ local.password \in Passwords
    <3>1. local.targets \in Seq(Names) /\ idx \in 1 .. Len(local.targets)
      BY <2>1 DEF IInv, TypeOK, Local, StepInv
    <3>. QED
      BY <2>1, <3>1, ElementOfSeq DEF IInv, StepInv
  <2>3. Lifecycle!bound
    BY <2>1, Bound DEF working
  <2>4. Lifecycle!Grant(local.targets[idx], local.password)
    BY <1>0, <2>1, <2>3 DEF Lifecycle!Grant
  <2>. QED
    BY <2>2, <2>4 DEF Lifecycle!Next
<1>3. CASE roles' # roles /\ DropFromInstances
  <2>1. PICK n : roles' = [roles EXCEPT ![n] = Nil]
    BY <1>3 DEF DropFromInstances, DropUser
  <2>2. n \in Names
    BY <1>3, <2>1 DEF IInv, TypeOK
  <2>3. user # Nil /\ user.fin => user.del
    <3>1. me.obj # Nil /\ me.obj.del /\ pc \in deleting
      BY <1>3, MeType DEF DropFromInstances, IInv, StepInv, deleting
    <3>. QED
      BY <3>1 DEF IInv, OrderInv
  <2>4. Lifecycle!Drop(n)
    BY <1>0, <2>1, <2>3 DEF Lifecycle!Drop
  <2>. QED
    BY <2>2, <2>4 DEF Lifecycle!Next
<1>. QED
  BY <1>1, <1>2, <1>3

(* What people make of a user.                                             *)
LEMMA LifecycleOutside ==
    ASSUME IInv,
           \/ \E s \in UserSpecs : CreateUser(s) \/ EditUser(s)
           \/ DeleteUser
    PROVE  [Lifecycle!Next]_(Lifecycle!vars)
<1>0. UNCHANGED <<clock, secret, roles>> /\ (user # Nil => user \in User)
  BY UserType DEF CreateUser, EditUser, DeleteUser, PutUserOutside, database, bounds, IInv
<1>1. CASE \E s \in UserSpecs : CreateUser(s)
  <2>1. /\ user = Nil /\ user' # Nil /\ ~user'.fin /\ ~user'.del
        /\ user'.status.last = Nil
    <3>1. PICK s \in UserSpecs : CreateUser(s)
      BY <1>1
    <3> DEFINE o == [uid |-> uids + 1, del |-> FALSE, fin |-> FALSE, spec |-> s,
                     status |-> NoStatus]
    <3>2. user = Nil /\ user' = o /\ uids < MaxUid
      BY <3>1 DEF CreateUser, PutUserOutside, PutUser
    <3>3. o \in User /\ o.status.last = Nil
      BY <3>2, Counting, FailureType DEF User, IInv
    <3>. QED
      BY <3>2, <3>3, Objects
  <2>2. Lifecycle!Create
    BY <1>0, <2>1 DEF Lifecycle!Create
  <2>. QED
    BY <2>2 DEF Lifecycle!Next
<1>2. CASE \E s \in UserSpecs : EditUser(s)
  <2>1. PICK s \in UserSpecs : EditUser(s)
    BY <1>2
  <2>2. user # Nil /\ user' = [user EXCEPT !.spec = s]
    BY <2>1 DEF EditUser, PutUserOutside, PutUser
  <2>3. /\ user' # Nil /\ user'.fin = user.fin /\ user'.del = user.del
        /\ user'.status = user.status
    BY <1>0, <2>2, WriteType, Objects
  <2>. QED
    BY <1>0, <2>2, <2>3 DEF Lifecycle!vars
<1>3. CASE DeleteUser
  <2>1. /\ user # Nil /\ ~user.del
        /\ user' = IF user.fin THEN [user EXCEPT !.del = TRUE] ELSE Nil
    BY <1>3 DEF DeleteUser, PutUserOutside, PutUser
  <2>2. CASE user.fin
    <3>1. /\ user' # Nil /\ user'.fin = user.fin /\ user'.del
          /\ user'.status = user.status
      BY <1>0, <2>1, <2>2, WriteType, Objects
    <3>2. Lifecycle!RequestDeletion
      BY <1>0, <2>1, <2>2, <3>1 DEF Lifecycle!RequestDeletion
    <3>. QED
      BY <3>2 DEF Lifecycle!Next
  <2>3. CASE ~user.fin
    <3>1. Lifecycle!Disappear
      BY <1>0, <2>1, <2>3 DEF Lifecycle!Disappear
    <3>. QED
      BY <3>1 DEF Lifecycle!Next
  <2>. QED
    BY <2>2, <2>3
<1>. QED
  BY <1>1, <1>2, <1>3

(* Secrets, the cluster, the instances and the clock.                      *)
LEMMA LifecycleSurroundings ==
    ASSUME IInv,
           \/ RemoveSecret \/ CollectSecret \/ SyncCluster \/ Tick
           \/ \E o \in [owner : {0}, pw : Passwords] \cup {Nil} : ProvideSecret(o)
           \/ \E k \in Sources : SyncSecret(k)
           \/ \E c \in Statuses \cup {Nil} : ChangeCluster(c)
           \/ \E n \in Names : Unreachable(n) \/ Reachable(n)
           \/ UNCHANGED vars
    PROVE  [Lifecycle!Next]_(Lifecycle!vars)
<1>0. UNCHANGED <<user, roles>>
  BY SurroundingsChange
<1>1. CASE RemoveSecret \/ CollectSecret
  <2>1. UNCHANGED clock /\ PutSecret("generated", Nil)
    BY <1>1 DEF RemoveSecret, CollectSecret, bounds
  <2>2. secret'["generated"] = Nil
    BY <2>1 DEF PutSecret, IInv, TypeOK, Sources
  <2>3. Lifecycle!LosePassword
    BY <1>0, <2>1, <2>2 DEF Lifecycle!LosePassword
  <2>. QED
    BY <2>3 DEF Lifecycle!Next
<1>2. CASE Tick
  <2>1. Lifecycle!Elapse
    BY <1>0, <1>2 DEF Tick, api, Lifecycle!Elapse
  <2>. QED
    BY <2>1 DEF Lifecycle!Next
<1>3. CASE \E o \in [owner : {0}, pw : Passwords] \cup {Nil} : ProvideSecret(o)
  <2>1. UNCHANGED clock /\ secret'["generated"] = secret["generated"]
    BY <1>3 DEF ProvideSecret, PutSecret
  <2>. QED
    BY <1>0, <2>1 DEF Lifecycle!vars
<1>4. CASE \/ SyncCluster
           \/ \E k \in Sources : SyncSecret(k)
           \/ \E c \in Statuses \cup {Nil} : ChangeCluster(c)
           \/ \E n \in Names : Unreachable(n) \/ Reachable(n)
           \/ UNCHANGED vars
  <2>1. UNCHANGED <<clock, secret>>
    BY <1>4 DEF SyncCluster, SyncSecret, ChangeCluster, Unreachable, Reachable, vars, api,
       bounds
  <2>. QED
    BY <1>0, <2>1 DEF Lifecycle!vars
<1>. QED
  BY <1>1, <1>2, <1>3, <1>4

(* Every step of the controller is a step of the life cycle, or none.      *)
LEMMA LifecycleNext ==
    ASSUME IInv, [Next]_vars
    PROVE  [Lifecycle!Next]_(Lifecycle!vars)
<1>1. CASE \/ AddFinalizer \/ ReportError \/ FinalStatus \/ RemoveFinalizer
           \/ GetCluster /\ pc' = "idle"
  BY <1>1, LifecycleEnds
<1>2. CASE GetCluster /\ pc' # "idle"
  <2>1. /\ UNCHANGED <<clock, secret, roles>> /\ user # Nil /\ user' # Nil
        /\ user'.del = user.del /\ user'.fin = user.fin
        /\ user'.status.last = user.status.last
    BY <1>2, FirstWrite, Objects
  <2>. QED
    BY <2>1 DEF Lifecycle!vars
<1>3. CASE reconcilePasswordSecret
  BY <1>3, LifecyclePassword
<1>4. CASE ConfigureInstance \/ DropFromInstances
  BY <1>4, LifecycleRoles
<1>5. CASE Start \/ getPasswordFromSecret \/ Abort \/ SyncUser
  BY <1>5 DEF Start, getPasswordFromSecret, Abort, SyncUser, api, database, bounds,
     Lifecycle!vars
<1>6. CASE \/ \E s \in UserSpecs : CreateUser(s) \/ EditUser(s)
           \/ DeleteUser
  BY <1>6, LifecycleOutside
<1>7. CASE \/ RemoveSecret \/ CollectSecret \/ SyncCluster \/ Tick
           \/ \E o \in [owner : {0}, pw : Passwords] \cup {Nil} : ProvideSecret(o)
           \/ \E k \in Sources : SyncSecret(k)
           \/ \E c \in Statuses \cup {Nil} : ChangeCluster(c)
           \/ \E n \in Names : Unreachable(n) \/ Reachable(n)
           \/ UNCHANGED vars
  BY <1>7, LifecycleSurroundings
<1>. QED
  BY <1>1, <1>2, <1>3, <1>4, <1>5, <1>6, <1>7 DEF Next, Reconcile, People, World

(* Roles are set up and passwords are replaced only while a user is in     *)
(* use, by rounds that may lag behind; roles are never dropped from under  *)
(* a user that nobody deleted, not even by a round on an earlier one.      *)
THEOREM ImplementsRoleLifecycle == Spec => RolesHaveLifecycle
<1>1. Init => Lifecycle!Init
  BY LifecycleInit
<1>2. IInv /\ [Next]_vars => [Lifecycle!Next]_(Lifecycle!vars)
  BY LifecycleNext
<1>. QED
  BY <1>1, <1>2, Safety, PTL DEF Spec, RolesHaveLifecycle, Lifecycle!Spec
=============================================================================
