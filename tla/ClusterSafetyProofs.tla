------------------------ MODULE ClusterSafetyProofs ------------------------
(***************************************************************************)
(* The safety of ClusterController: the inductive invariant IInv and what  *)
(* follows from it.                                                        *)
(***************************************************************************)
EXTENDS ClusterControllerProofs

-----------------------------------------------------------------------------
(* Copies and writes.                                                      *)

(* A copy that is fresh after a write was fresh before it, and the write   *)
(* changed nothing.                                                        *)
LEMMA AfterFresh ==
    ASSUME NEW T, NEW c \in CopyOf(T), NEW old, NEW new
    PROVE  After(c, old, new).fresh => c.fresh /\ new = old
BY DEF After, CopyOf

LEMMA PutClusterFresh ==
    ASSUME TypeOK, FreshInv, NEW o, PutCluster(o)
    PROVE  /\ cluster' = o /\ ccache'.obj = ccache.obj
           /\ ccache'.fresh => ccache'.obj = cluster'
BY AfterFresh, AfterObj DEF TypeOK, FreshInv, PutCluster

LEMMA PutChildFresh ==
    ASSUME TypeOK, FreshInv, NEW k \in Keys, NEW o, PutChild(k, o)
    PROVE  /\ child'[k] = o
           /\ \A x \in Keys : x # k => child'[x] = child[x]
           /\ \A x \in Keys : kcache'[x].fresh => kcache'[x].obj = child'[x]
<1>1. \A x \in Keys : child'[x] = IF x = k THEN o ELSE child[x]
  BY DEF TypeOK, PutChild
<1>2. ASSUME NEW x \in Keys, kcache'[x].fresh
      PROVE  kcache'[x].obj = child'[x]
  <2>1. kcache[x] \in CopyOf(Child(x))
    BY DEF TypeOK
  <2>2. kcache'[x] = IF x = k THEN After(kcache[x], child[k], o) ELSE kcache[x]
    BY DEF TypeOK, PutChild
  <2>3. CASE x = k
    <3>1. kcache[k].fresh /\ o = child[k] /\ kcache'[k].obj = kcache[k].obj
      BY <1>2, <2>1, <2>2, <2>3, AfterFresh, AfterObj
    <3>. QED
      BY <1>1, <2>3, <3>1 DEF FreshInv
  <2>4. CASE x # k
    BY <1>1, <1>2, <2>2, <2>4 DEF FreshInv
  <2>. QED
    BY <2>3, <2>4
<1>. QED
  BY <1>1, <1>2

-----------------------------------------------------------------------------
(* The initial state.                                                      *)

LEMMA SafeInit == Init => IInv
<1> SUFFICES ASSUME Init PROVE IInv
  OBVIOUS
<1>1. TypeOK /\ StepInv
  BY TypeInit
<1>2. FreshInv /\ UidInv /\ CopyInv
  BY DEF Init, FreshInv, UidInv, CopyInv, Copy, NoCopy
<1>3. ReconcileInv /\ DeletedInv
  BY DEF Init, ReconcileInv, DeletedInv, createSteps, deleteSteps
<1>4. NothingInherited /\ CredentialsOpenData
  BY KeyFacts DEF Init, NothingInherited, CredentialsOpenData
<1>. QED
  BY <1>1, <1>2, <1>3, <1>4 DEF IInv

-----------------------------------------------------------------------------
(* Steps that return without a write.                                      *)

(* Once Reconcile is idle, what IInv says of its place holds vacuously.    *)
LEMMA IdleInv ==
    ASSUME pc' = "idle"
    PROVE  ReconcileInv' /\ DeletedInv'
BY DEF ReconcileInv, DeletedInv, createSteps, deleteSteps

LEMMA FailInv ==
    ASSUME IInv, TypeOK', Fail, UNCHANGED <<volumes, uids>>
    PROVE  IInv'
<1>1. /\ pc' = "idle" /\ me' = NoCopy
      /\ UNCHANGED <<cluster, child, ccache, kcache, volumes, uids>>
  BY DEF Fail, Return
<1>2. FreshInv' /\ UidInv' /\ CopyInv'
  BY <1>1 DEF IInv, FreshInv, UidInv, CopyInv, NoCopy
<1>3. NothingInherited' /\ CredentialsOpenData'
  BY <1>1 DEF IInv, NothingInherited, CredentialsOpenData
<1>. QED
  BY <1>1, <1>2, <1>3, IdleInv, IdleStep DEF IInv

-----------------------------------------------------------------------------
(* The children: creations and deletions by Reconcile.                     *)

(* The heart of the matter: reconcileSecret draws new passwords each time, *)
(* but writes them only where no data directory of this incarnation can    *)
(* exist, since an Update keeps the Data of a copy that is fresh.          *)
LEMMA CreateOrUpdateInv ==
    ASSUME IInv, TypeOK', StepInv', pc \in createSteps,
           NEW k \in Keys, NEW d \in DataOf(k[1]), NEW step \in createSteps, NEW j,
           CreateOrUpdate(k, d, step, j), UNCHANGED <<volumes, uids>>
    PROVE  IInv'
<1>1. CASE ~accepted(k, d)
  BY <1>1, FailInv DEF CreateOrUpdate
<1>2. CASE accepted(k, d)
  <2> DEFINE o == desired(k, d)
  <2>1. /\ PutChild(k, o) /\ pc' = step /\ me' = me
        /\ UNCHANGED <<cluster, ccache, volumes, uids>>
    BY <1>2 DEF CreateOrUpdate, Goto
  <2>2. me.obj \in Cluster
    BY StepFacts DEF IInv, createSteps
  <2>3. o \in Object(k) /\ o # Nil /\ o.owner = me.obj.uid
    BY <2>2, DesiredType, NilAssumption DEF IInv, desired
  <2>4. cluster # Nil /\ cluster.uid = me.obj.uid /\ cluster.fin
    BY DEF IInv, ReconcileInv
  <2>5. /\ child'[k] = o
        /\ \A x \in Keys : x # k => child'[x] = child[x]
        /\ \A x \in Keys : kcache'[x].fresh => kcache'[x].obj = child'[x]
    BY <2>1, PutChildFresh DEF IInv
  <2>6. FreshInv' /\ UidInv' /\ CopyInv'
    BY <2>1, <2>5 DEF IInv, FreshInv, UidInv, CopyInv
  <2>7. ReconcileInv' /\ DeletedInv'
    BY <2>1 DEF IInv, ReconcileInv, DeletedInv, createSteps, deleteSteps
  <2>8. NothingInherited'
    BY <2>1, <2>3, <2>4, <2>5, KeyFacts DEF IInv, NothingInherited
  <2>9. CredentialsOpenData'
    <3>1. CASE k # Secret
      BY <2>1, <2>5, <3>1, KeyFacts DEF IInv, CredentialsOpenData
    <3>2. CASE k = Secret /\ kcache[k].obj = Nil
      <4>1. child[Secret] = Nil
        BY <1>2, <3>2 DEF accepted
      <4>. QED
        BY <2>1, <4>1 DEF IInv, CredentialsOpenData
    <3>3. CASE k = Secret /\ kcache[k].obj # Nil
      <4>1. kcache[k].obj = child[Secret]
        BY <1>2, <3>3 DEF accepted, IInv, FreshInv
      <4>2. o.data = child[Secret].data
        BY <3>3, <4>1, KeyFacts DEF desired
      <4>3. child'[Secret] # Nil /\ child'[Secret].data = child[Secret].data
        BY <2>3, <2>5, <3>3, <4>2
      <4>. QED
        BY <2>1, <4>3 DEF IInv, CredentialsOpenData
    <3>. QED
      BY <3>1, <3>2, <3>3
  <2>. QED
    BY <2>6, <2>7, <2>8, <2>9 DEF IInv
<1>. QED
  BY <1>1, <1>2

(* A deletion by name hits a Secret only while the cluster is being        *)
(* deleted: an incarnation that has one is the incarnation of the copy.    *)
LEMMA DeleteInv ==
    ASSUME IInv, TypeOK', StepInv', pc \in deleteSteps,
           NEW k \in Keys, NEW step \in deleteSteps, NEW j,
           Delete(k, step, j), UNCHANGED <<volumes, uids>>, DeletedInv'
    PROVE  IInv'
<1>1. /\ PutChild(k, Nil) /\ pc' = step /\ me' = me
      /\ UNCHANGED <<cluster, ccache, volumes, uids>>
  BY DEF Delete, Goto
<1>2. /\ child'[k] = Nil
      /\ \A x \in Keys : x # k => child'[x] = child[x]
      /\ \A x \in Keys : kcache'[x].fresh => kcache'[x].obj = child'[x]
  BY <1>1, PutChildFresh DEF IInv
<1>3. FreshInv' /\ UidInv' /\ CopyInv'
  BY <1>1, <1>2 DEF IInv, FreshInv, UidInv, CopyInv
<1>4. ReconcileInv'
  BY <1>1 DEF IInv, ReconcileInv, createSteps, deleteSteps
<1>5. NothingInherited'
  BY <1>1, <1>2, KeyFacts DEF IInv, NothingInherited
<1>6. CredentialsOpenData'
  <2>1. CASE child[Secret] = Nil
    BY <1>1, <1>2, <2>1, KeyFacts DEF IInv, CredentialsOpenData
  <2>2. CASE child[Secret] # Nil
    <3>1. cluster # Nil /\ cluster.fin
      BY <2>2 DEF IInv, NothingInherited
    <3>2. me.obj # Nil /\ me.obj.del /\ cluster.uid = me.obj.uid
      BY <3>1 DEF IInv, ReconcileInv, StepInv, deleteSteps
    <3>3. cluster.del
      BY <3>1, <3>2 DEF IInv, CopyInv
    <3>. QED
      BY <1>1, <3>3 DEF CredentialsOpenData
  <2>. QED
    BY <2>1, <2>2
<1>. QED
  BY <1>3, <1>4, <1>5, <1>6 DEF IInv

-----------------------------------------------------------------------------
(* The cluster: writes by Reconcile.                                       *)

LEMMA StartInv ==
    ASSUME IInv, TypeOK', StepInv', Start
    PROVE  IInv'
<1>1. UNCHANGED <<cluster, child, volumes, ccache, kcache, uids>>
  BY DEF Start, server, bounds
<1>2. me' = me \/ me' = ccache
  BY DEF Start
<1>3. NothingInherited' /\ CredentialsOpenData'
  BY <1>1 DEF IInv, NothingInherited, CredentialsOpenData
<1>4. FreshInv' /\ UidInv' /\ CopyInv'
  BY <1>1, <1>2 DEF IInv, FreshInv, UidInv, CopyInv
<1>5. CASE ccache.obj = Nil
  <2>1. pc' = "idle"
    BY <1>5 DEF Start
  <2>. QED
    BY <1>3, <1>4, <2>1, IdleInv DEF IInv
<1>6. CASE ccache.obj # Nil
  <2>1. /\ me' = ccache /\ idx' = 1
        /\ pc' = IF ccache.obj.fin THEN dispatch(ccache.obj) ELSE "finalizer"
    BY <1>6 DEF Start
  <2>2. ccache.obj \in Cluster
    BY <1>6 DEF IInv, TypeOK, CopyOf
  <2>3. pc' \in createSteps => ccache.obj.fin /\ ~ccache.obj.del
    BY <2>1, <2>2 DEF dispatch, firstDelete, createSteps
  <2>4. pc' \in deleteSteps => ccache.obj.del /\ pc' = firstDelete(ccache.obj)
    BY <2>1, <2>2 DEF dispatch, deleteSteps
  <2>5. ReconcileInv'
    BY <1>1, <1>6, <2>1, <2>3, <2>4 DEF IInv, CopyInv, ReconcileInv
  <2>6. DeletedInv'
    <3>1. CASE pc' \in deleteSteps
      <4>1. \/ pc' = "delConfigMap" /\ me'.obj.spec.instances = <<>>
            \/ pc' = "delStatefulSet" /\ idx' = 1
        BY <2>1, <2>4, <3>1 DEF firstDelete
      <4>. QED
        BY <4>1 DEF DeletedInv
    <3>2. CASE pc' \notin deleteSteps
      BY <3>2 DEF DeletedInv, deleteSteps
    <3>. QED
      BY <3>1, <3>2
  <2>. QED
    BY <1>3, <1>4, <2>5, <2>6 DEF IInv
<1>. QED
  BY <1>5, <1>6

LEMMA AddFinalizerInv ==
    ASSUME IInv, TypeOK', StepInv', AddFinalizer
    PROVE  IInv'
<1>1. CASE ~(me.fresh /\ ~me.obj.del)
  BY <1>1, FailInv DEF AddFinalizer, bounds
<1>2. CASE me.fresh /\ ~me.obj.del
  <2> DEFINE o == [me.obj EXCEPT !.fin = TRUE]
  <2>1. /\ PutCluster(o) /\ me' = Copy(o) /\ pc' = dispatch(o)
        /\ UNCHANGED <<child, kcache, volumes, uids>>
    BY <1>2 DEF AddFinalizer, bounds
  <2>2. me.obj \in Cluster /\ me.obj # Nil /\ cluster = me.obj
    BY <1>2, StepFacts, NilAssumption DEF IInv, AddFinalizer, FreshInv
  <2>3. /\ o \in Cluster /\ o # Nil /\ o.uid = cluster.uid /\ o.fin
        /\ o.del = cluster.del /\ o.fg = cluster.fg /\ ~o.del
    BY <1>2, <2>2, NilAssumption DEF Cluster
  <2>4. /\ cluster' = o /\ ccache'.obj = ccache.obj
        /\ ccache'.fresh => ccache'.obj = cluster'
    BY <2>1, PutClusterFresh DEF IInv
  <2>5. me'.obj = o
    BY <2>1 DEF Copy
  <2>6. FreshInv'
    BY <2>1, <2>4, <2>5 DEF IInv, FreshInv
  <2>7. UidInv'
    BY <2>1, <2>2, <2>3, <2>4, <2>5 DEF IInv, UidInv
  <2>8. CopyInv'
    BY <2>2, <2>3, <2>4, <2>5 DEF IInv, CopyInv
  <2>9. pc' \notin deleteSteps
    BY <2>1, <2>3 DEF dispatch, deleteSteps
  <2>10. ReconcileInv' /\ DeletedInv'
    BY <2>3, <2>4, <2>5, <2>9 DEF ReconcileInv, DeletedInv, deleteSteps
  <2>11. NothingInherited'
    BY <2>1, <2>2, <2>3, <2>4 DEF IInv, NothingInherited
  <2>12. CredentialsOpenData'
    BY <2>1, <2>2, <2>3, <2>4 DEF IInv, CredentialsOpenData
  <2>. QED
    BY <2>6, <2>7, <2>8, <2>10, <2>11, <2>12 DEF IInv
<1>. QED
  BY <1>1, <1>2

(* A write from a fresh copy that keeps the metadata.                      *)
LEMMA LastWriteInv ==
    ASSUME IInv, TypeOK', NEW o \in Cluster, NEW q, me.obj \in Cluster, me.fresh,
           PutCluster(o), Return(q), UNCHANGED <<child, kcache, volumes, uids>>,
           o.uid = me.obj.uid, o.del = me.obj.del, o.fin = me.obj.fin, o.fg = me.obj.fg
    PROVE  IInv'
<1>1. cluster = me.obj /\ o # Nil /\ cluster # Nil
  BY NilAssumption DEF IInv, FreshInv
<1>2. /\ cluster' = o /\ ccache'.obj = ccache.obj
      /\ ccache'.fresh => ccache'.obj = cluster'
  BY PutClusterFresh DEF IInv
<1>3. me' = NoCopy /\ pc' = "idle"
  BY DEF Return
<1>4. FreshInv'
  BY <1>2, <1>3 DEF IInv, FreshInv, NoCopy
<1>5. UidInv' /\ CopyInv'
  BY <1>1, <1>2, <1>3 DEF IInv, UidInv, CopyInv, NoCopy
<1>6. NothingInherited' /\ CredentialsOpenData'
  BY <1>1, <1>2 DEF IInv, NothingInherited, CredentialsOpenData
<1>. QED
  BY <1>3, <1>4, <1>5, <1>6, IdleInv, IdleStep DEF IInv

LEMMA DefaultInstanceInv ==
    ASSUME IInv, TypeOK', DefaultInstance
    PROVE  IInv'
<1>1. CASE ~me.fresh
  BY <1>1, FailInv DEF DefaultInstance, bounds
<1>2. CASE me.fresh
  <2> DEFINE o == [me.obj EXCEPT !.spec = withDefaultInstance(@)]
  <2>1. me.obj \in Cluster /\ me.obj.spec \in ClusterSpec
    BY StepFacts DEF IInv, DefaultInstance
  <2>2. /\ o \in Cluster /\ o.uid = me.obj.uid /\ o.del = me.obj.del
        /\ o.fin = me.obj.fin /\ o.fg = me.obj.fg
    BY <2>1, DefaultInstanceType DEF Cluster
  <2>3. PutCluster(o) /\ Return(TRUE) /\ UNCHANGED <<child, kcache, volumes, uids>>
    BY <1>2 DEF DefaultInstance, bounds
  <2> HIDE DEF o
  <2>. QED
    BY <1>2, <2>1, <2>2, <2>3, LastWriteInv
<1>. QED
  BY <1>1, <1>2

LEMMA UpdateStatusInv ==
    ASSUME IInv, TypeOK', updateStatus
    PROVE  IInv'
<1>1. CASE ~me.fresh
  BY <1>1, FailInv DEF updateStatus, bounds
<1>2. CASE me.fresh
  <2> DEFINE o == [me.obj EXCEPT !.status = newStatus(spec, @)]
  <2>1. me.obj \in Cluster /\ spec \in ClusterSpec
    BY StepFacts DEF IInv, updateStatus
  <2>2. newStatus(spec, me.obj.status) \in Status
    BY <2>1, NewStatusType DEF IInv, Cluster
  <2>3. /\ o \in Cluster /\ o.uid = me.obj.uid /\ o.del = me.obj.del
        /\ o.fin = me.obj.fin /\ o.fg = me.obj.fg
    BY <2>1, <2>2 DEF Cluster
  <2>4. PutCluster(o) /\ Return(TRUE) /\ UNCHANGED <<child, kcache, volumes, uids>>
    BY <1>2 DEF updateStatus, bounds
  <2> HIDE DEF o
  <2>. QED
    BY <1>2, <2>1, <2>3, <2>4, LastWriteInv
<1>. QED
  BY <1>1, <1>2

(* The cached copy knows of the deletion too, so that no stale copy sends  *)
(* Reconcile back to creating children after the finalizer is given up.    *)
LEMMA RemoveFinalizerInv ==
    ASSUME IInv, TypeOK', removeFinalizer
    PROVE  IInv'
<1>1. CASE ~me.fresh
  BY <1>1, FailInv DEF removeFinalizer, bounds
<1>2. CASE me.fresh
  <2> DEFINE o == IF me.obj.fg THEN [me.obj EXCEPT !.fin = FALSE] ELSE Nil
  <2>1. /\ PutCluster(o) /\ me' = NoCopy /\ pc' = "idle"
        /\ UNCHANGED <<child, kcache, volumes, uids>>
    BY <1>2 DEF removeFinalizer, Return, bounds
  <2>2. me.obj \in Cluster /\ me.obj # Nil /\ cluster = me.obj /\ me.obj.del
    BY <1>2, StepFacts, NilAssumption
       DEF IInv, removeFinalizer, FreshInv, StepInv, deleteSteps
  <2>3. o # Nil => /\ o.uid = cluster.uid /\ ~o.fin /\ o.fg = cluster.fg
                   /\ o.del = cluster.del
    BY <2>2 DEF Cluster
  <2>4. /\ cluster' = o /\ ccache'.obj = ccache.obj
        /\ ccache'.fresh => ccache'.obj = cluster'
    BY <2>1, PutClusterFresh DEF IInv
  <2> HIDE DEF o
  <2>5. FreshInv'
    BY <2>1, <2>4 DEF IInv, FreshInv, NoCopy
  <2>6. UidInv'
    BY <2>1, <2>2, <2>3, <2>4 DEF IInv, UidInv, NoCopy
  <2>7. ~(ccache.obj # Nil /\ ccache.obj.fin /\ ~ccache.obj.del)
    BY <2>2 DEF IInv, CopyInv, ReconcileInv, removeFinalizer, deleteSteps
  <2>8. CopyInv'
    BY <2>1, <2>2, <2>3, <2>4, <2>7 DEF IInv, CopyInv, NoCopy
  <2>9. child[Secret] = Nil /\ child[ConfigMap] = Nil
    BY DEF IInv, DeletedInv, removeFinalizer
  <2>10. NothingInherited'
    BY <2>1, <2>9 DEF NothingInherited
  <2>11. CredentialsOpenData'
    BY <2>2, <2>3, <2>4 DEF CredentialsOpenData
  <2>. QED
    BY <2>1, <2>5, <2>6, <2>8, <2>10, <2>11, IdleInv, IdleStep DEF IInv
<1>. QED
  BY <1>1, <1>2


-----------------------------------------------------------------------------
(* The steps of Reconcile, one by one.                                     *)

LEMMA CreationsInv ==
    ASSUME IInv, TypeOK', StepInv',
           \/ reconcileConfigMap \/ reconcileSecret \/ reconcileInstanceService
           \/ reconcileInstanceStatefulSet \/ reconcileMonitoring
    PROVE  IInv'
<1>0. UNCHANGED <<volumes, uids>>
  BY DEF reconcileConfigMap, reconcileSecret, reconcileInstanceService,
         reconcileInstanceStatefulSet, reconcileMonitoring, bounds
<1>1. pc \in createSteps
  BY DEF reconcileConfigMap, reconcileSecret, reconcileInstanceService,
         reconcileInstanceStatefulSet, reconcileMonitoring, createSteps
<1>2. /\ spec \in ClusterSpec
      /\ pc \in {"Service", "StatefulSet"} => idx \in DOMAIN spec.instances
  BY <1>1, StepFacts DEF IInv, createSteps, instanceSteps
<1>3. pc \in {"Service", "StatefulSet"} =>
        /\ instance.name \in Names /\ serviceData(instance) \in DataOf("Service")
        /\ Parses(spec, instance) =>
              statefulSetData(spec, instance) \in DataOf("StatefulSet")
  BY <1>2, DataType DEF instance
<1>4. CASE reconcileConfigMap
  BY <1>0, <1>1, <1>2, <1>4, DataType, KeyFacts, CreateOrUpdateInv
     DEF reconcileConfigMap, createSteps
<1>5. CASE reconcileSecret
  <2>1. PICK pw \in Passwords :
          CreateOrUpdate(Secret, [pw |-> pw, users |-> spec.access], "Service", 1)
    BY <1>5 DEF reconcileSecret
  <2>2. [pw |-> pw, users |-> spec.access] \in DataOf(Secret[1])
    BY <1>2, DataType, KeyFacts
  <2>. QED
    BY <1>0, <1>1, <2>1, <2>2, KeyFacts, CreateOrUpdateInv DEF createSteps
<1>6. CASE reconcileInstanceService
  BY <1>0, <1>1, <1>3, <1>6, KeyFacts, CreateOrUpdateInv
     DEF reconcileInstanceService, createSteps
<1>7. CASE reconcileInstanceStatefulSet
  <2>1. CASE ~Parses(spec, instance)
    BY <1>0, <1>7, <2>1, FailInv DEF reconcileInstanceStatefulSet
  <2>2. CASE Parses(spec, instance)
    <3> DEFINE k == StatefulSet(instance.name)
               d == statefulSetData(spec, instance)
    <3>1. k \in Keys /\ d \in DataOf(k[1])
      BY <1>3, <1>7, <2>2, KeyFacts DEF reconcileInstanceStatefulSet
    <3>2. \/ CreateOrUpdate(k, d, "Service", idx + 1)
          \/ CreateOrUpdate(k, d, afterInstances(spec), 1)
      BY <1>7, <2>2 DEF reconcileInstanceStatefulSet
    <3>3. afterInstances(spec) \in createSteps /\ "Service" \in createSteps
      BY DEF afterInstances, createSteps
    <3> HIDE DEF k, d
    <3>. QED
      BY <1>0, <1>1, <3>1, <3>2, <3>3, CreateOrUpdateInv
  <2>. QED
    BY <2>1, <2>2
<1>8. CASE reconcileMonitoring
  BY <1>0, <1>1, <1>2, <1>8, DataType, KeyFacts, CreateOrUpdateInv
     DEF reconcileMonitoring, createSteps
<1>. QED
  BY <1>4, <1>5, <1>6, <1>7, <1>8

(* What is deleted stays deleted, and each step adds what it deletes.      *)
LEMMA DeletionsInv ==
    ASSUME IInv, TypeOK', StepInv', handleDeletion
    PROVE  IInv'
<1> DEFINE ins == me.obj.spec.instances
<1>1. CASE removeFinalizer
  BY <1>1, RemoveFinalizerInv
<1>2. CASE deleteStatefulSet
  <2>1. idx \in DOMAIN ins /\ ins[idx].name \in Names
    BY <1>2, StepFacts, DataType DEF IInv, deleteStatefulSet, instanceSteps
  <2> DEFINE k == StatefulSet(ins[idx].name)
  <2>2. Delete(k, "delService", idx) /\ UNCHANGED <<volumes, uids>> /\ k \in Keys
    BY <1>2, <2>1, KeyFacts DEF deleteStatefulSet, bounds
  <2>3. pc' = "delService" /\ idx' = idx /\ me' = me /\ PutChild(k, Nil)
    BY <2>2 DEF Delete, Goto
  <2>4. child'[k] = Nil /\ \A x \in Keys : x # k => child'[x] = child[x]
    BY <2>2, <2>3, PutChildFresh DEF IInv
  <2>5. \A j \in DOMAIN ins : ins[j].name \in Names
    BY <1>2, StepFacts, DataType DEF IInv, deleteStatefulSet
  <2>6. DeletedInv'
    BY <1>2, <2>3, <2>4, <2>5, KeyFacts DEF IInv, DeletedInv, deleteStatefulSet
  <2> HIDE DEF k
  <2>. QED
    BY <1>2, <2>2, <2>6, DeleteInv DEF deleteStatefulSet, deleteSteps
<1>3. CASE deleteService
  <2>1. /\ idx \in DOMAIN ins /\ \A j \in DOMAIN ins : ins[j].name \in Names
        /\ DOMAIN ins = 1 .. Len(ins) /\ Len(ins) \in Nat
    BY <1>3, StepFacts, DataType DEF IInv, deleteService, instanceSteps
  <2> DEFINE k == Service(ins[idx].name)
  <2>2. /\ k \in Keys /\ UNCHANGED <<volumes, uids>>
        /\ \/ idx < Len(ins) /\ Delete(k, "delStatefulSet", idx + 1)
           \/ idx = Len(ins) /\ Delete(k, "delConfigMap", 1)
    BY <1>3, <2>1, KeyFacts DEF deleteService, bounds
  <2>3. /\ me' = me /\ PutChild(k, Nil)
        /\ \/ idx < Len(ins) /\ pc' = "delStatefulSet" /\ idx' = idx + 1
           \/ idx = Len(ins) /\ pc' = "delConfigMap"
    BY <2>2 DEF Delete, Goto
  <2>4. child'[k] = Nil /\ \A x \in Keys : x # k => child'[x] = child[x]
    BY <2>2, <2>3, PutChildFresh DEF IInv
  <2>5. \A j \in DOMAIN ins : j <= idx =>
          child'[StatefulSet(ins[j].name)] = Nil /\ child'[Service(ins[j].name)] = Nil
    <3>1. \A j \in DOMAIN ins : j < idx =>
            child[StatefulSet(ins[j].name)] = Nil /\ child[Service(ins[j].name)] = Nil
      BY <1>3, <2>1 DEF IInv, DeletedInv, deleteService
    <3>2. child[StatefulSet(ins[idx].name)] = Nil
      BY <1>3 DEF IInv, DeletedInv, deleteService
    <3>3. \A j \in DOMAIN ins : j <= idx => child[StatefulSet(ins[j].name)] = Nil
      BY <2>1, <3>1, <3>2
    <3>4. \A j \in DOMAIN ins : j <= idx => child'[StatefulSet(ins[j].name)] = Nil
      BY <2>1, <2>4, <3>3, KeyFacts
    <3>5. \A j \in DOMAIN ins : j < idx => child'[Service(ins[j].name)] = Nil
      BY <2>1, <2>4, <3>1, KeyFacts
    <3>. QED
      BY <2>1, <2>4, <3>4, <3>5
  <2>6. DeletedInv'
    BY <2>1, <2>3, <2>5 DEF DeletedInv
  <2> HIDE DEF k
  <2>. QED
    BY <1>3, <2>2, <2>6, DeleteInv DEF deleteService, deleteSteps
<1>4. CASE deleteConfigMap \/ deleteSecret
  <2>1. \A j \in DOMAIN ins : ins[j].name \in Names
    BY <1>4, StepFacts, DataType DEF IInv, deleteConfigMap, deleteSecret
  <2>2. CASE deleteConfigMap
    <3>1. Delete(ConfigMap, "delSecret", 1) /\ UNCHANGED <<volumes, uids>>
      BY <2>2 DEF deleteConfigMap, bounds
    <3>2. /\ child'[ConfigMap] = Nil /\ me' = me /\ pc' = "delSecret"
          /\ \A x \in Keys : x # ConfigMap => child'[x] = child[x]
      BY <3>1, PutChildFresh, KeyFacts DEF IInv, Delete, Goto
    <3>3. DeletedInv'
      BY <2>1, <2>2, <3>2, KeyFacts DEF IInv, DeletedInv, deleteConfigMap
    <3>. QED
      BY <2>2, <3>1, <3>3, KeyFacts, DeleteInv DEF deleteConfigMap, deleteSteps
  <2>3. CASE deleteSecret
    <3>1. Delete(Secret, "release", 1) /\ UNCHANGED <<volumes, uids>>
      BY <2>3 DEF deleteSecret, bounds
    <3>2. /\ child'[Secret] = Nil /\ me' = me /\ pc' = "release"
          /\ \A x \in Keys : x # Secret => child'[x] = child[x]
      BY <3>1, PutChildFresh, KeyFacts DEF IInv, Delete, Goto
    <3>3. DeletedInv'
      BY <2>1, <2>3, <3>2, KeyFacts DEF IInv, DeletedInv, deleteSecret
    <3>. QED
      BY <2>3, <3>1, <3>3, KeyFacts, DeleteInv DEF deleteSecret, deleteSteps
  <2>. QED
    BY <1>4, <2>2, <2>3
<1>. QED
  BY <1>1, <1>2, <1>3, <1>4 DEF handleDeletion

LEMMA ReconcileKeepsInv ==
    ASSUME IInv, TypeOK', StepInv', Reconcile
    PROVE  IInv'
BY StartInv, AddFinalizerInv, DefaultInstanceInv, CreationsInv, UpdateStatusInv,
   DeletionsInv DEF Reconcile


-----------------------------------------------------------------------------
(* The steps of others.                                                    *)

LEMMA SyncInv ==
    ASSUME IInv, TypeOK', StepInv', SyncCluster \/ \E k \in Keys : SyncChild(k)
    PROVE  IInv'
<1>1. UNCHANGED <<cluster, child, volumes, pc, idx, me, uids>>
  BY DEF SyncCluster, SyncChild, server, bounds
<1>2. DeletedInv' /\ NothingInherited' /\ CredentialsOpenData'
  BY <1>1 DEF IInv, DeletedInv, NothingInherited, CredentialsOpenData
<1>3. CASE SyncCluster
  <2>1. ccache' = Copy(cluster) /\ kcache' = kcache
    BY <1>3 DEF SyncCluster
  <2>2. FreshInv' /\ UidInv' /\ CopyInv'
    BY <1>1, <2>1 DEF IInv, FreshInv, UidInv, CopyInv, Copy
  <2>3. ReconcileInv'
    <3>1. pc \in deleteSteps => me.obj # Nil /\ me.obj.del
      BY DEF IInv, StepInv, deleteSteps
    <3>. QED
      BY <1>1, <2>1, <3>1 DEF IInv, ReconcileInv, CopyInv, Copy
  <2>. QED
    BY <1>2, <2>2, <2>3 DEF IInv
<1>4. ASSUME NEW k \in Keys, SyncChild(k) PROVE IInv'
  <2>1. ccache' = ccache
    BY <1>4 DEF SyncChild
  <2>2. \A x \in Keys : kcache'[x].fresh => kcache'[x].obj = child'[x]
    BY <1>1, <1>4 DEF SyncChild, Copy, IInv, TypeOK, FreshInv
  <2>3. FreshInv' /\ UidInv' /\ CopyInv' /\ ReconcileInv'
    BY <1>1, <2>1, <2>2 DEF IInv, FreshInv, UidInv, CopyInv, ReconcileInv
  <2>. QED
    BY <1>2, <2>3 DEF IInv
<1>. QED
  BY <1>3, <1>4

(* A write to the cluster from outside, as the conjuncts of IInv see it.   *)
LEMMA PutClusterOutsideFresh ==
    ASSUME TypeOK, FreshInv, NEW o, PutClusterOutside(o)
    PROVE  /\ cluster' = o /\ ccache'.obj = ccache.obj /\ me'.obj = me.obj
           /\ UNCHANGED <<child, volumes, kcache, pc, idx>>
           /\ FreshInv'
<1>1. /\ cluster' = o /\ ccache'.obj = ccache.obj
      /\ ccache'.fresh => ccache'.obj = cluster'
  BY PutClusterFresh DEF PutClusterOutside
<1>2. me' = After(me, cluster, o) /\ UNCHANGED <<child, volumes, kcache, pc, idx>>
  BY DEF PutClusterOutside
<1>3. me'.obj = me.obj /\ (me'.fresh => me.fresh /\ o = cluster)
  BY <1>2, AfterObj, AfterFresh DEF TypeOK
<1>. QED
  BY <1>1, <1>2, <1>3 DEF FreshInv

(* Users change the specification or ask for the deletion, but leave the   *)
(* identity and the controller's finalizer alone.                          *)
LEMMA MetadataKept ==
    ASSUME IInv, TypeOK', StepInv', NEW o, PutClusterOutside(o), UNCHANGED uids,
           cluster # Nil, o # Nil, o.uid = cluster.uid, o.fin = cluster.fin,
           cluster.del => o.del, o.fg => o.del
    PROVE  IInv'
<1>1. /\ cluster' = o /\ ccache'.obj = ccache.obj /\ me'.obj = me.obj
      /\ UNCHANGED <<child, volumes, kcache, pc, idx>>
      /\ FreshInv'
  BY PutClusterOutsideFresh DEF IInv
<1>2. UidInv' /\ CopyInv'
  BY <1>1 DEF IInv, UidInv, CopyInv
<1>3. ReconcileInv'
  BY <1>1 DEF IInv, ReconcileInv
<1>4. DeletedInv'
  BY <1>1 DEF IInv, DeletedInv
<1>5. NothingInherited' /\ CredentialsOpenData'
  BY <1>1 DEF IInv, NothingInherited, CredentialsOpenData
<1>. QED
  BY <1>1, <1>2, <1>3, <1>4, <1>5 DEF IInv

(* Without the controller's finalizer nothing is left to lose.             *)
LEMMA ClusterGone ==
    ASSUME IInv, TypeOK', StepInv', PutClusterOutside(Nil), UNCHANGED uids,
           cluster # Nil, ~cluster.fin
    PROVE  IInv'
<1>1. /\ cluster' = Nil /\ ccache'.obj = ccache.obj /\ me'.obj = me.obj
      /\ UNCHANGED <<child, volumes, kcache, pc, idx>>
      /\ FreshInv'
  BY PutClusterOutsideFresh DEF IInv
<1>2. UidInv' /\ CopyInv'
  BY <1>1 DEF IInv, UidInv, CopyInv
<1>3. ReconcileInv'
  BY <1>1 DEF IInv, ReconcileInv
<1>4. DeletedInv'
  BY <1>1 DEF IInv, DeletedInv
<1>5. NothingInherited' /\ CredentialsOpenData'
  BY <1>1 DEF IInv, NothingInherited, CredentialsOpenData
<1>. QED
  BY <1>1, <1>2, <1>3, <1>4, <1>5 DEF IInv

LEMMA CreateClusterInv ==
    ASSUME IInv, TypeOK', StepInv', NEW s \in Specs, CreateCluster(s)
    PROVE  IInv'
<1> DEFINE o == [uid |-> uids + 1, del |-> FALSE, fin |-> FALSE, fg |-> FALSE,
                 spec |-> s, status |-> NoStatus]
<1>1. PutClusterOutside(o) /\ uids' = uids + 1 /\ cluster = Nil
  BY DEF CreateCluster
<1>2. /\ cluster' = o /\ ccache'.obj = ccache.obj /\ me'.obj = me.obj
      /\ UNCHANGED <<child, volumes, kcache, pc, idx>>
      /\ FreshInv'
  BY <1>1, PutClusterOutsideFresh DEF IInv
<1>3. /\ o.uid = uids + 1 /\ ~o.del /\ ~o.fin /\ ~o.fg
      /\ uids \in Nat
  BY BoundsAssumption DEF IInv, TypeOK
<1> HIDE DEF o
<1>4. /\ ccache.obj # Nil => ccache.obj.uid \in Nat /\ ccache.obj.uid <= uids
      /\ me.obj # Nil => me.obj.uid \in Nat /\ me.obj.uid <= uids
  BY BoundsAssumption DEF IInv, TypeOK, UidInv, CopyOf, Cluster, Uids
<1>5. \A n \in Names : \A v \in volumes[n] : v.uid \in Nat /\ v.uid <= uids
  BY BoundsAssumption DEF IInv, TypeOK, UidInv, Uids
<1>6. UidInv'
  BY <1>1, <1>2, <1>3, <1>4, <1>5 DEF UidInv
<1>7. CopyInv'
  BY <1>1, <1>2, <1>3, <1>4 DEF IInv, CopyInv
<1>8. ReconcileInv'
  BY <1>1, <1>2, <1>3 DEF IInv, ReconcileInv
<1>9. DeletedInv'
  BY <1>2 DEF IInv, DeletedInv
<1>10. NothingInherited'
  BY <1>1, <1>2 DEF IInv, NothingInherited
<1>11. CredentialsOpenData'
  BY <1>2, <1>3, <1>5 DEF CredentialsOpenData
<1>. QED
  BY <1>2, <1>6, <1>7, <1>8, <1>9, <1>10, <1>11 DEF IInv

(* A child that goes or is counted anew.                                   *)
LEMMA ChildWriteInv ==
    ASSUME IInv, TypeOK', StepInv', NEW k \in Keys, NEW o, PutChildOutside(k, o),
           UNCHANGED uids,
           o # Nil => child[k] # Nil /\ o.owner = child[k].owner /\ k # Secret,
           CredentialsOpenData', UidInv'
    PROVE  IInv'
<1>1. UNCHANGED <<cluster, ccache, pc, idx, me>>
  BY DEF PutChildOutside
<1>2. /\ child'[k] = o
      /\ \A x \in Keys : x # k => child'[x] = child[x]
      /\ \A x \in Keys : kcache'[x].fresh => kcache'[x].obj = child'[x]
  BY PutChildFresh DEF IInv, PutChildOutside
<1>3. FreshInv' /\ CopyInv' /\ ReconcileInv'
  BY <1>1, <1>2 DEF IInv, FreshInv, CopyInv, ReconcileInv
<1>4. \A x \in Keys : child[x] = Nil => child'[x] = Nil
  BY <1>2
<1>5. DeletedInv'
  <2>1. pc \in deleteSteps => \A j \in DOMAIN me.obj.spec.instances :
          /\ StatefulSet(me.obj.spec.instances[j].name) \in Keys
          /\ Service(me.obj.spec.instances[j].name) \in Keys
    BY StepFacts, DataType, KeyFacts DEF IInv, deleteSteps
  <2>2. pc = "delService" => idx \in DOMAIN me.obj.spec.instances
    BY DEF IInv, StepInv, instanceSteps
  <2>. QED
    BY <1>1, <1>4, <2>1, <2>2, KeyFacts DEF IInv, DeletedInv, deleteSteps
<1>6. NothingInherited'
  BY <1>1, <1>2, KeyFacts DEF IInv, NothingInherited
<1>. QED
  BY <1>3, <1>5, <1>6 DEF IInv

(* Neither a third party nor the garbage collector takes the Secret of a   *)
(* cluster that is not being deleted.                                      *)
LEMMA ChildRemovedInv ==
    ASSUME IInv, TypeOK', StepInv', NEW k \in Keys,
           (k \in Removable /\ DeleteChild(k)) \/ Collect(k)
    PROVE  IInv'
<1>1. PutChildOutside(k, Nil) /\ UNCHANGED <<volumes, uids>>
  BY DEF DeleteChild, Collect, bounds
<1>2. UNCHANGED <<cluster, ccache, me>>
  BY <1>1 DEF PutChildOutside
<1>3. \A x \in Keys : x # k => child'[x] = child[x]
  BY <1>1, PutChildFresh DEF IInv, PutChildOutside
<1>4. CredentialsOpenData'
  <2>1. CASE k # Secret
    BY <1>1, <1>2, <1>3, <2>1, KeyFacts DEF IInv, CredentialsOpenData
  <2>2. CASE k = Secret
    <3>1. Collect(k)
      BY <2>2, RemovableAssumption
    <3>2. cluster # Nil /\ cluster.fg
      BY <2>2, <3>1 DEF IInv, NothingInherited, Collect, Owned
    <3>3. cluster.del
      BY <3>2 DEF IInv, CopyInv
    <3>. QED
      BY <1>2, <3>3 DEF CredentialsOpenData
  <2>. QED
    BY <2>1, <2>2
<1>5. UidInv'
  BY <1>1, <1>2 DEF IInv, UidInv
<1>. QED
  BY <1>1, <1>4, <1>5, ChildWriteInv

(* A pod initialises its data with the Secret that exists then.            *)
LEMMA PodsInv ==
    ASSUME IInv, TypeOK', StepInv', NEW n \in Names,
           PodReady(n) \/ ScaleDown(n) \/ PodCrash(n)
    PROVE  IInv'
<1> DEFINE k == StatefulSet(n)
           o(r) == [child[k] EXCEPT !.ready = r]
<1>1. k \in Keys /\ k # Secret /\ child[k] # Nil
  BY KeyFacts DEF PodReady, ScaleDown, PodCrash
<1>2. PICK r : PutChildOutside(k, o(r))
  BY DEF PodReady, ScaleDown, PodCrash, SetReady
<1>3. o(r).owner = child[k].owner
  BY <1>1, StatefulSetFacts DEF IInv, Object
<1>4. UNCHANGED <<cluster, ccache, me, uids>>
  BY <1>2 DEF PutChildOutside, PodReady, ScaleDown, PodCrash, bounds
<1>5. child'[Secret] = child[Secret]
  BY <1>1, <1>2, PutChildFresh, KeyFacts DEF IInv, PutChildOutside
<1>6. \/ UNCHANGED volumes
      \/ /\ child[Secret] # Nil
         /\ volumes' = [volumes EXCEPT ![n] = @ \cup
                {[uid |-> child[Secret].owner, pw |-> child[Secret].data.pw]}]
  BY DEF PodReady, ScaleDown, PodCrash
<1>7. \A m \in Names : \A v \in volumes'[m] :
        \/ v \in volumes[m]
        \/ /\ child[Secret] # Nil
           /\ v.uid = child[Secret].owner /\ v.pw = child[Secret].data.pw
  BY <1>6 DEF IInv, TypeOK
<1>8. child[Secret] # Nil => cluster # Nil /\ child[Secret].owner = cluster.uid
  BY DEF IInv, NothingInherited
<1>9. UidInv'
  BY <1>4, <1>7, <1>8 DEF IInv, UidInv
<1>10. CredentialsOpenData'
  BY <1>4, <1>5, <1>7 DEF IInv, CredentialsOpenData
<1> HIDE DEF k
<1>. QED
  BY <1>1, <1>2, <1>3, <1>4, <1>9, <1>10, ChildWriteInv

LEMMA OthersInv ==
    ASSUME IInv, TypeOK', StepInv', UserStep \/ KubeStep
    PROVE  IInv'
<1>1. ASSUME NEW s \in Specs, EditSpec(s) PROVE IInv'
  <2> DEFINE o == [cluster EXCEPT !.spec = s]
  <2>1. cluster \in Cluster /\ PutClusterOutside(o) /\ UNCHANGED uids /\ cluster # Nil
    BY <1>1 DEF EditSpec, IInv, TypeOK
  <2>2. /\ o # Nil /\ o.uid = cluster.uid /\ o.fin = cluster.fin
        /\ o.del = cluster.del /\ o.fg = cluster.fg
    <3>1. o \in Cluster
      BY <2>1, SpecsAssumption DEF Cluster
    <3>. QED
      BY <2>1, <3>1, NilAssumption DEF Cluster
  <2>3. o.fg => o.del
    BY <2>1, <2>2 DEF IInv, CopyInv
  <2> HIDE DEF o
  <2>. QED
    BY <2>1, <2>2, <2>3, MetadataKept
<1>2. ASSUME NEW foreground \in Propagations, DeleteCluster(foreground) PROVE IInv'
  <2> DEFINE o == [cluster EXCEPT !.del = TRUE, !.fg = foreground]
  <2>1. cluster \in Cluster /\ cluster # Nil /\ UNCHANGED uids
    BY <1>2 DEF DeleteCluster, IInv, TypeOK, bounds
  <2>2. o # Nil /\ o.uid = cluster.uid /\ o.fin = cluster.fin /\ o.del
    <3>1. o \in Cluster
      BY <2>1, PropagationsAssumption DEF Cluster
    <3>. QED
      BY <2>1, <3>1, NilAssumption DEF Cluster
  <2>3. CASE cluster.fin \/ foreground
    <3>1. PutClusterOutside(o)
      BY <1>2, <2>3 DEF DeleteCluster
    <3> HIDE DEF o
    <3>. QED
      BY <2>1, <2>2, <3>1, MetadataKept
  <2>4. CASE ~(cluster.fin \/ foreground)
    <3>1. PutClusterOutside(Nil)
      BY <1>2, <2>4 DEF DeleteCluster
    <3>. QED
      BY <2>1, <2>4, <3>1, ClusterGone
  <2>. QED
    BY <2>3, <2>4
<1>3. ASSUME FinishForeground PROVE IInv'
  <2> DEFINE o == [cluster EXCEPT !.fg = FALSE]
  <2>1. cluster \in Cluster /\ cluster # Nil /\ UNCHANGED uids
    BY <1>3 DEF FinishForeground, IInv, TypeOK, bounds
  <2>2. o # Nil /\ o.uid = cluster.uid /\ o.fin = cluster.fin /\ o.del = cluster.del /\ ~o.fg
    <3>1. o \in Cluster
      BY <2>1 DEF Cluster
    <3>. QED
      BY <2>1, <3>1, NilAssumption DEF Cluster
  <2>3. CASE cluster.fin
    <3>1. PutClusterOutside(o)
      BY <1>3, <2>3 DEF FinishForeground
    <3> HIDE DEF o
    <3>. QED
      BY <2>1, <2>2, <3>1, MetadataKept
  <2>4. CASE ~cluster.fin
    <3>1. PutClusterOutside(Nil)
      BY <1>3, <2>4 DEF FinishForeground
    <3>. QED
      BY <2>1, <2>4, <3>1, ClusterGone
  <2>. QED
    BY <2>3, <2>4
<1>4. ASSUME NEW k \in Removable, DeleteChild(k) PROVE IInv'
  BY <1>4, RemovableAssumption, ChildRemovedInv
<1>. QED
  BY <1>1, <1>2, <1>3, <1>4, CreateClusterInv, SyncInv, ChildRemovedInv, PodsInv
     DEF UserStep, KubeStep

-----------------------------------------------------------------------------
(* The theorems.                                                           *)

LEMMA StutterInv ==
    ASSUME IInv, UNCHANGED vars
    PROVE  IInv'
BY DEF IInv, TypeOK, FreshInv, UidInv, CopyInv, StepInv, ReconcileInv, DeletedInv,
       NothingInherited, CredentialsOpenData, Owned, vars

LEMMA NextInv ==
    ASSUME IInv, [Next]_vars
    PROVE  IInv'
<1>1. CASE Next
  <2>1. TypeOK' /\ StepInv'
    BY <1>1, ReconcileType, AbortType, UserType, KubeType DEF IInv, Next
  <2>2. CASE Abort
    BY <2>1, <2>2, FailInv DEF Abort
  <2>. QED
    BY <1>1, <2>1, <2>2, ReconcileKeepsInv, OthersInv DEF Next
<1>2. CASE UNCHANGED vars
  BY <1>2, StutterInv
<1>. QED
  BY <1>1, <1>2

(* However old the copies are that Reconcile acts on, and whatever fails in *)
(* between, the inductive invariant holds.                                 *)
THEOREM Safety == Spec => []IInv
<1>1. IInv /\ [Next]_vars => IInv'
  BY NextInv
<1>. QED
  BY SafeInit, <1>1, PTL DEF Spec

(* A live cluster's password opens every data directory initialised under  *)
(* it: reconcileSecret never replaces it and nobody removes it.            *)
THEOREM CredentialsSafe == Spec => []CredentialsOpenData
<1>1. IInv => CredentialsOpenData
  BY DEF IInv
<1>. QED
  BY Safety, <1>1, PTL

(* No incarnation finds the Secret or ConfigMap of an earlier one.         *)
THEOREM NoInheritance == Spec => []NothingInherited
<1>1. IInv => NothingInherited
  BY DEF IInv
<1>. QED
  BY Safety, <1>1, PTL

=============================================================================
