------------------------- MODULE ClusterStepsProofs -------------------------
(***************************************************************************)
(* What a step of ClusterController may never do, and that the controller  *)
(* implements CredentialLifecycle.  Every step either leaves the cluster   *)
(* alone and changes at most one child (ChildStep), or leaves the children *)
(* alone and changes the cluster in one of a few ways (ClusterStep).       *)
(***************************************************************************)
EXTENDS ClusterSafetyProofs

\* The password that the Secret holds.
password == IF child[Secret] = Nil THEN Nil ELSE child[Secret].data.pw

\* A step that leaves the cluster alone creates no orphan and issues or revokes a
\* password at most.
ChildStep ==
    /\ cluster' = cluster
    /\ \A k \in Keys : child[k] = Nil /\ child'[k] # Nil =>
          cluster # Nil /\ cluster.fin /\ child'[k].owner = cluster.uid
    /\ \/ password' = password
       \/ cluster # Nil /\ password = Nil /\ password' \in Passwords
       \/ cluster # Nil /\ cluster.del /\ password' = Nil

\* A step that changes the cluster leaves its children alone.
ClusterStep ==
    /\ child' = child
    /\ \/ /\ DefaultInstance /\ cluster # Nil /\ cluster.spec.instances = <<>>
          /\ cluster' = [cluster EXCEPT !.spec = withDefaultInstance(@)]
       \/ /\ updateStatus /\ cluster # Nil /\ ~cluster.del /\ me.obj = cluster
          /\ cluster' = [cluster EXCEPT !.status = newStatus(spec, @)]
       \/ /\ removeFinalizer /\ cluster # Nil /\ cluster.del /\ me.obj = cluster
          /\ cluster' # Nil => cluster' = [cluster EXCEPT !.fin = FALSE]
       \/ AddFinalizer /\ cluster # Nil /\ cluster' = [cluster EXCEPT !.fin = TRUE]
       \/ /\ pc' = pc /\ cluster = Nil /\ cluster' # Nil /\ ~cluster'.del
       \/ /\ pc' = pc /\ cluster # Nil /\ cluster' # Nil
          /\ cluster' \in Cluster /\ cluster'.status = cluster.status
          /\ cluster'.uid = cluster.uid /\ cluster'.fin = cluster.fin
          /\ cluster.del => cluster'.del
       \/ pc' = pc /\ cluster # Nil /\ ~cluster.fin /\ cluster' = Nil

-----------------------------------------------------------------------------
(* Steps that leave the cluster alone.                                     *)

LEMMA QuietStep ==
    ASSUME UNCHANGED <<cluster, child>>
    PROVE  ChildStep
BY DEF ChildStep, password

LEMMA PutChildElsewhere ==
    ASSUME IInv, NEW k \in Keys, NEW o, PutChild(k, o), cluster' = cluster,
           child[k] # Nil, k # Secret
    PROVE  ChildStep
<1>1. \A x \in Keys : x # k => child'[x] = child[x]
  BY PutChildFresh DEF IInv
<1>2. password' = password
  BY <1>1, KeyFacts DEF password
<1>. QED
  BY <1>1, <1>2 DEF ChildStep

LEMMA PutChildNil ==
    ASSUME IInv, NEW k \in Keys, PutChild(k, Nil), cluster' = cluster,
           k = Secret /\ child[Secret] # Nil => cluster # Nil /\ cluster.del
    PROVE  ChildStep
<1>1. child'[k] = Nil /\ \A x \in Keys : x # k => child'[x] = child[x]
  BY PutChildFresh DEF IInv
<1>2. CASE k # Secret
  <2>1. password' = password
    BY <1>1, <1>2, KeyFacts DEF password
  <2>. QED
    BY <1>1, <2>1 DEF ChildStep
<1>3. CASE k = Secret
  BY <1>1, <1>3, KeyFacts DEF ChildStep, password
<1>. QED
  BY <1>2, <1>3

LEMMA CreateOrUpdateChild ==
    ASSUME IInv, pc \in createSteps, NEW k \in Keys, NEW d \in DataOf(k[1]),
           NEW step \in createSteps, NEW j, CreateOrUpdate(k, d, step, j)
    PROVE  ChildStep
<1>1. CASE ~accepted(k, d)
  BY <1>1, QuietStep DEF CreateOrUpdate, Fail
<1>2. CASE accepted(k, d)
  <2> DEFINE o == desired(k, d)
  <2>1. PutChild(k, o) /\ cluster' = cluster
    BY <1>2 DEF CreateOrUpdate
  <2>2. o \in Object(k) /\ o # Nil /\ o.owner = me.obj.uid
    BY StepFacts, DesiredType, NilAssumption DEF IInv, createSteps, desired
  <2>3. cluster # Nil /\ cluster.uid = me.obj.uid /\ cluster.fin
    BY DEF IInv, ReconcileInv
  <2>4. child'[k] = o /\ \A x \in Keys : x # k => child'[x] = child[x]
    BY <2>1, PutChildFresh DEF IInv
  <2>5. \A x \in Keys : child[x] = Nil /\ child'[x] # Nil =>
          cluster # Nil /\ cluster.fin /\ child'[x].owner = cluster.uid
    BY <2>2, <2>3, <2>4
  <2>6. \/ password' = password
        \/ password = Nil /\ password' \in Passwords
    <3>1. CASE k # Secret
      BY <2>4, <3>1, KeyFacts DEF password
    <3>2. CASE k = Secret /\ kcache[k].obj = Nil
      <4>1. child[Secret] = Nil
        BY <1>2, <3>2 DEF accepted
      <4>2. o.data = d /\ d.pw \in Passwords
        BY <3>2, KeyFacts DEF desired, DataOf
      <4>. QED
        BY <2>2, <2>4, <3>2, <4>1, <4>2 DEF password
    <3>3. CASE k = Secret /\ kcache[k].obj # Nil
      <4>1. kcache[k].obj = child[Secret]
        BY <1>2, <3>3 DEF accepted, IInv, FreshInv
      <4>2. o.data = child[Secret].data /\ child[Secret] # Nil
        BY <3>3, <4>1, KeyFacts DEF desired
      <4>. QED
        BY <2>2, <2>4, <3>3, <4>2 DEF password
    <3>. QED
      BY <3>1, <3>2, <3>3
  <2>. QED
    BY <2>1, <2>3, <2>5, <2>6 DEF ChildStep
<1>. QED
  BY <1>1, <1>2

(* Each creation writes one child, whose data is well typed.               *)
LEMMA CreationChild ==
    ASSUME IInv,
           \/ reconcileConfigMap \/ reconcileSecret \/ reconcileInstanceService
           \/ reconcileInstanceStatefulSet \/ reconcileMonitoring
    PROVE  ChildStep
<1>1. pc \in createSteps
  BY DEF reconcileConfigMap, reconcileSecret, reconcileInstanceService,
         reconcileInstanceStatefulSet, reconcileMonitoring, createSteps
<1>2. /\ spec \in ClusterSpec
      /\ pc \in {"Service", "StatefulSet"} => idx \in DOMAIN spec.instances
  BY <1>1, StepFacts DEF IInv, createSteps, instanceSteps
<1>3. pc \in {"Service", "StatefulSet"} =>
        /\ instance.name \in Names /\ serviceData(instance) \in DataOf("Service")
        /\ Parses(spec, instance) =>
              statefulSetData(spec, instance) \in DataOf("StatefulSet")
  BY <1>2, DataType DEF instance
<1>4. CASE reconcileConfigMap
  BY <1>1, <1>2, <1>4, DataType, KeyFacts, CreateOrUpdateChild
     DEF reconcileConfigMap, createSteps
<1>5. CASE reconcileSecret
  <2>1. PICK pw \in Passwords :
          CreateOrUpdate(Secret, [pw |-> pw, users |-> spec.access], "Service", 1)
    BY <1>5 DEF reconcileSecret
  <2>2. [pw |-> pw, users |-> spec.access] \in DataOf(Secret[1])
    BY <1>2, DataType, KeyFacts
  <2>. QED
    BY <1>1, <2>1, <2>2, KeyFacts, CreateOrUpdateChild DEF createSteps
<1>6. CASE reconcileInstanceService
  BY <1>1, <1>3, <1>6, KeyFacts, CreateOrUpdateChild
     DEF reconcileInstanceService, createSteps
<1>7. CASE reconcileInstanceStatefulSet
  <2>1. CASE ~Parses(spec, instance)
    BY <1>7, <2>1, QuietStep DEF reconcileInstanceStatefulSet, Fail
  <2>2. CASE Parses(spec, instance)
    <3> DEFINE k == StatefulSet(instance.name)
               d == statefulSetData(spec, instance)
    <3>1. k \in Keys /\ d \in DataOf(k[1])
      BY <1>3, <1>7, <2>2, KeyFacts DEF reconcileInstanceStatefulSet
    <3>2. \/ CreateOrUpdate(k, d, "Service", idx + 1)
          \/ CreateOrUpdate(k, d, afterInstances(spec), 1)
      BY <1>7, <2>2 DEF reconcileInstanceStatefulSet
    <3>3. afterInstances(spec) \in createSteps /\ "Service" \in createSteps
      BY DEF afterInstances, createSteps
    <3> HIDE DEF k, d
    <3>. QED
      BY <1>1, <3>1, <3>2, <3>3, CreateOrUpdateChild
  <2>. QED
    BY <2>1, <2>2
<1>8. CASE reconcileMonitoring
  BY <1>1, <1>2, <1>8, DataType, KeyFacts, CreateOrUpdateChild
     DEF reconcileMonitoring, createSteps
<1>. QED
  BY <1>4, <1>5, <1>6, <1>7, <1>8

(* handleDeletion meets a Secret only while its cluster is being deleted.  *)
LEMMA DeletionChild ==
    ASSUME IInv, deleteStatefulSet \/ deleteService \/ deleteConfigMap \/ deleteSecret
    PROVE  ChildStep
<1>1. pc \in deleteSteps
  BY DEF deleteStatefulSet, deleteService, deleteConfigMap, deleteSecret, deleteSteps
<1>2. pc \in {"delStatefulSet", "delService"} =>
        me.obj.spec.instances[idx].name \in Names
  <2>1. pc \in {"delStatefulSet", "delService"} => idx \in DOMAIN me.obj.spec.instances
    BY <1>1, StepFacts DEF IInv, deleteSteps, instanceSteps
  <2>. QED
    BY <1>1, <2>1, StepFacts, DataType DEF IInv, deleteSteps
<1>3. PICK k \in Keys : PutChild(k, Nil) /\ cluster' = cluster
  BY <1>2, KeyFacts
     DEF deleteStatefulSet, deleteService, deleteConfigMap, deleteSecret, Delete
<1>4. child[Secret] # Nil => cluster # Nil /\ cluster.del
  <2>1. child[Secret] # Nil => cluster # Nil /\ cluster.fin
    BY DEF IInv, NothingInherited
  <2>2. me.obj # Nil /\ me.obj.del
    BY <1>1 DEF IInv, StepInv, deleteSteps
  <2>3. child[Secret] # Nil => cluster.uid = me.obj.uid
    BY <1>1, <2>1 DEF IInv, ReconcileInv
  <2>. QED
    BY <2>1, <2>2, <2>3 DEF IInv, CopyInv
<1>. QED
  BY <1>3, <1>4, PutChildNil

LEMMA OutsideChild ==
    ASSUME IInv,
           \/ \E k \in Removable : DeleteChild(k)
           \/ \E k \in Keys : Collect(k)
           \/ \E n \in Names : PodReady(n) \/ ScaleDown(n) \/ PodCrash(n)
    PROVE  ChildStep
<1>1. ASSUME NEW k \in Removable, DeleteChild(k) PROVE ChildStep
  <2>1. k \in Keys /\ k # Secret /\ PutChild(k, Nil) /\ cluster' = cluster
    BY <1>1, RemovableAssumption DEF DeleteChild, PutChildOutside
  <2>. QED
    BY <2>1, PutChildNil
<1>2. ASSUME NEW k \in Keys, Collect(k) PROVE ChildStep
  <2>1. PutChild(k, Nil) /\ cluster' = cluster
    BY <1>2 DEF Collect, PutChildOutside
  <2>2. k = Secret /\ child[Secret] # Nil => cluster # Nil /\ cluster.del
    BY <1>2 DEF Collect, Owned, IInv, NothingInherited, CopyInv
  <2>. QED
    BY <2>1, <2>2, PutChildNil
<1>3. ASSUME NEW n \in Names, PodReady(n) \/ ScaleDown(n) \/ PodCrash(n)
      PROVE  ChildStep
  <2> DEFINE k == StatefulSet(n)
  <2>1. k \in Keys /\ k # Secret /\ child[k] # Nil
    BY <1>3, KeyFacts DEF PodReady, ScaleDown, PodCrash
  <2>2. PICK o : PutChild(k, o) /\ cluster' = cluster
    BY <1>3 DEF PodReady, ScaleDown, PodCrash, SetReady, PutChildOutside
  <2> HIDE DEF k
  <2>. QED
    BY <2>1, <2>2, PutChildElsewhere
<1>. QED
  BY <1>1, <1>2, <1>3

-----------------------------------------------------------------------------
(* Steps that change the cluster.                                          *)

(* Reconcile writes the cluster from a copy that shows it as it is.        *)
LEMMA OwnWrite ==
    ASSUME IInv, AddFinalizer \/ DefaultInstance \/ updateStatus \/ removeFinalizer
    PROVE  ChildStep \/ ClusterStep
<1>1. CASE Fail
  BY <1>1, QuietStep DEF Fail
<1>2. CASE ~Fail
  <2>1. me.fresh /\ cluster = me.obj /\ cluster \in Cluster /\ cluster # Nil
    BY <1>2, StepFacts, NilAssumption
       DEF IInv, FreshInv, AddFinalizer, DefaultInstance, updateStatus, removeFinalizer
  <2>2. child' = child
    BY <1>2 DEF AddFinalizer, DefaultInstance, updateStatus, removeFinalizer
  <2>3. CASE AddFinalizer
    BY <1>2, <2>1, <2>2, <2>3 DEF AddFinalizer, PutCluster, ClusterStep
  <2>4. CASE DefaultInstance
    BY <1>2, <2>1, <2>2, <2>4
       DEF IInv, StepInv, DefaultInstance, PutCluster, ClusterStep
  <2>5. CASE updateStatus
    BY <1>2, <2>1, <2>2, <2>5
       DEF IInv, StepInv, createSteps, updateStatus, PutCluster, ClusterStep
  <2>6. CASE removeFinalizer
    BY <1>2, <2>1, <2>2, <2>6
       DEF IInv, StepInv, deleteSteps, removeFinalizer, PutCluster, ClusterStep
  <2>. QED
    BY <2>3, <2>4, <2>5, <2>6
<1>. QED
  BY <1>1, <1>2

(* Users keep the identity, the status and the controller's finalizer.     *)
LEMMA OutsideWrite ==
    ASSUME IInv,
           \/ \E s \in Specs : CreateCluster(s) \/ EditSpec(s)
           \/ \E foreground \in Propagations : DeleteCluster(foreground)
           \/ FinishForeground
    PROVE  ClusterStep
<1>1. child' = child /\ pc' = pc
  BY DEF CreateCluster, EditSpec, DeleteCluster, FinishForeground, PutClusterOutside
<1>2. cluster # Nil => cluster \in Cluster
  BY DEF IInv, TypeOK
<1>3. ASSUME NEW s \in Specs, CreateCluster(s) PROVE ClusterStep
  <2> DEFINE o == [uid |-> uids + 1, del |-> FALSE, fin |-> FALSE, fg |-> FALSE,
                   spec |-> s, status |-> NoStatus]
  <2>1. cluster = Nil /\ cluster' = o
    BY <1>3 DEF CreateCluster, PutClusterOutside, PutCluster
  <2>2. o \in Cluster
    <3>1. uids + 1 \in Uids
      BY <1>3, BoundsAssumption DEF CreateCluster, IInv, TypeOK, Uids
    <3>2. NoStatus \in Status
      BY EmptySeq DEF NoStatus, Status
    <3>. QED
      BY <3>1, <3>2, SpecsAssumption DEF Cluster
  <2>. QED
    BY <1>1, <2>1, <2>2, NilAssumption DEF ClusterStep
<1>4. ASSUME NEW s \in Specs, EditSpec(s) PROVE ClusterStep
  <2>1. cluster # Nil /\ cluster' = [cluster EXCEPT !.spec = s]
    BY <1>4 DEF EditSpec, PutClusterOutside, PutCluster
  <2>2. /\ cluster' \in Cluster /\ cluster'.status = cluster.status
        /\ cluster'.uid = cluster.uid /\ cluster'.fin = cluster.fin
        /\ cluster'.del = cluster.del
    BY <1>2, <2>1, SpecsAssumption DEF Cluster
  <2>. QED
    BY <1>1, <2>1, <2>2, NilAssumption DEF ClusterStep
<1>5. ASSUME NEW foreground \in Propagations, DeleteCluster(foreground)
      PROVE  ClusterStep
  <2>1. cluster # Nil /\ ~cluster.del
    BY <1>5 DEF DeleteCluster
  <2>2. CASE cluster.fin \/ foreground
    <3>1. cluster' = [cluster EXCEPT !.del = TRUE, !.fg = foreground]
      BY <1>5, <2>2 DEF DeleteCluster, PutClusterOutside, PutCluster
    <3>2. /\ cluster' \in Cluster /\ cluster'.status = cluster.status
          /\ cluster'.uid = cluster.uid /\ cluster'.fin = cluster.fin
      BY <1>2, <2>1, <3>1, PropagationsAssumption DEF Cluster
    <3>. QED
      BY <1>1, <2>1, <3>2, NilAssumption DEF ClusterStep
  <2>3. CASE ~(cluster.fin \/ foreground)
    BY <1>1, <1>5, <2>1, <2>3
       DEF DeleteCluster, PutClusterOutside, PutCluster, ClusterStep
  <2>. QED
    BY <2>2, <2>3
<1>6. ASSUME FinishForeground PROVE ClusterStep
  <2>1. cluster # Nil
    BY <1>6 DEF FinishForeground
  <2>2. CASE cluster.fin
    <3>1. cluster' = [cluster EXCEPT !.fg = FALSE]
      BY <1>6, <2>2 DEF FinishForeground, PutClusterOutside, PutCluster
    <3>2. /\ cluster' \in Cluster /\ cluster'.status = cluster.status
          /\ cluster'.uid = cluster.uid /\ cluster'.fin = cluster.fin
          /\ cluster'.del = cluster.del
      BY <1>2, <2>1, <3>1 DEF Cluster
    <3>. QED
      BY <1>1, <2>1, <3>2, NilAssumption DEF ClusterStep
  <2>3. CASE ~cluster.fin
    BY <1>1, <1>6, <2>1, <2>3
       DEF FinishForeground, PutClusterOutside, PutCluster, ClusterStep
  <2>. QED
    BY <2>2, <2>3
<1>. QED
  BY <1>3, <1>4, <1>5, <1>6

LEMMA EveryStep ==
    ASSUME IInv, [Next]_vars
    PROVE  ChildStep \/ ClusterStep
<1>1. CASE UNCHANGED vars
  BY <1>1, QuietStep DEF vars
<1>2. CASE Reconcile
  <2>1. CASE Start
    BY <2>1, QuietStep DEF Start, server
  <2>. QED
    BY <1>2, <2>1, OwnWrite, CreationChild, DeletionChild DEF Reconcile, handleDeletion
<1>3. CASE Abort
  BY <1>3, QuietStep DEF Abort, Fail
<1>4. CASE UserStep
  BY <1>4, OutsideWrite, OutsideChild DEF UserStep
<1>5. CASE KubeStep
  <2>1. CASE SyncCluster \/ \E k \in Keys : SyncChild(k)
    BY <2>1, QuietStep DEF SyncCluster, SyncChild, server
  <2>. QED
    BY <1>5, <2>1, OutsideWrite, OutsideChild DEF KubeStep
<1>. QED
  BY <1>1, <1>2, <1>3, <1>4, <1>5 DEF Next

(* Only handleDeletion gives up the finalizer.                             *)
LEMMA OnlyRelease ==
    ASSUME IInv, ClusterStep, cluster # Nil, cluster.fin, cluster' = Nil \/ ~cluster'.fin
    PROVE  removeFinalizer /\ cluster.del /\ me.obj = cluster
<1>1. cluster \in Cluster
  BY DEF IInv, TypeOK
<1>2. [cluster EXCEPT !.fin = TRUE] \in Cluster
  BY <1>1 DEF Cluster
<1>3. [cluster EXCEPT !.spec = withDefaultInstance(@)] \in Cluster
  BY <1>1, DefaultInstanceType DEF Cluster
<1>4. updateStatus => [cluster EXCEPT !.status = newStatus(spec, @)] \in Cluster
  <2>1. updateStatus => spec \in ClusterSpec
    BY StepFacts DEF IInv, updateStatus
  <2>2. updateStatus => newStatus(spec, cluster.status) \in Status
    BY <1>1, <2>1, NewStatusType DEF IInv, Cluster
  <2>. QED
    BY <1>1, <2>2 DEF Cluster
<1>. QED
  BY <1>1, <1>2, <1>3, <1>4, NilAssumption DEF ClusterStep, Cluster

-----------------------------------------------------------------------------
(* The theorems.                                                           *)

(* Reconcile creates children only under the finalizer of the incarnation  *)
(* that exists, however old its copy is.                                   *)
THEOREM CreatesNoOrphan == Spec => NoOrphanCreation
<1> DEFINE P == \A k \in Keys : child[k] = Nil /\ child'[k] # Nil =>
                  cluster # Nil /\ cluster.fin /\ child'[k].owner = cluster.uid
<1>1. IInv /\ [Next]_vars => [P]_vars
  BY EveryStep DEF ChildStep, ClusterStep
<1>. QED
  BY Safety, <1>1, PTL DEF Spec, NoOrphanCreation

(* The controller never undoes an edit that was made after it read its     *)
(* copy.                                                                   *)
THEOREM KeepsEdits == Spec => NoLostEdit
<1> DEFINE P == pc' # pc /\ cluster # Nil /\ cluster' # Nil
                  /\ cluster'.spec # cluster.spec =>
                  /\ cluster.spec.instances = <<>>
                  /\ cluster'.spec = withDefaultInstance(cluster.spec)
<1>1. IInv /\ [Next]_vars => [P]_vars
  <2> SUFFICES ASSUME IInv, [Next]_vars, pc' # pc, cluster # Nil, cluster' # Nil,
                      cluster'.spec # cluster.spec
               PROVE  /\ cluster.spec.instances = <<>>
                      /\ cluster'.spec = withDefaultInstance(cluster.spec)
    OBVIOUS
  <2>1. cluster \in Cluster
    BY DEF IInv, TypeOK
  <2>2. ClusterStep
    BY EveryStep DEF ChildStep
  <2>. QED
    BY <2>1, <2>2 DEF ClusterStep, Cluster
<1>. QED
  BY Safety, <1>1, PTL DEF Spec, NoLostEdit

(* The finalizer is given up only after everything it guards is gone.      *)
THEOREM ReleasesClean == Spec => ReleasedClean
<1> DEFINE P == cluster # Nil /\ cluster.fin /\ (cluster' = Nil \/ ~cluster'.fin) =>
                  /\ cluster.del
                  /\ child[Secret] = Nil /\ child[ConfigMap] = Nil
                  /\ \A j \in DOMAIN cluster.spec.instances :
                        /\ child[Service(cluster.spec.instances[j].name)] = Nil
                        /\ child[StatefulSet(cluster.spec.instances[j].name)] = Nil
<1>1. IInv /\ [Next]_vars => [P]_vars
  <2> SUFFICES ASSUME IInv, [Next]_vars, cluster # Nil, cluster.fin,
                      cluster' = Nil \/ ~cluster'.fin
               PROVE  P
    OBVIOUS
  <2>1. cluster \in Cluster
    BY DEF IInv, TypeOK
  <2>2. ClusterStep
    BY EveryStep DEF ChildStep
  <2>3. removeFinalizer /\ cluster.del /\ me.obj = cluster
    BY <2>2, OnlyRelease
  <2>. QED
    BY <2>3 DEF IInv, DeletedInv, removeFinalizer
<1>. QED
  BY Safety, <1>1, PTL DEF Spec, ReleasedClean

(* A status is written only over the specification it was computed from.   *)
THEOREM ReportsCurrentSpec == Spec => StatusDescribesSpec
<1> DEFINE P == cluster # Nil /\ cluster' # Nil /\ cluster'.uid = cluster.uid
                  /\ cluster'.status # cluster.status =>
                  /\ ~cluster.del
                  /\ DOMAIN cluster'.status.instances = DOMAIN cluster.spec.instances
                  /\ \A j \in DOMAIN cluster.spec.instances :
                        /\ cluster'.status.instances[j].name
                              = cluster.spec.instances[j].name
                        /\ cluster'.status.instances[j].role
                              = cluster.spec.instances[j].role
<1>1. IInv /\ [Next]_vars => [P]_vars
  <2> SUFFICES ASSUME IInv, [Next]_vars, cluster # Nil, cluster' # Nil,
                      cluster'.uid = cluster.uid, cluster'.status # cluster.status
               PROVE  P
    OBVIOUS
  <2>1. cluster \in Cluster
    BY DEF IInv, TypeOK
  <2>2. ClusterStep
    BY EveryStep DEF ChildStep
  <2>3. /\ updateStatus /\ ~cluster.del /\ me.obj = cluster
        /\ cluster' = [cluster EXCEPT !.status = newStatus(spec, @)]
    BY <2>1, <2>2 DEF ClusterStep, Cluster
  <2>4. cluster'.status = newStatus(spec, cluster.status)
    BY <2>1, <2>3 DEF Cluster
  <2>5. spec.instances = cluster.spec.instances
    BY <2>3, StepFacts DEF IInv, updateStatus
  <2>6. cluster'.status.instances
          = [j \in DOMAIN cluster.spec.instances |->
               instanceStatus(cluster.spec.instances[j])]
    BY <2>4, <2>5 DEF newStatus
  <2>. QED
    BY <2>3, <2>6 DEF instanceStatus
<1>. QED
  BY Safety, <1>1, PTL DEF Spec, StatusDescribesSpec

-----------------------------------------------------------------------------
(* Refinement.                                                             *)

LEMMA LifecycleInit == Init => Lifecycle!Init
BY KeyFacts DEF Init, Lifecycle!Init

(* Without the finalizer there is no Secret, nor is there one when the     *)
(* finalizer is given up: the cluster never disappears before its password.*)
LEMMA LifecycleStep ==
    ASSUME IInv, [Next]_vars
    PROVE  [Lifecycle!Next]_(Lifecycle!vars)
<1> USE DEF Lifecycle!Next, Lifecycle!vars
<1>1. cluster # Nil => cluster \in Cluster
  BY DEF IInv, TypeOK
<1>2. CASE ChildStep
  BY <1>2 DEF ChildStep, password, Lifecycle!Issue, Lifecycle!Revoke
<1>3. CASE ClusterStep
  <2>1. child' = child
    BY <1>3 DEF ClusterStep
  <2>2. CASE cluster = Nil /\ cluster' # Nil /\ ~cluster'.del
    BY <2>1, <2>2 DEF Lifecycle!Create
  <2>3. CASE cluster # Nil /\ cluster' # Nil /\ cluster'.del = cluster.del
    BY <2>1, <2>3
  <2>4. CASE cluster # Nil /\ cluster' # Nil /\ ~cluster.del /\ cluster'.del
    BY <2>1, <2>4 DEF Lifecycle!RequestDeletion
  <2>5. CASE cluster # Nil /\ cluster' = Nil
    <3>1. child[Secret] = Nil
      <4>1. CASE ~cluster.fin
        BY <4>1 DEF IInv, NothingInherited
      <4>2. CASE cluster.fin
        BY <1>3, <2>5, <4>2, OnlyRelease DEF IInv, DeletedInv, removeFinalizer
      <4>. QED
        BY <4>1, <4>2
    <3>. QED
      BY <2>1, <2>5, <3>1 DEF Lifecycle!Disappear
  <2>6. cluster # Nil /\ cluster' # Nil =>
          cluster'.del = cluster.del \/ (~cluster.del /\ cluster'.del)
    BY <1>1, <1>3 DEF ClusterStep, Cluster
  <2>. QED
    BY <1>3, <2>2, <2>3, <2>4, <2>5, <2>6 DEF ClusterStep
<1>. QED
  BY <1>2, <1>3, EveryStep

(* The controller implements the abstract life cycle of a password.        *)
THEOREM ImplementsLifecycle == Spec => CredentialsHaveLifecycle
<1>1. IInv /\ [Next]_vars => [Lifecycle!Next]_(Lifecycle!vars)
  BY LifecycleStep
<1>. QED
  BY Safety, LifecycleInit, <1>1, PTL DEF Spec, CredentialsHaveLifecycle, Lifecycle!Spec

-----------------------------------------------------------------------------
(* What a round has sent.                                                  *)

(* The instances that were visited are instances of the specification.     *)
LEMMA SentIndices ==
    ASSUME IInv
    PROVE  /\ servicesSent \subseteq DOMAIN spec.instances
           /\ statefulSetsSent \subseteq DOMAIN spec.instances
           /\ pc # "idle" => \A j \in DOMAIN spec.instances :
                                 spec.instances[j].name \in Names
           /\ pc = "idle" => servicesSent = {} /\ statefulSetsSent = {}
<1>1. CASE pc \in {"Service", "StatefulSet"}
  <2>1. /\ spec \in ClusterSpec /\ DOMAIN spec.instances = 1 .. Len(spec.instances)
        /\ Len(spec.instances) \in Nat /\ idx \in DOMAIN spec.instances
    BY <1>1, StepFacts DEF IInv, instanceSteps
  <2>2. \A j \in DOMAIN spec.instances : spec.instances[j].name \in Names
    BY <2>1, DataType
  <2>3. 1 .. idx \subseteq DOMAIN spec.instances /\ 1 .. idx - 1 \subseteq DOMAIN spec.instances
    BY <2>1
  <2>. QED
    BY <1>1, <2>2, <2>3 DEF servicesSent, statefulSetsSent
<1>2. CASE pc \notin {"Service", "StatefulSet"} /\ pc # "idle"
  <2>1. \A j \in DOMAIN spec.instances : spec.instances[j].name \in Names
    BY <1>2, StepFacts, DataType DEF IInv
  <2>. QED
    BY <1>2, <2>1 DEF servicesSent, statefulSetsSent
<1>3. CASE pc = "idle"
  BY <1>3 DEF servicesSent, statefulSetsSent
<1>. QED
  BY <1>1, <1>2, <1>3

(* Before the loop over the instances nothing is claimed.                  *)
LEMMA SentNothing ==
    ASSUME pc' \notin {"Service", "StatefulSet", "metrics", "status"}
    PROVE  SentInv'
<1>1. servicesSent' = {} /\ statefulSetsSent' = {}
  BY DEF servicesSent, statefulSetsSent
<1>. QED
  BY <1>1 DEF SentInv, latest

(* What others do: they delete children and change their readiness.        *)
LEMMA SentKept ==
    ASSUME IInv, SentInv, UNCHANGED <<pc, idx>>, me'.obj = me.obj,
           \A k \in Keys : child'[k] # Nil =>
               /\ child[k] # Nil /\ child'[k].owner = child[k].owner
               /\ child'[k].data = child[k].data
    PROVE  SentInv'
<1>1. CASE pc = "idle"
  BY <1>1, SentNothing
<1>2. CASE pc # "idle"
  <2>1. /\ spec' = spec /\ servicesSent' = servicesSent
        /\ statefulSetsSent' = statefulSetsSent
    BY DEF spec, servicesSent, statefulSetsSent
  <2>2. \A sent : latest(sent)' = latest(sent)
    BY <2>1 DEF latest
  <2>3. ASSUME NEW j \in latest(servicesSent)
        PROVE  serviceFollows(me.obj.uid, spec.instances[j])'
    <3> DEFINE ins == spec.instances[j]
    <3>1. ins.name \in Names /\ serviceFollows(me.obj.uid, ins)
      BY <1>2, <2>3, SentIndices DEF SentInv, latest
    <3>2. child'[Service(ins.name)] # Nil /\ Service(ins.name) # Metrics =>
              /\ child'[Service(ins.name)].owner = me.obj.uid
              /\ child'[Service(ins.name)].data = serviceData(ins)
      BY <3>1, KeyFacts DEF serviceFollows
    <3>. QED
      BY <2>1, <3>2 DEF serviceFollows
  <2>4. ASSUME NEW j \in latest(statefulSetsSent)
        PROVE  statefulSetFollows(me.obj.uid, spec, spec.instances[j])'
    <3> DEFINE ins == spec.instances[j]
    <3>1. ins.name \in Names /\ statefulSetFollows(me.obj.uid, spec, ins)
      BY <1>2, <2>4, SentIndices DEF SentInv, latest
    <3>2. child'[StatefulSet(ins.name)] # Nil =>
              /\ child'[StatefulSet(ins.name)].owner = me.obj.uid
              /\ child'[StatefulSet(ins.name)].data = statefulSetData(spec, ins)
      BY <3>1, KeyFacts DEF statefulSetFollows
    <3>. QED
      BY <2>1, <3>2 DEF statefulSetFollows
  <2>. QED
    BY <2>1, <2>2, <2>3, <2>4 DEF SentInv, latest
<1>. QED
  BY <1>1, <1>2

(* A call that fails ends the round.                                       *)
LEMMA SentFail == Fail => SentInv'
BY SentNothing DEF Fail, Return

(* The keys of different children differ.                                  *)
LEMMA KeysDiffer ==
    /\ \A n, m \in Names : n # m => Service(n) # Service(m) /\ StatefulSet(n) # StatefulSet(m)
    /\ \A n, m \in Names : Service(n) # StatefulSet(m) /\ StatefulSet(n) # Metrics
BY DEF Service, StatefulSet, Metrics

(* What CreateOrUpdate sends for a Service or a StatefulSet is wanted.     *)
LEMMA SentChild ==
    ASSUME IInv, NEW k \in Keys, k[1] \in {"Service", "StatefulSet"}, NEW d, NEW step, NEW j,
           CreateOrUpdate(k, d, step, j), accepted(k, d)
    PROVE  /\ child'[k].owner = me.obj.uid /\ child'[k].data = d
           /\ \A x \in Keys : x # k => child'[x] = child[x]
           /\ pc' = step /\ idx' = j /\ me' = me
<1>1. PutChild(k, desired(k, d)) /\ Goto(step, j)
  BY DEF CreateOrUpdate
<1>2. desired(k, d).owner = me.obj.uid /\ desired(k, d).data = d
  BY DEF desired
<1>. QED
  BY <1>1, <1>2, PutChildFresh DEF IInv, Goto

(* The Service of an instance.                                             *)
LEMMA SentService == IInv /\ SentInv /\ reconcileInstanceService => SentInv'
<1> SUFFICES ASSUME IInv, SentInv, reconcileInstanceService PROVE SentInv'
  OBVIOUS
<1> DEFINE k == Service(instance.name)
           d == serviceData(instance)
<1>0. /\ pc = "Service" /\ idx \in DOMAIN spec.instances /\ idx \in Nat
      /\ \A j \in DOMAIN spec.instances : spec.instances[j].name \in Names
      /\ CreateOrUpdate(k, d, "StatefulSet", idx)
  BY StepFacts, SentIndices
     DEF reconcileInstanceService, IInv, instanceSteps, TypeOK
<1>1. CASE ~accepted(k, d)
  BY <1>0, <1>1, SentFail DEF CreateOrUpdate
<1>2. CASE accepted(k, d)
  <2>1. k \in Keys /\ k[1] = "Service" /\ instance.name \in Names
    BY <1>0, KeyFacts DEF instance
  <2>2. /\ child'[k].owner = me.obj.uid /\ child'[k].data = d
        /\ \A x \in Keys : x # k => child'[x] = child[x]
        /\ pc' = "StatefulSet" /\ idx' = idx /\ me' = me
    BY <1>0, <1>2, <2>1, SentChild
  <2>3. /\ spec' = spec /\ servicesSent = 1 .. idx - 1 /\ servicesSent' = 1 .. idx
        /\ statefulSetsSent = 1 .. idx - 1 /\ statefulSetsSent' = 1 .. idx - 1
    BY <1>0, <2>2 DEF spec, servicesSent, statefulSetsSent
  <2>4. \A j \in latest(servicesSent)' : j = idx \/
            /\ j \in latest(servicesSent)
            /\ spec.instances[j].name # instance.name
    BY <1>0, <2>3 DEF latest, instance
  <2>5. latest(statefulSetsSent)' = latest(statefulSetsSent)
    BY <2>3 DEF latest
  <2>6. ASSUME NEW j \in latest(servicesSent)'
        PROVE  serviceFollows(me.obj.uid, spec.instances[j])'
    <3>1. CASE j = idx
      BY <2>2, <2>3, <3>1 DEF serviceFollows, instance
    <3>2. CASE j # idx
      <4>1. /\ j \in latest(servicesSent) /\ spec.instances[j].name # instance.name
            /\ spec.instances[j].name \in Names
        BY <1>0, <2>4, <2>6, <3>2, SentIndices DEF latest
      <4>2. Service(spec.instances[j].name) \in Keys
            /\ Service(spec.instances[j].name) # k
        BY <2>1, <4>1, KeyFacts, KeysDiffer
      <4>3. serviceFollows(me.obj.uid, spec.instances[j])
        BY <4>1 DEF SentInv
      <4>. QED
        BY <2>2, <2>3, <4>2, <4>3 DEF serviceFollows
    <3>. QED
      BY <3>1, <3>2
  <2>7. ASSUME NEW j \in latest(statefulSetsSent)'
        PROVE  statefulSetFollows(me.obj.uid, spec, spec.instances[j])'
    <3>1. j \in latest(statefulSetsSent) /\ spec.instances[j].name \in Names
      BY <1>0, <2>5, <2>7, SentIndices DEF latest
    <3>2. /\ StatefulSet(spec.instances[j].name) \in Keys
          /\ StatefulSet(spec.instances[j].name) # k
      BY <2>1, <3>1, KeyFacts, KeysDiffer
    <3>3. statefulSetFollows(me.obj.uid, spec, spec.instances[j])
      BY <3>1 DEF SentInv
    <3>. QED
      BY <2>2, <2>3, <3>2, <3>3 DEF statefulSetFollows
  <2>. QED
    BY <2>6, <2>7 DEF SentInv
<1>. QED
  BY <1>1, <1>2

(* The StatefulSet of an instance.                                         *)
LEMMA SentStatefulSet == IInv /\ SentInv /\ reconcileInstanceStatefulSet => SentInv'
<1> SUFFICES ASSUME IInv, SentInv, reconcileInstanceStatefulSet PROVE SentInv'
  OBVIOUS
<1> DEFINE k == StatefulSet(instance.name)
           d == statefulSetData(spec, instance)
<1>0. /\ pc = "StatefulSet" /\ idx \in DOMAIN spec.instances /\ idx \in Nat
      /\ \A j \in DOMAIN spec.instances : spec.instances[j].name \in Names
      /\ DOMAIN spec.instances = 1 .. Len(spec.instances) /\ Len(spec.instances) \in Nat
  BY StepFacts, SentIndices DEF reconcileInstanceStatefulSet, IInv, instanceSteps, TypeOK
<1>1. CASE Fail
  BY <1>1, SentFail
<1>2. CASE ~Fail
  <2>0. /\ accepted(k, d)
        /\ \/ idx < Len(spec.instances) /\ CreateOrUpdate(k, d, "Service", idx + 1)
           \/ /\ ~(idx < Len(spec.instances))
              /\ CreateOrUpdate(k, d, afterInstances(spec), 1)
    BY <1>2 DEF reconcileInstanceStatefulSet, CreateOrUpdate
  <2>1. k \in Keys /\ k[1] = "StatefulSet" /\ instance.name \in Names
    BY <1>0, KeyFacts DEF instance
  <2>2. /\ child'[k].owner = me.obj.uid /\ child'[k].data = d
        /\ \A x \in Keys : x # k => child'[x] = child[x]
        /\ me' = me
        /\ \/ pc' = "Service" /\ idx' = idx + 1
           \/ pc' \in {"metrics", "status"} /\ idx = Len(spec.instances)
    <3> HIDE DEF k, d
    <3>. QED
      BY <1>0, <2>0, <2>1, SentChild DEF afterInstances
  <2>3. /\ spec' = spec /\ servicesSent = 1 .. idx /\ servicesSent' = 1 .. idx
        /\ statefulSetsSent = 1 .. idx - 1 /\ statefulSetsSent' = 1 .. idx
    <3>1. spec' = spec
      BY <2>2 DEF spec
    <3>2. servicesSent = 1 .. idx /\ statefulSetsSent = 1 .. idx - 1
      BY <1>0 DEF servicesSent, statefulSetsSent
    <3>3. CASE pc' = "Service" /\ idx' = idx + 1
      BY <1>0, <3>1, <3>2, <3>3 DEF servicesSent, statefulSetsSent
    <3>4. CASE pc' \in {"metrics", "status"} /\ idx = Len(spec.instances)
      BY <1>0, <3>1, <3>2, <3>4 DEF servicesSent, statefulSetsSent
    <3>. QED
      BY <2>2, <3>3, <3>4
  <2>4. \A j \in latest(statefulSetsSent)' : j = idx \/
            /\ j \in latest(statefulSetsSent)
            /\ spec.instances[j].name # instance.name
    BY <1>0, <2>3 DEF latest, instance
  <2>5. latest(servicesSent)' = latest(servicesSent)
    BY <2>3 DEF latest
  <2>6. ASSUME NEW j \in latest(statefulSetsSent)'
        PROVE  statefulSetFollows(me.obj.uid, spec, spec.instances[j])'
    <3>1. CASE j = idx
      BY <2>2, <2>3, <3>1 DEF statefulSetFollows, instance
    <3>2. CASE j # idx
      <4>1. /\ j \in latest(statefulSetsSent) /\ spec.instances[j].name # instance.name
            /\ spec.instances[j].name \in Names
        BY <1>0, <2>4, <2>6, <3>2, SentIndices DEF latest
      <4>2. StatefulSet(spec.instances[j].name) \in Keys
            /\ StatefulSet(spec.instances[j].name) # k
        BY <2>1, <4>1, KeyFacts, KeysDiffer
      <4>3. statefulSetFollows(me.obj.uid, spec, spec.instances[j])
        BY <4>1 DEF SentInv
      <4>. QED
        BY <2>2, <2>3, <4>2, <4>3 DEF statefulSetFollows
    <3>. QED
      BY <3>1, <3>2
  <2>7. ASSUME NEW j \in latest(servicesSent)'
        PROVE  serviceFollows(me.obj.uid, spec.instances[j])'
    <3>1. j \in latest(servicesSent) /\ spec.instances[j].name \in Names
      BY <1>0, <2>5, <2>7, SentIndices DEF latest
    <3>2. /\ Service(spec.instances[j].name) \in Keys
          /\ Service(spec.instances[j].name) # k
      BY <2>1, <3>1, KeyFacts, KeysDiffer
    <3>3. serviceFollows(me.obj.uid, spec.instances[j])
      BY <3>1 DEF SentInv
    <3>. QED
      BY <2>2, <2>3, <3>2, <3>3 DEF serviceFollows
  <2>. QED
    BY <2>6, <2>7 DEF SentInv
<1>. QED
  BY <1>1, <1>2

(* The Service of the monitoring is none of those that SentInv is about.   *)
LEMMA SentMonitoring == IInv /\ SentInv /\ reconcileMonitoring => SentInv'
<1> SUFFICES ASSUME IInv, SentInv, reconcileMonitoring PROVE SentInv'
  OBVIOUS
<1>0. /\ pc = "metrics" /\ CreateOrUpdate(Metrics, metricsData, "status", 1)
      /\ \A j \in DOMAIN spec.instances : spec.instances[j].name \in Names
  BY SentIndices DEF reconcileMonitoring
<1>1. CASE ~accepted(Metrics, metricsData)
  BY <1>0, <1>1, SentFail DEF CreateOrUpdate
<1>2. CASE accepted(Metrics, metricsData)
  <2>1. /\ \A x \in Keys : x # Metrics => child'[x] = child[x]
        /\ pc' = "status" /\ me' = me
    BY <1>0, <1>2, KeyFacts, SentChild
  <2>2. /\ spec' = spec /\ servicesSent' = servicesSent
        /\ statefulSetsSent' = statefulSetsSent
    BY <1>0, <2>1 DEF spec, servicesSent, statefulSetsSent
  <2>3. /\ latest(servicesSent)' = latest(servicesSent)
        /\ latest(statefulSetsSent)' = latest(statefulSetsSent)
    BY <2>2 DEF latest
  <2>4. ASSUME NEW j \in latest(servicesSent)'
        PROVE  serviceFollows(me.obj.uid, spec.instances[j])'
    <3>1. j \in latest(servicesSent) /\ spec.instances[j].name \in Names
      BY <1>0, <2>3, <2>4, SentIndices DEF latest
    <3>2. serviceFollows(me.obj.uid, spec.instances[j])
      BY <3>1 DEF SentInv
    <3>3. Service(spec.instances[j].name) \in Keys
      BY <3>1, KeyFacts
    <3>. QED
      BY <2>1, <2>2, <3>2, <3>3 DEF serviceFollows
  <2>5. ASSUME NEW j \in latest(statefulSetsSent)'
        PROVE  statefulSetFollows(me.obj.uid, spec, spec.instances[j])'
    <3>1. j \in latest(statefulSetsSent) /\ spec.instances[j].name \in Names
      BY <1>0, <2>3, <2>5, SentIndices DEF latest
    <3>2. statefulSetFollows(me.obj.uid, spec, spec.instances[j])
      BY <3>1 DEF SentInv
    <3>3. /\ StatefulSet(spec.instances[j].name) \in Keys
          /\ StatefulSet(spec.instances[j].name) # Metrics
      BY <3>1, KeyFacts, KeysDiffer
    <3>. QED
      BY <2>1, <2>2, <3>2, <3>3 DEF statefulSetFollows
  <2>. QED
    BY <2>4, <2>5 DEF SentInv
<1>. QED
  BY <1>1, <1>2

(* Others delete children, or change how many replicas are ready.          *)
LEMMA SentOthers ==
    ASSUME IInv, SentInv,
           \/ \E k \in Removable : DeleteChild(k)
           \/ \E k \in Keys : Collect(k)
           \/ \E n \in Names : PodReady(n) \/ ScaleDown(n) \/ PodCrash(n)
    PROVE  SentInv'
<1> DEFINE Kept(k, o) ==
             /\ PutChildOutside(k, o)
             /\ o # Nil => /\ child[k] # Nil /\ o.owner = child[k].owner
                           /\ o.data = child[k].data
<1>0. PICK k \in Keys : \E o : Kept(k, o)
  <2>1. CASE \E k \in Removable : DeleteChild(k)
    BY <2>1, RemovableAssumption DEF DeleteChild
  <2>2. CASE \E k \in Keys : Collect(k)
    BY <2>2 DEF Collect
  <2>3. CASE \E n \in Names : PodReady(n) \/ ScaleDown(n) \/ PodCrash(n)
    <3>1. PICK n \in Names : PodReady(n) \/ ScaleDown(n) \/ PodCrash(n)
      BY <2>3
    <3> DEFINE k == StatefulSet(n)
    <3>2. PICK r : PutChildOutside(k, [child[k] EXCEPT !.ready = r]) /\ child[k] # Nil
      BY <3>1 DEF PodReady, ScaleDown, PodCrash, SetReady
    <3>3. k \in Keys /\ child[k] \in Object(k)
      BY <3>1, <3>2, StatefulSetFacts DEF IInv
    <3> HIDE DEF k
    <3>4. /\ [child[k] EXCEPT !.ready = r].owner = child[k].owner
          /\ [child[k] EXCEPT !.ready = r].data = child[k].data
      BY <3>3 DEF Object
    <3>. QED
      BY <3>2, <3>3, <3>4
  <2>. QED
    BY <2>1, <2>2, <2>3
<1>1. PICK o : Kept(k, o)
  BY <1>0
<1>2. PutChild(k, o) /\ UNCHANGED <<pc, idx, me>>
  BY <1>1 DEF PutChildOutside
<1>3. child'[k] = o /\ \A x \in Keys : x # k => child'[x] = child[x]
  BY <1>2, PutChildFresh DEF IInv
<1>4. \A x \in Keys : child'[x] # Nil =>
          /\ child[x] # Nil /\ child'[x].owner = child[x].owner
          /\ child'[x].data = child[x].data
  BY <1>1, <1>3
<1>. QED
  BY <1>2, <1>4, SentKept

(* Steps that leave the children alone.                                    *)
LEMMA SentQuiet ==
    ASSUME IInv, SentInv, UNCHANGED <<child, pc, idx>>, me'.obj = me.obj
    PROVE  SentInv'
BY SentKept

(* In every step.                                                          *)
LEMMA SentNext ==
    ASSUME IInv, SentInv, [Next]_vars
    PROVE  SentInv'
<1>1. CASE reconcileInstanceService \/ reconcileInstanceStatefulSet \/ reconcileMonitoring
  BY <1>1, SentService, SentStatefulSet, SentMonitoring
<1>2. CASE Start
  <2>1. CASE ccache.obj = Nil
    BY <1>2, <2>1, SentQuiet DEF Start, server
  <2>2. CASE ccache.obj # Nil
    BY <1>2, <2>2, SentNothing DEF Start, dispatch, firstDelete
  <2>. QED
    BY <2>1, <2>2
<1>3. CASE AddFinalizer \/ DefaultInstance \/ updateStatus \/ handleDeletion \/ Abort
  BY <1>3, SentNothing
     DEF AddFinalizer, DefaultInstance, updateStatus, handleDeletion, deleteStatefulSet,
         deleteService, deleteConfigMap, deleteSecret, removeFinalizer, Delete, Abort, Fail,
         Return, Goto, dispatch, firstDelete
<1>4. CASE reconcileConfigMap
  BY <1>4, SentNothing
     DEF reconcileConfigMap, CreateOrUpdate, Fail, Return, Goto
<1>5. CASE reconcileSecret
  <2>1. PICK pw \in Passwords :
          CreateOrUpdate(Secret, [pw |-> pw, users |-> spec.access], "Service", 1)
    BY <1>5 DEF reconcileSecret
  <2>2. CASE Fail
    BY <2>2, SentFail
  <2>3. CASE ~Fail
    <3>1. pc' = "Service" /\ idx' = 1
      BY <2>1, <2>3 DEF CreateOrUpdate, Goto
    <3>2. servicesSent' = {} /\ statefulSetsSent' = {}
      BY <3>1 DEF servicesSent, statefulSetsSent
    <3>. QED
      BY <3>2 DEF SentInv, latest
  <2>. QED
    BY <2>2, <2>3
<1>6. CASE UserStep
  <2>1. CASE \/ \E s \in Specs : CreateCluster(s) \/ EditSpec(s)
             \/ \E foreground \in Propagations : DeleteCluster(foreground)
    <3>1. \E o : PutClusterOutside(o)
      BY <2>1 DEF CreateCluster, EditSpec, DeleteCluster
    <3>. QED
      BY <3>1, PutClusterOutsideFresh, SentQuiet DEF IInv
  <2>. QED
    BY <1>6, <2>1, SentOthers DEF UserStep
<1>7. CASE KubeStep
  <2>1. CASE FinishForeground
    <3>1. \E o : PutClusterOutside(o)
      BY <2>1 DEF FinishForeground
    <3>. QED
      BY <3>1, PutClusterOutsideFresh, SentQuiet DEF IInv
  <2>2. CASE SyncCluster \/ \E k \in Keys : SyncChild(k)
    BY <2>2, SentQuiet DEF SyncCluster, SyncChild, server
  <2>. QED
    BY <1>7, <2>1, <2>2, SentOthers DEF KubeStep
<1>8. CASE UNCHANGED vars
  BY <1>8, SentQuiet DEF vars
<1>. QED
  BY <1>1, <1>2, <1>3, <1>4, <1>5, <1>6, <1>7, <1>8 DEF Next, Reconcile

(* A status is stored only when the Services and the StatefulSets of the   *)
(* specification it is stored over were brought up to it in the same round.*)
THEOREM FollowsSpec == Spec => StatusFollowsChildren
<1> DEFINE P == cluster # Nil /\ cluster' # Nil /\ cluster'.uid = cluster.uid
                  /\ cluster'.status # cluster.status =>
                  LET s == setDefaults(cluster.spec)
                  IN  \A j \in DOMAIN s.instances : lastNamed(s, j) =>
                         /\ serviceFollows(cluster.uid, s.instances[j])
                         /\ statefulSetFollows(cluster.uid, s, s.instances[j])
<1>1. IInv /\ SentInv /\ [Next]_vars => [P]_vars
  <2> SUFFICES ASSUME IInv, SentInv, [Next]_vars, cluster # Nil, cluster' # Nil,
                      cluster'.uid = cluster.uid, cluster'.status # cluster.status,
                      NEW j \in DOMAIN setDefaults(cluster.spec).instances,
                      lastNamed(setDefaults(cluster.spec), j)
               PROVE  /\ serviceFollows(cluster.uid, setDefaults(cluster.spec).instances[j])
                      /\ statefulSetFollows(cluster.uid, setDefaults(cluster.spec),
                                            setDefaults(cluster.spec).instances[j])
    OBVIOUS
  <2>1. cluster \in Cluster
    BY DEF IInv, TypeOK
  <2>2. ClusterStep
    BY EveryStep DEF ChildStep
  <2>3. updateStatus /\ me.obj = cluster
    BY <2>1, <2>2 DEF ClusterStep, Cluster
  <2>4. spec = setDefaults(cluster.spec) /\ pc = "status"
    BY <2>3 DEF spec, updateStatus
  <2>5. j \in latest(servicesSent) /\ j \in latest(statefulSetsSent)
    BY <2>4 DEF latest, servicesSent, statefulSetsSent, lastNamed
  <2>. QED
    BY <2>3, <2>4, <2>5 DEF SentInv
<1>2. Init => SentInv
  BY DEF Init, SentInv, latest, servicesSent, statefulSetsSent
<1>3. IInv /\ SentInv /\ [Next]_vars => SentInv'
  BY SentNext
<1>. QED
  BY Safety, <1>1, <1>2, <1>3, PTL DEF Spec, StatusFollowsChildren

-----------------------------------------------------------------------------
(* Nothing is forgotten.                                                   *)

(* handleDeletion works on a copy that has the finalizer.                  *)
LEMMA FinalizerNext ==
    ASSUME IInv, FinalizerInv, [Next]_vars
    PROVE  FinalizerInv'
<1>1. CASE Start
  BY <1>1 DEF Start, dispatch, firstDelete, deleteSteps, FinalizerInv
<1>2. CASE AddFinalizer
  <2>1. CASE Fail
    BY <2>1 DEF Fail, Return, deleteSteps, FinalizerInv
  <2>2. CASE ~Fail
    <3>1. me' = Copy([me.obj EXCEPT !.fin = TRUE]) /\ me.obj \in Cluster
      BY <1>2, <2>2, StepFacts DEF AddFinalizer, IInv
    <3>. QED
      BY <3>1 DEF Copy, Cluster, FinalizerInv
  <2>. QED
    BY <2>1, <2>2
<1>3. CASE \/ DefaultInstance \/ reconcileConfigMap \/ reconcileSecret
           \/ reconcileInstanceService \/ reconcileInstanceStatefulSet
           \/ reconcileMonitoring \/ updateStatus \/ Abort
  <2>1. pc' \notin deleteSteps
    BY <1>3 DEF DefaultInstance, reconcileConfigMap, reconcileSecret,
       reconcileInstanceService, reconcileInstanceStatefulSet, reconcileMonitoring,
       updateStatus, Abort, CreateOrUpdate, afterInstances, Fail, Return, Goto, deleteSteps
  <2>. QED
    BY <2>1 DEF FinalizerInv
<1>4. CASE handleDeletion
  BY <1>4 DEF handleDeletion, deleteStatefulSet, deleteService, deleteConfigMap,
     deleteSecret, removeFinalizer, Delete, Fail, Return, Goto, deleteSteps, FinalizerInv
<1>5. CASE UserStep \/ KubeStep \/ UNCHANGED vars
  <2>1. UNCHANGED pc /\ me'.obj = me.obj
    <3>1. CASE \/ \E s \in Specs : CreateCluster(s) \/ EditSpec(s)
               \/ \E foreground \in Propagations : DeleteCluster(foreground)
               \/ FinishForeground
      <4>1. \E o : PutClusterOutside(o)
        BY <3>1 DEF CreateCluster, EditSpec, DeleteCluster, FinishForeground
      <4>. QED
        BY <4>1, PutClusterOutsideFresh DEF IInv
    <3>2. CASE \/ \E k \in Removable : DeleteChild(k)
               \/ \E k \in Keys : SyncChild(k) \/ Collect(k)
               \/ \E n \in Names : PodReady(n) \/ ScaleDown(n) \/ PodCrash(n)
               \/ SyncCluster \/ UNCHANGED vars
      BY <3>2 DEF DeleteChild, SyncChild, Collect, PodReady, ScaleDown, PodCrash, SetReady,
         PutChildOutside, SyncCluster, vars
    <3>. QED
      BY <1>5, <3>1, <3>2 DEF UserStep, KubeStep
  <2>. QED
    BY <2>1 DEF FinalizerInv
<1>. QED
  BY <1>1, <1>2, <1>3, <1>4, <1>5 DEF Next, Reconcile

\* A write that changes the cluster leaves a cache that has yet to see it.
LEMMA PutClusterStale ==
    ASSUME NEW o, o # cluster, PutCluster(o), ccache \in CopyOf(Cluster \cup {Nil})
    PROVE  ~ccache'.fresh
BY DEF PutCluster, After, CopyOf

LEMMA NothingForgottenNext ==
    ASSUME IInv, FinalizerInv, NothingForgotten, [Next]_vars
    PROVE  NothingForgotten'
<1>. USE DEF NothingForgotten
<1>1. ccache \in CopyOf(Cluster \cup {Nil}) /\ cluster \in Cluster \cup {Nil}
  BY DEF IInv, TypeOK
<1>2. CASE Start
  <2>1. CASE ccache.obj = Nil
    <3>1. ccache.fresh => cluster = Nil
      BY <2>1 DEF IInv, FreshInv
    <3>2. UNCHANGED <<cluster, ccache>>
      BY <1>2 DEF Start, server
    <3>. QED
      BY <3>1, <3>2
  <2>2. CASE ccache.obj # Nil
    BY <1>2, <2>2 DEF Start, dispatch, firstDelete
  <2>. QED
    BY <2>1, <2>2
<1>3. CASE AddFinalizer
  BY <1>3 DEF AddFinalizer, dispatch, firstDelete, Fail, Return
<1>4. CASE \/ DefaultInstance \/ reconcileConfigMap \/ reconcileSecret
           \/ reconcileInstanceService \/ reconcileInstanceStatefulSet
           \/ reconcileMonitoring \/ updateStatus \/ Abort
  BY <1>4 DEF DefaultInstance, reconcileConfigMap, reconcileSecret,
     reconcileInstanceService, reconcileInstanceStatefulSet, reconcileMonitoring,
     updateStatus, Abort, CreateOrUpdate, afterInstances, Fail, Return, Goto
<1>5. CASE deleteStatefulSet \/ deleteService \/ deleteConfigMap \/ deleteSecret
  BY <1>5 DEF deleteStatefulSet, deleteService, deleteConfigMap, deleteSecret, Delete, Goto
<1>6. CASE removeFinalizer
  <2>1. CASE ~me.fresh
    BY <1>6, <2>1 DEF removeFinalizer, Fail, Return
  <2>2. CASE me.fresh /\ me.obj.fg
    <3>1. me.obj = cluster /\ me.obj \in Cluster /\ me.obj.fin
      BY <1>6, <2>2, StepFacts DEF removeFinalizer, FinalizerInv, deleteSteps, IInv, FreshInv
    <3>2. [me.obj EXCEPT !.fin = FALSE].fin = FALSE
      BY <3>1 DEF Cluster
    <3>3. [me.obj EXCEPT !.fin = FALSE] # cluster
      BY <3>1, <3>2
    <3>. QED
      BY <1>1, <1>6, <2>2, <3>3, PutClusterStale DEF removeFinalizer
  <2>3. CASE me.fresh /\ ~me.obj.fg
    BY <1>6, <2>3 DEF removeFinalizer, PutCluster
  <2>. QED
    BY <2>1, <2>2, <2>3
<1>7. CASE \/ \E s \in Specs : CreateCluster(s) \/ EditSpec(s)
           \/ \E foreground \in Propagations : DeleteCluster(foreground)
           \/ FinishForeground
  <2>1. PICK o : PutClusterOutside(o) /\ (o # Nil => o # cluster)
    <3>1. ASSUME NEW s \in Specs, CreateCluster(s)
          PROVE  \E o : PutClusterOutside(o) /\ (o # Nil => o # cluster)
      BY <3>1 DEF CreateCluster
    <3>2. ASSUME NEW s \in Specs, EditSpec(s)
          PROVE  \E o : PutClusterOutside(o) /\ (o # Nil => o # cluster)
      <4>1. [cluster EXCEPT !.spec = s].spec = s /\ s # cluster.spec
        BY <1>1, <3>2 DEF EditSpec, Cluster
      <4>2. PutClusterOutside([cluster EXCEPT !.spec = s])
        BY <3>2 DEF EditSpec
      <4>. QED
        BY <4>1, <4>2
    <3>3. ASSUME NEW foreground \in Propagations, DeleteCluster(foreground)
          PROVE  \E o : PutClusterOutside(o) /\ (o # Nil => o # cluster)
      <4>1. [cluster EXCEPT !.del = TRUE, !.fg = foreground].del /\ ~cluster.del
        BY <1>1, <3>3 DEF DeleteCluster, Cluster
      <4>2. \/ PutClusterOutside([cluster EXCEPT !.del = TRUE, !.fg = foreground])
            \/ PutClusterOutside(Nil)
        BY <3>3 DEF DeleteCluster
      <4>. QED
        BY <4>1, <4>2
    <3>4. ASSUME FinishForeground
          PROVE  \E o : PutClusterOutside(o) /\ (o # Nil => o # cluster)
      <4>1. ~[cluster EXCEPT !.fg = FALSE].fg /\ cluster.fg
        BY <1>1, <3>4 DEF FinishForeground, Cluster
      <4>2. PutClusterOutside([cluster EXCEPT !.fg = FALSE]) \/ PutClusterOutside(Nil)
        BY <3>4 DEF FinishForeground
      <4>. QED
        BY <4>1, <4>2
    <3>. QED
      BY <1>7, <3>1, <3>2, <3>3, <3>4
  <2>2. PutCluster(o) /\ cluster' = o
    BY <2>1 DEF PutClusterOutside, PutCluster
  <2>. QED
    BY <1>1, <2>1, <2>2, PutClusterStale
<1>8. CASE SyncCluster \/ \E k \in Keys : SyncChild(k)
  BY <1>8 DEF SyncCluster, SyncChild
<1>9. CASE \/ \E k \in Removable : DeleteChild(k)
           \/ \E k \in Keys : Collect(k)
           \/ \E n \in Names : PodReady(n) \/ ScaleDown(n) \/ PodCrash(n)
           \/ UNCHANGED vars
  BY <1>9 DEF DeleteChild, Collect, PodReady, ScaleDown, PodCrash, SetReady,
     PutChildOutside, vars
<1>. QED
  BY <1>2, <1>3, <1>4, <1>5, <1>6, <1>7, <1>8, <1>9
     DEF Next, Reconcile, handleDeletion, UserStep, KubeStep

(* Reconcile will look at every cluster that exists: a round is under way, *)
(* its key is queued, or the cache has yet to see its last change.         *)
THEOREM ForgetsNothing == Spec => []NothingForgotten
<1>1. Init => FinalizerInv /\ NothingForgotten
  BY DEF Init, FinalizerInv, NothingForgotten, deleteSteps
<1>2. IInv /\ FinalizerInv /\ NothingForgotten /\ [Next]_vars
        => FinalizerInv' /\ NothingForgotten'
  BY FinalizerNext, NothingForgottenNext
<1>. QED
  BY Safety, <1>1, <1>2, PTL DEF Spec
=============================================================================
