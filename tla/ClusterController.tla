-------------------------- MODULE ClusterController --------------------------
(***************************************************************************)
(* The PostgresCluster controller (controllers/postgrescluster_controller  *)
(* .go) with the helper it writes its children through (internal/k8s/      *)
(* resources.go), the API server, the informer caches it reads from and    *)
(* the Kubernetes controllers that act on what it writes.  One cluster     *)
(* name is modelled: the work queue never reconciles a key twice at once.  *)
(***************************************************************************)
EXTENDS Copies, Integers, Sequences, FiniteSets, Functions

CONSTANTS
    Names,        \* instance names
    Quantities,   \* resource quantities that parse ("" does not)
    DefaultSize, DefaultResources,
    Params,       \* postgresql.conf parameters an instance may set
    Users,        \* names of spec.database.access
    Passwords,    \* what GeneratePassword may return
    Specs,        \* the specifications users write
    Removable,    \* children that somebody else may delete
    Propagations, \* do deletions of the cluster ask for foreground propagation?
    MaxUid, MaxEdits, MaxFaults   \* bounds: incarnations, edits, faults

Roles == {"primary", "replica"}

Instance ==
    [name : Names, role : Roles, replicas : Nat \cup {Nil},
     storage : Quantities \cup {"", Nil}, resources : Quantities \cup {"", Nil},
     config : SUBSET Params]

\* metrics stands for monitoring.enabled and monitoring.prometheus.enabled.
ClusterSpec ==
    [instances : Seq(Instance), replicas : Nat, size : Quantities \cup {""},
     resources : Quantities \cup {""}, ha : BOOLEAN, sync : BOOLEAN,
     access : SUBSET Users, metrics : BOOLEAN]

Uids == 1 .. MaxUid

ConfigMap == <<"ConfigMap", "config">>
Secret == <<"Secret", "credentials">>
Metrics == <<"Service", "metrics">>
Service(n) == <<"Service", n>>
StatefulSet(n) == <<"StatefulSet", n>>

Keys == {ConfigMap, Secret, Metrics}
          \cup {Service(n) : n \in Names} \cup {StatefulSet(n) : n \in Names}

ASSUME NamesAssumption == "primary" \in Names
ASSUME QuantitiesAssumption ==
    /\ DefaultSize \in Quantities
    /\ DefaultResources \in Quantities
    /\ "" \notin Quantities /\ Nil \notin Quantities /\ Nil # ""
ASSUME SpecsAssumption == Specs \subseteq ClusterSpec
ASSUME RemovableAssumption == Removable \subseteq Keys \ {Secret}
ASSUME PropagationsAssumption == Propagations \subseteq BOOLEAN
ASSUME BoundsAssumption == MaxUid \in Nat /\ MaxEdits \in Nat /\ MaxFaults \in Nat

VARIABLES
    cluster,    \* the PostgresCluster on the API server
    child,      \* the objects it owns on the API server
    volumes,    \* per instance, the data directories its volumes hold
    ccache,     \* the manager's cached copy of cluster
    kcache,     \* the manager's cached copies of the children
    queued,     \* the work queue holds, or a timer will add, the key
    pc, idx,    \* what Reconcile does next, and for which instance
    me,         \* Reconcile's copy of the cluster
    uids, edits, faults   \* how much of each bound is used

server == <<cluster, child, volumes>>
bounds == <<uids, edits, faults>>
vars == <<cluster, child, volumes, ccache, kcache, queued, pc, idx, me,
          uids, edits, faults>>

-----------------------------------------------------------------------------
(* Writes to the API server.                                               *)

PutCluster(o) ==
    /\ cluster' = o
    /\ ccache' = After(ccache, cluster, o)

PutChild(k, o) ==
    /\ child' = [child EXCEPT ![k] = o]
    /\ kcache' = [kcache EXCEPT ![k] = After(@, child[k], o)]

-----------------------------------------------------------------------------
(* What Reconcile computes from the specification.                         *)

setDefaults(s) ==
    [s EXCEPT !.replicas = IF @ = 0 THEN 1 ELSE @,
              !.size = IF @ = "" THEN DefaultSize ELSE @,
              !.resources = IF @ = "" THEN DefaultResources ELSE @]

\* The instance that stands for a legacy specification without instances.
defaultInstance(s) ==
    [name |-> "primary", role |-> "primary", replicas |-> s.replicas,
     storage |-> s.size, resources |-> s.resources, config |-> {}]

withDefaultInstance(s) ==
    LET d == setDefaults(s)
    IN  [d EXCEPT !.instances = <<defaultInstance(d)>>]

\* Mutant: a pointer that is not set is taken as it is.
effectiveUnchecked(pointer, fallback) == pointer

effective(pointer, fallback) == IF pointer # Nil THEN pointer ELSE fallback

Replicas(ins) == effective(ins.replicas, 1)
StorageSize(s, ins) == effective(ins.storage, s.size)
Resources(s, ins) == effective(ins.resources, s.resources)

generatePostgresConfig(s) ==
    (IF s.ha THEN {<<"all", "synchronous_commit">>} ELSE {})
      \cup (IF s.ha /\ s.sync THEN {<<"all", "synchronous_standby_names">>} ELSE {})
      \cup UNION {{s.instances[j].name} \X s.instances[j].config :
                      j \in DOMAIN s.instances}

serviceData(ins) == [instance |-> ins.name, role |-> ins.role]
metricsData == [instance |-> Nil, role |-> "prometheus"]

\* A replica of a highly available cluster follows the service
\* "<cluster>-primary", whatever its primary instance is called.
statefulSetData(s, ins) ==
    [replicas |-> Replicas(ins), size |-> StorageSize(s, ins),
     resources |-> Resources(s, ins), role |-> ins.role,
     follows |-> IF ins.role = "replica" /\ s.ha THEN "primary" ELSE Nil]

Parses(s, ins) == Resources(s, ins) # "" /\ StorageSize(s, ins) # ""

-----------------------------------------------------------------------------
(* The steps of Reconcile: one API call each.                              *)

\* The specification Reconcile works from, and the instance its loop is at.
spec == setDefaults(me.obj.spec)
instance == spec.instances[idx]

\* Reconcile returns; q: with an error or a requeue.
Return(q) ==
    /\ pc' = "idle"
    /\ idx' = 1
    /\ me' = NoCopy
    /\ queued' = (queued \/ q)

\* Mutant: the error is logged and not returned.
FailSilently == Return(FALSE) /\ UNCHANGED <<cluster, child, ccache, kcache>>

Fail == Return(TRUE) /\ UNCHANGED <<cluster, child, ccache, kcache>>

Goto(step, j) ==
    /\ pc' = step
    /\ idx' = j
    /\ UNCHANGED <<me, queued>>

firstDelete(c) == IF c.spec.instances = <<>> THEN "delConfigMap" ELSE "delStatefulSet"

\* Where Reconcile goes once the finalizer is on its copy.
dispatch(c) ==
    IF c.del THEN firstDelete(c)
    ELSE IF c.spec.instances = <<>> THEN "default" ELSE "ConfigMap"

Start ==
    /\ pc = "idle" /\ queued
    /\ queued' = FALSE
    /\ IF ccache.obj = Nil
       THEN UNCHANGED <<pc, idx, me>>
       ELSE /\ me' = ccache
            /\ idx' = 1
            /\ pc' = IF ccache.obj.fin THEN dispatch(ccache.obj) ELSE "finalizer"
    /\ UNCHANGED <<server, ccache, kcache, bounds>>

\* Mutant: the finalizer is added to the copy and never sent.
AddFinalizerLocally ==
    /\ pc = "finalizer"
    /\ me' = [me EXCEPT !.obj.fin = TRUE]
    /\ pc' = dispatch(me'.obj)
    /\ idx' = 1
    /\ UNCHANGED <<server, ccache, kcache, queued, bounds>>

\* The server forbids new finalizers on an object that is being deleted.
AddFinalizer ==
    /\ pc = "finalizer"
    /\ IF me.fresh /\ ~me.obj.del
       THEN LET o == [me.obj EXCEPT !.fin = TRUE]
            IN  /\ PutCluster(o)
                /\ me' = Copy(o)
                /\ pc' = dispatch(o)
                /\ idx' = 1
                /\ UNCHANGED <<queued, child, kcache>>
       ELSE Fail
    /\ UNCHANGED <<volumes, bounds>>

\* Mutant: the default instance is written over whatever is there.
DefaultInstanceForced ==
    /\ pc = "default"
    /\ IF cluster # Nil
       THEN /\ PutCluster([cluster EXCEPT !.spec = withDefaultInstance(me.obj.spec)])
            /\ Return(TRUE)
            /\ UNCHANGED <<child, kcache>>
       ELSE Fail
    /\ UNCHANGED <<volumes, bounds>>

DefaultInstance ==
    /\ pc = "default"
    /\ IF me.fresh
       THEN /\ PutCluster([me.obj EXCEPT !.spec = withDefaultInstance(@)])
            /\ Return(TRUE)
            /\ UNCHANGED <<child, kcache>>
       ELSE Fail
    /\ UNCHANGED <<volumes, bounds>>

\* Mutant: the data of a Secret or ConfigMap is not preserved.
desiredOverwriting(k, d) ==
    [owner |-> me.obj.uid, data |-> d,
     ready |-> IF kcache[k].obj # Nil THEN kcache[k].obj.ready ELSE 0]

\* Mutant: what exists is left as it is.
desiredOnce(k, d) ==
    [owner |-> me.obj.uid,
     data |-> IF kcache[k].obj # Nil THEN kcache[k].obj.data ELSE d,
     ready |-> IF kcache[k].obj # Nil THEN kcache[k].obj.ready ELSE 0]

\* What CreateOrUpdate sends for a child whose wanted data is d: the Data of a
\* cached Secret or ConfigMap wins over the wanted one.
desired(k, d) ==
    LET cur == kcache[k].obj
    IN  [owner |-> me.obj.uid,
         data |-> IF cur # Nil /\ k[1] \in {"Secret", "ConfigMap"} THEN cur.data ELSE d,
         ready |-> IF cur # Nil THEN cur.ready ELSE 0]

\* Create needs the name to be free; Update needs a fresh copy and, for a
\* StatefulSet, the volume claim templates to stay as they are.
accepted(k, d) ==
    LET cur == kcache[k].obj
    IN  IF cur = Nil THEN child[k] = Nil
        ELSE /\ kcache[k].fresh
             /\ k[1] = "StatefulSet" => d.size = cur.data.size

CreateOrUpdate(k, d, step, j) ==
    IF accepted(k, d)
    THEN /\ PutChild(k, desired(k, d))
         /\ Goto(step, j)
         /\ UNCHANGED <<cluster, ccache>>
    ELSE Fail

reconcileConfigMap ==
    /\ pc = "ConfigMap"
    /\ CreateOrUpdate(ConfigMap, generatePostgresConfig(spec), "Secret", 1)
    /\ UNCHANGED <<volumes, bounds>>

reconcileSecret ==
    /\ pc = "Secret"
    /\ \E pw \in Passwords :
          CreateOrUpdate(Secret, [pw |-> pw, users |-> spec.access], "Service", 1)
    /\ UNCHANGED <<volumes, bounds>>

reconcileInstanceService ==
    /\ pc = "Service"
    /\ CreateOrUpdate(Service(instance.name), serviceData(instance), "StatefulSet", idx)
    /\ UNCHANGED <<volumes, bounds>>

afterInstances(s) == IF s.metrics THEN "metrics" ELSE "status"

\* A quantity that does not parse is an error or a recovered panic.
reconcileInstanceStatefulSet ==
    /\ pc = "StatefulSet"
    /\ IF Parses(spec, instance)
       THEN IF idx < Len(spec.instances)
            THEN CreateOrUpdate(StatefulSet(instance.name), statefulSetData(spec, instance),
                                "Service", idx + 1)
            ELSE CreateOrUpdate(StatefulSet(instance.name), statefulSetData(spec, instance),
                                afterInstances(spec), 1)
       ELSE Fail
    /\ UNCHANGED <<volumes, bounds>>

reconcileMonitoring ==
    /\ pc = "metrics"
    /\ CreateOrUpdate(Metrics, metricsData, "status", 1)
    /\ UNCHANGED <<volumes, bounds>>

\* The ready replicas the cache shows for an instance.
readyReplicas(n) ==
    LET sts == kcache[StatefulSet(n)].obj
    IN  IF sts = Nil THEN 0 ELSE sts.ready

instanceStatus(ins) ==
    [name |-> ins.name, role |-> ins.role, ready |-> readyReplicas(ins.name)]

total(f) == FoldFunction(+, 0, f)

phaseOf(ready, expected) ==
    IF ready = expected THEN "Running"
    ELSE IF ready > 0 THEN "Degraded" ELSE "Pending"

\* The last primary instance with a ready replica, or what was there before.
currentPrimary(s, old) ==
    LET up == {j \in DOMAIN s.instances :
                  s.instances[j].role = "primary"
                    /\ readyReplicas(s.instances[j].name) > 0}
    IN  IF up = {} THEN old
        ELSE s.instances[CHOOSE j \in up : \A l \in up : l <= j].name

newStatus(s, old) ==
    [phase |-> phaseOf(total([j \in DOMAIN s.instances |->
                                 readyReplicas(s.instances[j].name)]),
                       total([j \in DOMAIN s.instances |-> Replicas(s.instances[j])])),
     primary |-> currentPrimary(s, old.primary),
     instances |-> [j \in DOMAIN s.instances |-> instanceStatus(s.instances[j])]]

\* Mutant: the status is written over whatever cluster is there.
updateStatusForced ==
    /\ pc = "status"
    /\ IF cluster # Nil
       THEN /\ PutCluster([cluster EXCEPT !.status = newStatus(spec, @)])
            /\ Return(TRUE)
            /\ UNCHANGED <<child, kcache>>
       ELSE Fail
    /\ UNCHANGED <<volumes, bounds>>

updateStatus ==
    /\ pc = "status"
    /\ IF me.fresh
       THEN /\ PutCluster([me.obj EXCEPT !.status = newStatus(spec, @)])
            /\ Return(TRUE)
            /\ UNCHANGED <<child, kcache>>
       ELSE Fail
    /\ UNCHANGED <<volumes, bounds>>

-----------------------------------------------------------------------------
(* handleDeletion: Delete calls by name, then the finalizer.               *)

\* Mutant: a child that is gone already is an error.
DeleteStrictly(k, step, j) ==
    IF child[k] # Nil
    THEN PutChild(k, Nil) /\ Goto(step, j) /\ UNCHANGED <<cluster, ccache>>
    ELSE Fail

Delete(k, step, j) ==
    /\ PutChild(k, Nil)
    /\ Goto(step, j)
    /\ UNCHANGED <<cluster, ccache>>

deleteStatefulSet ==
    /\ pc = "delStatefulSet"
    /\ Delete(StatefulSet(me.obj.spec.instances[idx].name), "delService", idx)
    /\ UNCHANGED <<volumes, bounds>>

\* Mutant: the loop stops before the last instance.
deleteServiceButLast ==
    /\ pc = "delService"
    /\ LET n == me.obj.spec.instances[idx].name
       IN  IF idx < Len(me.obj.spec.instances) - 1
           THEN Delete(Service(n), "delStatefulSet", idx + 1)
           ELSE Delete(Service(n), "delConfigMap", 1)
    /\ UNCHANGED <<volumes, bounds>>

deleteService ==
    /\ pc = "delService"
    /\ LET n == me.obj.spec.instances[idx].name
       IN  IF idx < Len(me.obj.spec.instances)
           THEN Delete(Service(n), "delStatefulSet", idx + 1)
           ELSE Delete(Service(n), "delConfigMap", 1)
    /\ UNCHANGED <<volumes, bounds>>

deleteConfigMap ==
    /\ pc = "delConfigMap"
    /\ Delete(ConfigMap, "delSecret", 1)
    /\ UNCHANGED <<volumes, bounds>>

\* Mutant: the Secret is left to the garbage collector.
deleteSecretLater ==
    /\ pc = "delSecret"
    /\ Goto("release", 1)
    /\ UNCHANGED <<server, ccache, kcache, bounds>>

deleteSecret ==
    /\ pc = "delSecret"
    /\ Delete(Secret, "release", 1)
    /\ UNCHANGED <<volumes, bounds>>

\* The server removes a deleted object with its last finalizer.
removeFinalizer ==
    /\ pc = "release"
    /\ IF me.fresh
       THEN /\ PutCluster(IF me.obj.fg THEN [me.obj EXCEPT !.fin = FALSE] ELSE Nil)
            /\ Return(FALSE)
            /\ UNCHANGED <<child, kcache>>
       ELSE Fail
    /\ UNCHANGED <<volumes, bounds>>

handleDeletion ==
    \/ deleteStatefulSet \/ deleteService
    \/ deleteConfigMap \/ deleteSecret \/ removeFinalizer

Reconcile ==
    \/ Start \/ AddFinalizer \/ DefaultInstance
    \/ reconcileConfigMap \/ reconcileSecret
    \/ reconcileInstanceService \/ reconcileInstanceStatefulSet
    \/ reconcileMonitoring \/ updateStatus
    \/ handleDeletion

\* A call fails or times out, or the manager restarts between two calls.
Abort ==
    /\ pc # "idle" /\ faults < MaxFaults
    /\ faults' = faults + 1
    /\ Fail
    /\ UNCHANGED <<volumes, uids, edits>>

-----------------------------------------------------------------------------
(* Watches: a cached copy catches up and the key is queued.                *)

SyncCluster ==
    /\ ~ccache.fresh
    /\ ccache' = Copy(cluster)
    /\ queued' = TRUE
    /\ UNCHANGED <<server, kcache, pc, idx, me, bounds>>

SyncChild(k) ==
    /\ ~kcache[k].fresh
    /\ kcache' = [kcache EXCEPT ![k] = Copy(child[k])]
    /\ queued' = TRUE
    /\ UNCHANGED <<server, ccache, pc, idx, me, bounds>>

-----------------------------------------------------------------------------
(* Users of the API.                                                       *)

\* A write by anybody but Reconcile outdates its copy too.
PutClusterOutside(o) ==
    /\ PutCluster(o)
    /\ me' = After(me, cluster, o)
    /\ UNCHANGED <<child, volumes, kcache, queued, pc, idx>>

NoStatus == [phase |-> Nil, primary |-> Nil, instances |-> <<>>]

CreateCluster(s) ==
    /\ cluster = Nil /\ uids < MaxUid
    /\ uids' = uids + 1
    /\ PutClusterOutside([uid |-> uids + 1, del |-> FALSE, fin |-> FALSE, fg |-> FALSE,
                          spec |-> s, status |-> NoStatus])
    /\ UNCHANGED <<edits, faults>>

EditSpec(s) ==
    /\ cluster # Nil /\ edits < MaxEdits
    /\ s # cluster.spec
    /\ edits' = edits + 1
    /\ PutClusterOutside([cluster EXCEPT !.spec = s])
    /\ UNCHANGED <<uids, faults>>

\* With foreground propagation the object stays until its children are gone.
DeleteCluster(foreground) ==
    /\ cluster # Nil /\ ~cluster.del
    /\ PutClusterOutside(
           IF cluster.fin \/ foreground
           THEN [cluster EXCEPT !.del = TRUE, !.fg = foreground] ELSE Nil)
    /\ UNCHANGED bounds

PutChildOutside(k, o) ==
    /\ PutChild(k, o)
    /\ UNCHANGED <<cluster, ccache, queued, pc, idx, me>>

DeleteChild(k) ==
    /\ child[k] # Nil /\ faults < MaxFaults
    /\ faults' = faults + 1
    /\ PutChildOutside(k, Nil)
    /\ UNCHANGED <<volumes, uids, edits>>

-----------------------------------------------------------------------------
(* Kubernetes: garbage collector and StatefulSet controller.               *)

Owned(k) == child[k] # Nil /\ cluster # Nil /\ child[k].owner = cluster.uid

Collect(k) ==
    /\ child[k] # Nil
    /\ Owned(k) => cluster.fg
    /\ PutChildOutside(k, Nil)
    /\ UNCHANGED <<volumes, bounds>>

FinishForeground ==
    /\ cluster # Nil /\ cluster.fg
    /\ \A k \in Keys : ~Owned(k)
    /\ PutClusterOutside(IF cluster.fin THEN [cluster EXCEPT !.fg = FALSE] ELSE Nil)
    /\ UNCHANGED bounds

SetReady(n, r) ==
    PutChildOutside(StatefulSet(n), [child[StatefulSet(n)] EXCEPT !.ready = r])

\* A pod needs the Secret and the ConfigMap.  On an empty volume PostgreSQL
\* initialises a data directory with the Secret's password; on a used one it
\* keeps what is there.
PodReady(n) ==
    /\ child[StatefulSet(n)] # Nil
    /\ child[StatefulSet(n)].ready < child[StatefulSet(n)].data.replicas
    /\ child[Secret] # Nil /\ child[ConfigMap] # Nil
    /\ SetReady(n, child[StatefulSet(n)].ready + 1)
    /\ LET new == [uid |-> child[Secret].owner, pw |-> child[Secret].data.pw]
       IN  \/ volumes' = [volumes EXCEPT ![n] = @ \cup {new}]
           \/ volumes[n] # {} /\ UNCHANGED volumes
    /\ UNCHANGED bounds

ScaleDown(n) ==
    /\ child[StatefulSet(n)] # Nil
    /\ child[StatefulSet(n)].ready > child[StatefulSet(n)].data.replicas
    /\ SetReady(n, child[StatefulSet(n)].ready - 1)
    /\ UNCHANGED <<volumes, bounds>>

PodCrash(n) ==
    /\ child[StatefulSet(n)] # Nil /\ child[StatefulSet(n)].ready > 0
    /\ faults < MaxFaults
    /\ faults' = faults + 1
    /\ SetReady(n, child[StatefulSet(n)].ready - 1)
    /\ UNCHANGED <<volumes, uids, edits>>

-----------------------------------------------------------------------------

Init ==
    /\ cluster = Nil
    /\ child = [k \in Keys |-> Nil]
    /\ volumes = [n \in Names |-> {}]
    /\ ccache = Copy(Nil)
    /\ kcache = [k \in Keys |-> Copy(Nil)]
    /\ queued = FALSE
    /\ pc = "idle" /\ idx = 1 /\ me = NoCopy
    /\ uids = 0 /\ edits = 0 /\ faults = 0

UserStep ==
    \/ \E s \in Specs : CreateCluster(s) \/ EditSpec(s)
    \/ \E foreground \in Propagations : DeleteCluster(foreground)
    \/ \E k \in Removable : DeleteChild(k)

KubeStep ==
    \/ SyncCluster \/ FinishForeground
    \/ \E k \in Keys : SyncChild(k) \/ Collect(k)
    \/ \E n \in Names : PodReady(n) \/ ScaleDown(n) \/ PodCrash(n)

Next == Reconcile \/ Abort \/ UserStep \/ KubeStep

Spec == Init /\ [][Next]_vars

\* The work queue's worker, the watches, the garbage collector and the
\* StatefulSet controller keep running; users and faults owe nothing.
Fairness ==
    /\ WF_vars(Reconcile)
    /\ WF_vars(SyncCluster)
    /\ WF_vars(FinishForeground)
    /\ \A k \in Keys : WF_vars(SyncChild(k)) /\ WF_vars(Collect(k))
    /\ \A n \in Names : WF_vars(PodReady(n)) /\ WF_vars(ScaleDown(n))

FairSpec == Spec /\ Fairness
-----------------------------------------------------------------------------
(* Types.                                                                  *)

Status ==
    [phase : {Nil, "Running", "Degraded", "Pending"}, primary : Names \cup {Nil},
     instances : Seq([name : Names, role : Roles, ready : Nat])]

Cluster ==
    [uid : Uids, del : BOOLEAN, fin : BOOLEAN, fg : BOOLEAN, spec : ClusterSpec,
     status : Status]

DataOf(kind) ==
    CASE kind = "ConfigMap" -> SUBSET ((Names \cup {"all"}) \X
             (Params \cup {"synchronous_commit", "synchronous_standby_names"}))
      [] kind = "Secret" -> [pw : Passwords, users : SUBSET Users]
      [] kind = "Service" -> [instance : Names \cup {Nil}, role : Roles \cup {"prometheus"}]
      [] kind = "StatefulSet" ->
             [replicas : Nat, size : Quantities, resources : Quantities, role : Roles,
              follows : {"primary", Nil}]

Object(k) == [owner : Uids, data : DataOf(k[1]), ready : Nat]
Child(k) == Object(k) \cup {Nil}

ASSUME NilAssumption ==
    Nil \notin Cluster /\ \A k \in Keys : Nil \notin Object(k)

createSteps == {"ConfigMap", "Secret", "Service", "StatefulSet", "metrics", "status"}
instanceSteps == {"Service", "StatefulSet", "delStatefulSet", "delService"}
deleteSteps == {"delStatefulSet", "delService", "delConfigMap", "delSecret", "release"}

\* Every variable keeps its type.
TypeOK ==
    /\ cluster \in Cluster \cup {Nil}
    /\ DOMAIN child = Keys /\ \A k \in Keys : child[k] \in Child(k)
    /\ volumes \in [Names -> SUBSET [uid : Uids, pw : Passwords]]
    /\ ccache \in CopyOf(Cluster \cup {Nil})
    /\ DOMAIN kcache = Keys /\ \A k \in Keys : kcache[k] \in CopyOf(Child(k))
    /\ queued \in BOOLEAN
    /\ pc \in {"idle", "finalizer", "default"} \cup createSteps \cup deleteSteps
    /\ idx \in Nat \ {0}
    /\ me \in CopyOf(Cluster \cup {Nil})
    /\ uids \in 0 .. MaxUid /\ edits \in 0 .. MaxEdits /\ faults \in 0 .. MaxFaults

-----------------------------------------------------------------------------
(* What the controller promises.                                           *)

\* While a cluster is not being deleted, the password in its Secret opens every
\* data directory that was initialised under it: the Secret is neither removed
\* nor rewritten by the random passwords that reconcileSecret draws each time,
\* whatever the caches show.
CredentialsOpenData ==
    cluster # Nil /\ ~cluster.del =>
        \A n \in Names : \A v \in volumes[n] :
            v.uid = cluster.uid =>
                child[Secret] # Nil /\ child[Secret].data.pw = v.pw

\* A Secret or ConfigMap belongs to the incarnation of the cluster that exists
\* now and that still carries the finalizer: a new cluster of the same name
\* never finds the credentials or the configuration of an earlier one.
NothingInherited ==
    \A k \in {Secret, ConfigMap} :
        child[k] # Nil =>
            cluster # Nil /\ cluster.fin /\ child[k].owner = cluster.uid

\* handleDeletion gives up the finalizer only when the Secret, the ConfigMap and
\* the Service and StatefulSet of every instance of the specification are gone,
\* although the specification may be edited and calls may fail meanwhile.
ReleasedClean ==
    [][cluster # Nil /\ cluster.fin /\ (cluster' = Nil \/ ~cluster'.fin) =>
         /\ cluster.del
         /\ child[Secret] = Nil /\ child[ConfigMap] = Nil
         /\ \A j \in DOMAIN cluster.spec.instances :
               /\ child[Service(cluster.spec.instances[j].name)] = Nil
               /\ child[StatefulSet(cluster.spec.instances[j].name)] = Nil]_vars

\* Reconcile creates a child only for the incarnation that exists at that moment
\* and carries the finalizer, so that every child is created under the finalizer
\* that will remove it, however old the copy is that Reconcile works from.
NoOrphanCreation ==
    [][\A k \in Keys : child[k] = Nil /\ child'[k] # Nil =>
         cluster # Nil /\ cluster.fin /\ child'[k].owner = cluster.uid]_vars

\* The controller changes a specification only to give a legacy one its default
\* instance, and computes that from the specification it replaces: it never
\* undoes an edit that was made after it read its copy.
NoLostEdit ==
    [][pc' # pc /\ cluster # Nil /\ cluster' # Nil /\ cluster'.spec # cluster.spec =>
         /\ cluster.spec.instances = <<>>
         /\ cluster'.spec = withDefaultInstance(cluster.spec)]_vars

\* A status is written only over the specification it was computed from: it
\* lists exactly the instances that the cluster has at that moment.
StatusDescribesSpec ==
    [][cluster # Nil /\ cluster' # Nil /\ cluster'.uid = cluster.uid
         /\ cluster'.status # cluster.status =>
         /\ ~cluster.del
         /\ DOMAIN cluster'.status.instances = DOMAIN cluster.spec.instances
         /\ \A j \in DOMAIN cluster.spec.instances :
               /\ cluster'.status.instances[j].name = cluster.spec.instances[j].name
               /\ cluster'.status.instances[j].role = cluster.spec.instances[j].role]_vars

\* Of several instances of one name the last one has its way.
lastNamed(s, j) ==
    \A l \in DOMAIN s.instances : l > j => s.instances[l].name # s.instances[j].name

\* The Service and the StatefulSet of an instance belong to this incarnation and
\* say what the specification says, unless somebody has deleted them.  (An instance
\* called metrics shares its Service with the monitoring.)
serviceFollows(uid, ins) ==
    LET service == child[Service(ins.name)]
    IN  service # Nil /\ Service(ins.name) # Metrics =>
            service.owner = uid /\ service.data = serviceData(ins)

statefulSetFollows(uid, s, ins) ==
    LET sts == child[StatefulSet(ins.name)]
    IN  sts # Nil => sts.owner = uid /\ sts.data = statefulSetData(s, ins)

\* A status is stored only after the Services and StatefulSets were brought up to
\* the specification it is stored over, whatever was there before and whatever the
\* caches showed.
StatusFollowsChildren ==
    [][cluster # Nil /\ cluster' # Nil /\ cluster'.uid = cluster.uid
         /\ cluster'.status # cluster.status =>
         LET s == setDefaults(cluster.spec)
         IN  \A j \in DOMAIN s.instances : lastNamed(s, j) =>
                /\ serviceFollows(cluster.uid, s.instances[j])
                /\ statefulSetFollows(cluster.uid, s, s.instances[j])]_vars

\* Reconcile will look at every cluster that exists: a round is under way, its key
\* is queued, or the cache has yet to see its last change.  No error, panic or
\* conflict and no kind of deletion ends a round for good.
NothingForgotten == cluster # Nil => queued \/ pc # "idle" \/ ~ccache.fresh

-----------------------------------------------------------------------------
(* Why the invariants hold.                                                *)

\* A fresh copy shows the object as it is.
FreshInv ==
    /\ ccache.fresh => ccache.obj = cluster
    /\ me.fresh => me.obj = cluster
    /\ \A k \in Keys : kcache[k].fresh => kcache[k].obj = child[k]

\* No uid is met before it is given out.
UidInv ==
    /\ \A c \in {cluster, ccache.obj, me.obj} : c # Nil => c.uid <= uids
    /\ \A n \in Names : \A v \in volumes[n] : v.uid <= uids

\* What the copies of the cluster, old as they may be, still tell about it.
CopyInv ==
    /\ cluster # Nil => (cluster.fg => cluster.del)
    /\ \A c \in {ccache.obj, me.obj} :
          c # Nil /\ cluster # Nil /\ c.del =>
              (c.uid = cluster.uid => cluster.del)
    /\ ccache.obj # Nil /\ ccache.obj.fin /\ ~ccache.obj.del =>
          cluster # Nil /\ cluster.uid = ccache.obj.uid /\ cluster.fin
    /\ cluster # Nil /\ (cluster.fin \/ (me.obj # Nil /\ me.obj.uid = cluster.uid)) =>
          ccache.obj # Nil /\ ccache.obj.uid = cluster.uid

\* Where Reconcile stands, as far as its own copy goes.
StepInv ==
    /\ pc # "idle" => me.obj # Nil
    /\ pc = "default" => me.obj.spec.instances = <<>>
    /\ pc \in createSteps => ~me.obj.del /\ me.obj.spec.instances # <<>>
    /\ pc \in deleteSteps => me.obj.del
    /\ pc \in instanceSteps => idx \in DOMAIN me.obj.spec.instances

\* Children are created only under the finalizer, and deleted by name only while
\* no other incarnation can own them.
ReconcileInv ==
    /\ pc \in createSteps =>
          cluster # Nil /\ cluster.uid = me.obj.uid /\ cluster.fin
    /\ pc \in deleteSteps =>
          /\ cluster # Nil /\ cluster.fin => cluster.uid = me.obj.uid
          /\ ccache.obj # Nil /\ ccache.obj.uid = me.obj.uid => ccache.obj.del

\* What handleDeletion has deleted so far stays deleted.
DeletedInv ==
    LET name(j) == me.obj.spec.instances[j].name
        gone(done) == \A j \in DOMAIN me.obj.spec.instances : j \in done =>
            child[StatefulSet(name(j))] = Nil /\ child[Service(name(j))] = Nil
    IN  /\ pc \in {"delStatefulSet", "delService"} => gone(1 .. idx - 1)
        /\ pc = "delService" => child[StatefulSet(name(idx))] = Nil
        /\ pc \in {"delConfigMap", "delSecret", "release"} =>
              gone(DOMAIN me.obj.spec.instances)
        /\ pc \in {"delSecret", "release"} => child[ConfigMap] = Nil
        /\ pc = "release" => child[Secret] = Nil

\* The inductive invariant: a stale copy can be acted on only in ways that the
\* conjuncts above make harmless.
IInv ==
    /\ TypeOK /\ FreshInv /\ UidInv /\ CopyInv /\ StepInv /\ ReconcileInv
    /\ DeletedInv /\ NothingInherited /\ CredentialsOpenData

\* The instances whose Service, or whose StatefulSet, this round has sent.
servicesSent ==
    CASE pc \in {"metrics", "status"} -> DOMAIN spec.instances
      [] pc = "StatefulSet" -> 1 .. idx
      [] pc = "Service" -> 1 .. idx - 1
      [] OTHER -> {}

statefulSetsSent ==
    CASE pc \in {"metrics", "status"} -> DOMAIN spec.instances
      [] pc \in {"Service", "StatefulSet"} -> 1 .. idx - 1
      [] OTHER -> {}

\* The last one of each name among them.
latest(sent) ==
    {j \in sent : \A l \in sent :
                    l > j => spec.instances[l].name # spec.instances[j].name}

\* What a round has sent is what it finds until it ends, unless it is deleted.
SentInv ==
    /\ \A j \in latest(servicesSent) : serviceFollows(me.obj.uid, spec.instances[j])
    /\ \A j \in latest(statefulSetsSent) :
          statefulSetFollows(me.obj.uid, spec, spec.instances[j])

\* handleDeletion works on a copy that has the finalizer, so that its last write
\* changes the cluster.
FinalizerInv == pc \in deleteSteps => me.obj.fin

-----------------------------------------------------------------------------
(* Refinement and liveness.                                                *)

Lifecycle ==
    INSTANCE CredentialLifecycle WITH
        phase <- IF cluster = Nil THEN "absent"
                 ELSE IF cluster.del THEN "deleting" ELSE "live",
        secret <- IF child[Secret] = Nil THEN Nil ELSE child[Secret].data.pw

\* The password has the life cycle that CredentialLifecycle describes.
CredentialsHaveLifecycle == Lifecycle!Spec

Live == cluster # Nil /\ ~cluster.del

\* Every quantity parses and no volume claim template would have to change.
Reconcilable ==
    \A j \in DOMAIN cluster.spec.instances :
        LET s == setDefaults(cluster.spec)
            ins == s.instances[j]
            sts == child[StatefulSet(ins.name)]
        IN  Parses(s, ins) /\ (sts # Nil => sts.data.size = StorageSize(s, ins))

Converged ==
    /\ cluster.spec.instances # <<>>
    /\ cluster.status.phase = "Running"
    /\ \A k \in {ConfigMap, Secret} : Owned(k)
    /\ \A j \in DOMAIN cluster.spec.instances :
          LET s == setDefaults(cluster.spec)
              ins == s.instances[j]
          IN  /\ Owned(Service(ins.name)) /\ Owned(StatefulSet(ins.name))
              /\ child[Service(ins.name)].data = serviceData(ins)
              /\ child[StatefulSet(ins.name)].data = statefulSetData(s, ins)
              /\ child[StatefulSet(ins.name)].ready = Replicas(ins)
              /\ cluster.status.instances[j] =
                    [name |-> ins.name, role |-> ins.role, ready |-> Replicas(ins)]

\* Once users leave a reconcilable cluster alone, its Services and StatefulSets
\* come to match the specification, those that crashed reconciliations or
\* third parties left missing included, and the status reports them running.
Converges == <>[](Live /\ Reconcilable) => <>[](Live /\ Converged)

\* A deletion that was asked for ends: the cluster goes, and with it every child
\* it owned, those of instances that were dropped from the specification and
\* those that were created while the deletion was under way included.
DeletionCompletes ==
    \A u \in Uids :
        cluster # Nil /\ cluster.uid = u /\ cluster.del
            ~> /\ cluster = Nil \/ cluster.uid # u
               /\ \A k \in Keys : child[k] # Nil => child[k].owner # u

-----------------------------------------------------------------------------
(* What a message of the controller says and the controller does not check. *)

\* updateStatus reports "All instances are ready" with the phase Running: then
\* every instance has as many ready replicas as the specification asks for.
RunningMeansAllReady ==
    [][cluster # Nil /\ cluster' # Nil /\ cluster'.status # cluster.status
         /\ cluster'.status.phase = "Running" =>
         \A j \in DOMAIN cluster.spec.instances :
             cluster'.status.instances[j].ready >= Replicas(cluster.spec.instances[j])]_vars

=============================================================================
