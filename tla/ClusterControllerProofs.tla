---------------------- MODULE ClusterControllerProofs ----------------------
(***************************************************************************)
(* Theorems about ClusterController, for every value of its constants.     *)
(***************************************************************************)
EXTENDS ClusterController, TLAPS, WellFoundedInduction, SequenceTheorems

-----------------------------------------------------------------------------
(* Lemmas about what Reconcile computes.                                   *)

(* A non-empty set of indices of a sequence has a greatest element: the    *)
(* CHOOSE of currentPrimary is defined.                                    *)
LEMMA GreatestIndex ==
    ASSUME NEW n \in Nat, NEW up, up \subseteq 1 .. n, up # {}
    PROVE  \E j \in up : \A l \in up : l <= j
<1> DEFINE less == {ss \in Nat \X Nat : ss[1] < ss[2]}
<1> DEFINE gaps == {n - j : j \in up}
<1>1. IsWellFoundedOn(less, Nat)
  BY NatLessThanWellFounded DEF OpToRel
<1>2. gaps \subseteq Nat
  OBVIOUS
<1>3. gaps # {}
  OBVIOUS
<1>4. \A x, y \in Nat : ~(<<y, x>> \in less) => x <= y
  OBVIOUS
<1> HIDE DEF less, gaps
<1>5. PICK x \in gaps : \A y \in gaps : ~(<<y, x>> \in less)
  BY <1>1, <1>2, <1>3, WFMin
<1>6. \A y \in gaps : x <= y
  BY <1>2, <1>4, <1>5
<1>7. PICK j \in up : x = n - j
  BY DEF gaps
<1>8. \A l \in up : n - j <= n - l
  BY <1>6, <1>7 DEF gaps
<1>9. \A l \in up : l <= j
  BY <1>8
<1>. QED BY <1>9

(* Defaulting keeps a specification well formed and its instances as they  *)
(* are.                                                                    *)
LEMMA DefaultsType ==
    ASSUME NEW s \in ClusterSpec
    PROVE  /\ setDefaults(s) \in ClusterSpec
           /\ setDefaults(s).instances = s.instances
           /\ setDefaults(s).size # ""
BY QuantitiesAssumption DEF setDefaults, ClusterSpec

(* The default instance completes a legacy specification.                  *)
LEMMA DefaultInstanceType ==
    ASSUME NEW s \in ClusterSpec
    PROVE  withDefaultInstance(s) \in ClusterSpec
<1> DEFINE d == setDefaults(s)
<1>1. d \in ClusterSpec
  BY DefaultsType
<1>2. defaultInstance(d) \in Instance
  BY <1>1, NamesAssumption DEF defaultInstance, ClusterSpec, Instance, Roles
<1>3. <<defaultInstance(d)>> \in Seq(Instance)
  BY <1>2
<1>. QED
  BY <1>1, <1>3 DEF withDefaultInstance, ClusterSpec

(* The children that a specification calls for have the data of their kind. *)
LEMMA DataType ==
    ASSUME NEW s \in ClusterSpec
    PROVE  /\ generatePostgresConfig(s) \in DataOf("ConfigMap")
           /\ \A pw \in Passwords : [pw |-> pw, users |-> s.access] \in DataOf("Secret")
           /\ metricsData \in DataOf("Service")
           /\ \A j \in DOMAIN s.instances :
                 /\ s.instances[j] \in Instance
                 /\ s.instances[j].name \in Names
                 /\ serviceData(s.instances[j]) \in DataOf("Service")
                 /\ Parses(s, s.instances[j]) =>
                       statefulSetData(s, s.instances[j]) \in DataOf("StatefulSet")
<1>1. \A j \in DOMAIN s.instances : s.instances[j] \in Instance
  <2>1. s.instances \in Seq(Instance)
    BY DEF ClusterSpec
  <2>. QED
    BY <2>1, LenProperties, ElementOfSeq
<1>2. generatePostgresConfig(s) \in DataOf("ConfigMap")
  <2>1. \A j \in DOMAIN s.instances :
          {s.instances[j].name} \X s.instances[j].config \subseteq Names \X Params
    BY <1>1 DEF Instance
  <2>. QED
    BY <2>1 DEF generatePostgresConfig, DataOf
<1>3. \A pw \in Passwords : [pw |-> pw, users |-> s.access] \in DataOf("Secret")
  BY DEF DataOf, ClusterSpec
<1>4. metricsData \in DataOf("Service")
  BY DEF DataOf, metricsData
<1>5. ASSUME NEW j \in DOMAIN s.instances
      PROVE  /\ s.instances[j].name \in Names
             /\ serviceData(s.instances[j]) \in DataOf("Service")
             /\ Parses(s, s.instances[j]) =>
                   statefulSetData(s, s.instances[j]) \in DataOf("StatefulSet")
  <2> DEFINE ins == s.instances[j]
  <2>1. ins \in Instance
    BY <1>1
  <2>2. ins.name \in Names /\ serviceData(ins) \in DataOf("Service")
    BY <2>1 DEF Instance, serviceData, DataOf
  <2>3. Replicas(ins) \in Nat
    BY <2>1 DEF Instance, Replicas, effective
  <2>4. Parses(s, ins) => StorageSize(s, ins) \in Quantities /\ Resources(s, ins) \in Quantities
    BY <2>1 DEF Parses, StorageSize, Resources, effective, Instance, ClusterSpec
  <2>5. Parses(s, ins) => statefulSetData(s, ins) \in DataOf("StatefulSet")
    BY <2>1, <2>3, <2>4 DEF statefulSetData, DataOf, Instance
  <2>. QED
    BY <2>2, <2>5
<1>. QED
  BY <1>1, <1>2, <1>3, <1>4, <1>5

(* Every key has the kind that its name suggests.                          *)
LEMMA KeyFacts ==
    /\ ConfigMap \in Keys /\ ConfigMap[1] = "ConfigMap"
    /\ Secret \in Keys /\ Secret[1] = "Secret"
    /\ Metrics \in Keys /\ Metrics[1] = "Service"
    /\ \A n \in Names : Service(n) \in Keys /\ Service(n)[1] = "Service"
    /\ \A n \in Names : StatefulSet(n) \in Keys /\ StatefulSet(n)[1] = "StatefulSet"
    /\ ConfigMap # Secret
    /\ \A n \in Names : /\ Service(n) # ConfigMap /\ Service(n) # Secret
                        /\ StatefulSet(n) # ConfigMap /\ StatefulSet(n) # Secret
    /\ Metrics # ConfigMap /\ Metrics # Secret
    /\ \A n, m \in Names : Service(n) # StatefulSet(m)
BY DEF Keys, ConfigMap, Secret, Metrics, Service, StatefulSet

(* A status that updateStatus writes is well formed, whatever the cache    *)
(* holds.                                                                  *)
LEMMA NewStatusType ==
    ASSUME TypeOK, NEW s \in ClusterSpec, NEW old \in Status
    PROVE  newStatus(s, old) \in Status
<1> DEFINE ins == s.instances
<1>1. ins \in Seq(Instance)
  BY DEF ClusterSpec
<1>2. Len(ins) \in Nat /\ DOMAIN ins = 1 .. Len(ins)
  BY <1>1, LenProperties
<1>3. \A j \in DOMAIN ins : ins[j] \in Instance /\ ins[j].name \in Names
  <2>1. \A j \in DOMAIN ins : ins[j] \in Instance
    BY <1>1, <1>2, ElementOfSeq
  <2>. QED
    BY <2>1 DEF Instance
<1>4. \A n \in Names : readyReplicas(n) \in Nat
  <2> SUFFICES ASSUME NEW n \in Names PROVE readyReplicas(n) \in Nat
    OBVIOUS
  <2>1. kcache[StatefulSet(n)] \in CopyOf(Child(StatefulSet(n)))
    BY KeyFacts DEF TypeOK
  <2>. QED
    BY <2>1 DEF readyReplicas, CopyOf, Child, Object
<1>5. \A j \in DOMAIN ins :
        instanceStatus(ins[j]) \in [name : Names, role : Roles, ready : Nat]
  BY <1>3, <1>4 DEF instanceStatus, Instance
<1>6. [j \in DOMAIN ins |-> instanceStatus(ins[j])]
        \in Seq([name : Names, role : Roles, ready : Nat])
  BY <1>2, <1>5, IsASeq
<1>7. currentPrimary(s, old.primary) \in Names \cup {Nil}
  <2> DEFINE up == {j \in DOMAIN ins : ins[j].role = "primary" /\ readyReplicas(ins[j].name) > 0}
  <2>1. CASE up = {}
    BY <2>1 DEF currentPrimary, Status
  <2>2. CASE up # {}
    <3>1. \E j \in up : \A l \in up : l <= j
      BY <1>2, <2>2, GreatestIndex
    <3> DEFINE last == CHOOSE j \in up : \A l \in up : l <= j
    <3>2. last \in up
      BY <3>1
    <3>3. ins[last].name \in Names
      BY <1>3, <3>2
    <3>4. currentPrimary(s, old.primary) = ins[last].name
      BY <2>2 DEF currentPrimary
    <3>. QED
      BY <3>3, <3>4
  <2>. QED
    BY <2>1, <2>2
<1>8. \A a, b : phaseOf(a, b) \in {"Running", "Degraded", "Pending"}
  BY DEF phaseOf
<1>. QED
  BY <1>6, <1>7, <1>8 DEF newStatus, Status

-----------------------------------------------------------------------------
(* Type correctness.                                                       *)

LEMMA PutClusterType ==
    ASSUME TypeOK, NEW o \in Cluster \cup {Nil}, PutCluster(o)
    PROVE  /\ cluster' \in Cluster \cup {Nil}
           /\ ccache' \in CopyOf(Cluster \cup {Nil})
           /\ After(me, cluster, o) \in CopyOf(Cluster \cup {Nil})
BY DEF TypeOK, PutCluster, After, CopyOf

LEMMA PutChildType ==
    ASSUME TypeOK, NEW k \in Keys, NEW o \in Child(k), PutChild(k, o)
    PROVE  /\ DOMAIN child' = Keys /\ \A x \in Keys : child'[x] \in Child(x)
           /\ DOMAIN kcache' = Keys /\ \A x \in Keys : kcache'[x] \in CopyOf(Child(x))
<1>1. DOMAIN child' = Keys /\ DOMAIN kcache' = Keys
  BY DEF TypeOK, PutChild
<1>2. \A x \in Keys : child'[x] \in Child(x)
  BY DEF TypeOK, PutChild
<1>3. \A x \in Keys : kcache'[x] \in CopyOf(Child(x))
  <2> SUFFICES ASSUME NEW x \in Keys PROVE kcache'[x] \in CopyOf(Child(x))
    OBVIOUS
  <2>1. kcache[x] \in CopyOf(Child(x))
    BY DEF TypeOK
  <2>2. kcache'[x] = IF x = k THEN After(kcache[x], child[k], o) ELSE kcache[x]
    BY DEF TypeOK, PutChild
  <2>. QED
    BY <2>1, <2>2 DEF After, CopyOf
<1>. QED
  BY <1>1, <1>2, <1>3

(* A return, with or without an error, keeps the types of what it changes. *)
LEMMA ReturnType ==
    ASSUME TypeOK, NEW q \in BOOLEAN, Return(q)
    PROVE  /\ pc' = "idle" /\ idx' = 1 /\ queued' \in BOOLEAN
           /\ me' \in CopyOf(Cluster \cup {Nil})
BY DEF TypeOK, Return, NoCopy, CopyOf

LEMMA FailType ==
    ASSUME TypeOK, Fail, UNCHANGED volumes,
           uids' \in 0 .. MaxUid, edits' \in 0 .. MaxEdits, faults' \in 0 .. MaxFaults
    PROVE  TypeOK'
<1>1. Return(TRUE)
  BY DEF Fail
<1>2. /\ pc' = "idle" /\ idx' = 1 /\ queued' \in BOOLEAN
      /\ me' \in CopyOf(Cluster \cup {Nil})
  BY <1>1, ReturnType
<1>. QED
  BY <1>2 DEF Fail, TypeOK

(* What CreateOrUpdate writes is a child of its kind.                      *)
LEMMA DesiredType ==
    ASSUME TypeOK, me.obj \in Cluster, NEW k \in Keys, NEW d \in DataOf(k[1])
    PROVE  desired(k, d) \in Object(k)
<1>1. kcache[k] \in CopyOf(Child(k))
  BY DEF TypeOK
<1>2. me.obj.uid \in Uids
  BY DEF Cluster
<1>. QED
  BY <1>1, <1>2 DEF desired, CopyOf, Child, Object

LEMMA CreateOrUpdateType ==
    ASSUME TypeOK, me.obj \in Cluster, NEW k \in Keys, NEW d \in DataOf(k[1]),
           NEW step \in createSteps, NEW j \in Nat \ {0},
           CreateOrUpdate(k, d, step, j), UNCHANGED <<volumes, bounds>>
    PROVE  TypeOK'
<1>1. CASE accepted(k, d)
  <2>1. PutChild(k, desired(k, d)) /\ Goto(step, j) /\ UNCHANGED <<cluster, ccache>>
    BY <1>1 DEF CreateOrUpdate
  <2>2. desired(k, d) \in Child(k)
    BY DesiredType DEF Child
  <2>3. /\ DOMAIN child' = Keys /\ \A x \in Keys : child'[x] \in Child(x)
        /\ DOMAIN kcache' = Keys /\ \A x \in Keys : kcache'[x] \in CopyOf(Child(x))
    BY <2>1, <2>2, PutChildType
  <2>. QED
    BY <2>1, <2>3 DEF TypeOK, Goto, bounds
<1>2. CASE ~accepted(k, d)
  <2>1. Fail
    BY <1>2 DEF CreateOrUpdate
  <2>. QED
    BY <2>1, FailType DEF TypeOK, bounds
<1>. QED
  BY <1>1, <1>2

LEMMA DeleteType ==
    ASSUME TypeOK, NEW k \in Keys, NEW step \in deleteSteps, NEW j \in Nat \ {0},
           Delete(k, step, j), UNCHANGED <<volumes, bounds>>
    PROVE  TypeOK'
<1>1. PutChild(k, Nil) /\ Goto(step, j) /\ UNCHANGED <<cluster, ccache>>
  BY DEF Delete
<1>2. /\ DOMAIN child' = Keys /\ \A x \in Keys : child'[x] \in Child(x)
      /\ DOMAIN kcache' = Keys /\ \A x \in Keys : kcache'[x] \in CopyOf(Child(x))
  BY <1>1, PutChildType DEF Child
<1>. QED
  BY <1>1, <1>2 DEF TypeOK, Goto, bounds

(* Writes by others than Reconcile.                                        *)
LEMMA PutClusterOutsideType ==
    ASSUME TypeOK, NEW o \in Cluster \cup {Nil}, PutClusterOutside(o),
           uids' \in 0 .. MaxUid, edits' \in 0 .. MaxEdits, faults' \in 0 .. MaxFaults
    PROVE  TypeOK'
<1>1. /\ cluster' \in Cluster \cup {Nil}
      /\ ccache' \in CopyOf(Cluster \cup {Nil})
      /\ me' \in CopyOf(Cluster \cup {Nil})
  BY PutClusterType DEF PutClusterOutside
<1>. QED
  BY <1>1 DEF TypeOK, PutClusterOutside

LEMMA PutChildOutsideType ==
    ASSUME TypeOK, NEW k \in Keys, NEW o \in Child(k), PutChildOutside(k, o),
           volumes' \in [Names -> SUBSET [uid : Uids, pw : Passwords]],
           uids' \in 0 .. MaxUid, edits' \in 0 .. MaxEdits, faults' \in 0 .. MaxFaults
    PROVE  TypeOK'
<1>1. /\ DOMAIN child' = Keys /\ \A x \in Keys : child'[x] \in Child(x)
      /\ DOMAIN kcache' = Keys /\ \A x \in Keys : kcache'[x] \in CopyOf(Child(x))
  BY PutChildType DEF PutChildOutside
<1>. QED
  BY <1>1 DEF TypeOK, PutChildOutside


(* While Reconcile runs it holds a copy, its specification is well formed, *)
(* and the loop variable points at an instance.                            *)
LEMMA StepFacts ==
    ASSUME TypeOK, StepInv, pc # "idle"
    PROVE  /\ me.obj \in Cluster /\ me.obj.spec \in ClusterSpec
           /\ spec \in ClusterSpec /\ spec.instances = me.obj.spec.instances
           /\ DOMAIN spec.instances = 1 .. Len(spec.instances)
           /\ Len(spec.instances) \in Nat
           /\ pc \in createSteps => 1 \in DOMAIN spec.instances
           /\ pc \in instanceSteps => idx \in DOMAIN spec.instances
<1>1. me.obj \in Cluster
  BY DEF TypeOK, StepInv, CopyOf
<1>2. me.obj.spec \in ClusterSpec
  BY <1>1 DEF Cluster
<1>3. spec \in ClusterSpec /\ spec.instances = me.obj.spec.instances
  BY <1>2, DefaultsType DEF spec
<1>4. spec.instances \in Seq(Instance)
  BY <1>3 DEF ClusterSpec
<1>5. DOMAIN spec.instances = 1 .. Len(spec.instances) /\ Len(spec.instances) \in Nat
  BY <1>4, LenProperties
<1>6. pc \in createSteps => 1 \in DOMAIN spec.instances
  BY <1>3, <1>4, <1>5, EmptySeq DEF StepInv
<1>7. pc \in instanceSteps => idx \in DOMAIN spec.instances
  BY <1>3 DEF StepInv
<1>. QED
  BY <1>1, <1>2, <1>3, <1>5, <1>6, <1>7

LEMMA TypeInit == Init => TypeOK /\ StepInv
<1> SUFFICES ASSUME Init PROVE TypeOK /\ StepInv
  OBVIOUS
<1>1. StepInv
  BY DEF Init, StepInv, createSteps, deleteSteps, instanceSteps
<1>2. \A T : Copy(Nil) \in CopyOf(T \cup {Nil}) /\ NoCopy \in CopyOf(T \cup {Nil})
  BY DEF CopyOf, Copy, NoCopy
<1>3. \A k \in Keys : Nil \in Child(k) /\ Copy(Nil) \in CopyOf(Child(k))
  BY <1>2 DEF Child
<1>4. /\ cluster \in Cluster \cup {Nil}
      /\ DOMAIN child = Keys /\ \A k \in Keys : child[k] \in Child(k)
      /\ volumes \in [Names -> SUBSET [uid : Uids, pw : Passwords]]
  BY <1>3 DEF Init
<1>5. /\ ccache \in CopyOf(Cluster \cup {Nil})
      /\ DOMAIN kcache = Keys /\ \A k \in Keys : kcache[k] \in CopyOf(Child(k))
      /\ me \in CopyOf(Cluster \cup {Nil})
  BY <1>2, <1>3 DEF Init
<1>6. uids \in 0 .. MaxUid /\ edits \in 0 .. MaxEdits /\ faults \in 0 .. MaxFaults
  BY BoundsAssumption DEF Init
<1>7. queued \in BOOLEAN
  BY Zenon DEF Init
<1>8. pc = "idle" /\ idx \in Nat \ {0}
  BY DEF Init
<1>9. TypeOK
  BY <1>4, <1>5, <1>6, <1>7, <1>8 DEF TypeOK
<1>. QED
  BY <1>1, <1>9

(* The steps of Reconcile that do not write.                               *)
LEMMA StartType ==
    ASSUME TypeOK, StepInv, Start
    PROVE  TypeOK' /\ StepInv'
<1> USE DEF Start, server, bounds
<1>1. CASE ccache.obj = Nil
  BY <1>1 DEF TypeOK, StepInv, createSteps, deleteSteps, instanceSteps
<1>2. CASE ccache.obj # Nil
  <2> DEFINE c == ccache.obj
  <2>1. c \in Cluster /\ ccache \in CopyOf(Cluster \cup {Nil})
    BY <1>2 DEF TypeOK, CopyOf
  <2>2. me' = ccache /\ idx' = 1 /\ pc' = IF c.fin THEN dispatch(c) ELSE "finalizer"
    BY <1>2
  <2>3. c.spec.instances \in Seq(Instance)
    BY <2>1 DEF Cluster, ClusterSpec
  <2>4. c.spec.instances # <<>> => 1 \in DOMAIN c.spec.instances
    BY <2>3, LenProperties, EmptySeq
  <2>5. StepInv'
    BY <1>2, <2>2, <2>4
       DEF StepInv, dispatch, firstDelete, createSteps, deleteSteps, instanceSteps
  <2>6. pc' \in {"finalizer", "default"} \cup createSteps \cup deleteSteps
    BY <2>2 DEF dispatch, firstDelete, createSteps, deleteSteps
  <2>7. /\ queued' \in BOOLEAN /\ idx' \in Nat \ {0}
        /\ UNCHANGED <<cluster, child, volumes, ccache, kcache, uids, edits, faults>>
    <3>1. queued' \in BOOLEAN
      BY Zenon DEF Start
    <3>. QED
      BY <2>2, <3>1 DEF Start
  <2>8. TypeOK'
    BY <2>1, <2>2, <2>6, <2>7 DEF TypeOK
  <2>. QED
    BY <2>5, <2>8
<1>. QED
  BY <1>1, <1>2

(* A failed or finished reconciliation stands nowhere.                     *)
LEMMA IdleStep ==
    ASSUME pc' = "idle" PROVE StepInv'
BY DEF StepInv, createSteps, deleteSteps, instanceSteps

LEMMA AddFinalizerType ==
    ASSUME TypeOK, StepInv, AddFinalizer
    PROVE  TypeOK' /\ StepInv'
<1>1. CASE me.fresh /\ ~me.obj.del
  <2> DEFINE o == [me.obj EXCEPT !.fin = TRUE]
  <2>1. PutCluster(o) /\ me' = Copy(o) /\ pc' = dispatch(o) /\ idx' = 1
    BY <1>1 DEF AddFinalizer
  <2>2. o \in Cluster /\ me.obj \in Cluster
    BY StepFacts DEF AddFinalizer, Cluster
  <2>3. cluster' \in Cluster \cup {Nil} /\ ccache' \in CopyOf(Cluster \cup {Nil})
    BY <2>1, <2>2, PutClusterType
  <2>4. me' \in CopyOf(Cluster \cup {Nil}) /\ me'.obj = o
    BY <2>1, <2>2 DEF Copy, CopyOf
  <2>5. o.spec.instances \in Seq(Instance)
    BY <2>2 DEF Cluster, ClusterSpec
  <2>6. o.spec.instances # <<>> => 1 \in DOMAIN o.spec.instances
    BY <2>5, LenProperties, EmptySeq
  <2>7. o # Nil
    BY <2>2, NilAssumption
  <2>8. StepInv'
    BY <2>1, <2>4, <2>6, <2>7
       DEF StepInv, dispatch, firstDelete, createSteps, deleteSteps, instanceSteps
  <2>9. TypeOK'
    BY <1>1, <2>1, <2>3, <2>4
       DEF TypeOK, AddFinalizer, dispatch, firstDelete, createSteps, deleteSteps, bounds
  <2>. QED
    BY <2>8, <2>9
<1>2. CASE ~(me.fresh /\ ~me.obj.del)
  <2>1. Fail /\ UNCHANGED <<volumes, bounds>>
    BY <1>2 DEF AddFinalizer
  <2>. QED
    BY <2>1, FailType, IdleStep DEF Fail, Return, TypeOK, bounds
<1>. QED
  BY <1>1, <1>2

(* The steps that write the cluster and return.                            *)
LEMMA LastWriteType ==
    ASSUME TypeOK, NEW o \in Cluster \cup {Nil}, NEW q \in BOOLEAN,
           PutCluster(o), Return(q), UNCHANGED <<child, kcache, volumes, bounds>>
    PROVE  TypeOK' /\ StepInv'
<1>1. cluster' \in Cluster \cup {Nil} /\ ccache' \in CopyOf(Cluster \cup {Nil})
  BY PutClusterType
<1>2. /\ pc' = "idle" /\ idx' = 1 /\ queued' \in BOOLEAN
      /\ me' \in CopyOf(Cluster \cup {Nil})
  BY ReturnType
<1>. QED
  BY <1>1, <1>2, IdleStep DEF TypeOK, bounds

LEMMA DefaultInstanceStepType ==
    ASSUME TypeOK, StepInv, DefaultInstance
    PROVE  TypeOK' /\ StepInv'
<1>1. CASE me.fresh
  <2>1. [me.obj EXCEPT !.spec = withDefaultInstance(@)] \in Cluster
    BY StepFacts, DefaultInstanceType DEF DefaultInstance, Cluster
  <2>. QED
    BY <1>1, <2>1, LastWriteType DEF DefaultInstance
<1>2. CASE ~me.fresh
  BY <1>2, FailType, IdleStep DEF DefaultInstance, Fail, Return, TypeOK, bounds
<1>. QED
  BY <1>1, <1>2

LEMMA UpdateStatusType ==
    ASSUME TypeOK, StepInv, updateStatus
    PROVE  TypeOK' /\ StepInv'
<1>1. CASE me.fresh
  <2>1. newStatus(spec, me.obj.status) \in Status
    BY StepFacts, NewStatusType DEF updateStatus, Cluster
  <2>2. [me.obj EXCEPT !.status = newStatus(spec, @)] \in Cluster
    BY <2>1, StepFacts DEF updateStatus, Cluster
  <2>. QED
    BY <1>1, <2>2, LastWriteType DEF updateStatus
<1>2. CASE ~me.fresh
  BY <1>2, FailType, IdleStep DEF updateStatus, Fail, Return, TypeOK, bounds
<1>. QED
  BY <1>1, <1>2

LEMMA RemoveFinalizerType ==
    ASSUME TypeOK, StepInv, removeFinalizer
    PROVE  TypeOK' /\ StepInv'
<1>1. CASE me.fresh
  <2> DEFINE o == IF me.obj.fg THEN [me.obj EXCEPT !.fin = FALSE] ELSE Nil
  <2>1. o \in Cluster \cup {Nil}
    BY StepFacts DEF removeFinalizer, Cluster
  <2>2. PutCluster(o) /\ Return(FALSE) /\ UNCHANGED <<child, kcache, volumes, bounds>>
    BY <1>1 DEF removeFinalizer
  <2>. QED
    BY <2>1, <2>2, LastWriteType
<1>2. CASE ~me.fresh
  BY <1>2, FailType, IdleStep DEF removeFinalizer, Fail, Return, TypeOK, bounds
<1>. QED
  BY <1>1, <1>2


(* Where a child step leads, if it does not fail.                          *)
LEMMA CreateOrUpdateStep ==
    ASSUME StepInv, pc \in createSteps,
           NEW k, NEW d, NEW step \in createSteps, NEW j,
           CreateOrUpdate(k, d, step, j),
           step \in instanceSteps => j \in DOMAIN me.obj.spec.instances
    PROVE  StepInv'
<1>1. CASE pc' = "idle"
  BY <1>1, IdleStep
<1>2. CASE pc' # "idle"
  <2>1. pc' = step /\ idx' = j /\ me' = me
    BY <1>2 DEF CreateOrUpdate, Goto, Fail, Return
  <2>2. me.obj # Nil /\ ~me.obj.del /\ me.obj.spec.instances # <<>>
    BY DEF StepInv, createSteps
  <2>. QED
    BY <2>1, <2>2 DEF StepInv, createSteps, deleteSteps
<1>. QED
  BY <1>1, <1>2

LEMMA ConfigMapType ==
    ASSUME TypeOK, StepInv, reconcileConfigMap
    PROVE  TypeOK' /\ StepInv'
<1>1. me.obj \in Cluster /\ generatePostgresConfig(spec) \in DataOf("ConfigMap")
  BY StepFacts, DataType DEF reconcileConfigMap
<1>2. TypeOK'
  BY <1>1, KeyFacts, CreateOrUpdateType DEF reconcileConfigMap, createSteps
<1>3. StepInv'
  BY CreateOrUpdateStep DEF reconcileConfigMap, createSteps, instanceSteps
<1>. QED
  BY <1>2, <1>3

LEMMA SecretType ==
    ASSUME TypeOK, StepInv, reconcileSecret
    PROVE  TypeOK' /\ StepInv'
<1>1. PICK pw \in Passwords :
        CreateOrUpdate(Secret, [pw |-> pw, users |-> spec.access], "Service", 1)
  BY DEF reconcileSecret
<1>2. /\ me.obj \in Cluster
      /\ [pw |-> pw, users |-> spec.access] \in DataOf("Secret")
      /\ 1 \in DOMAIN me.obj.spec.instances
  BY StepFacts, DataType DEF reconcileSecret, createSteps
<1>3. TypeOK'
  BY <1>1, <1>2, KeyFacts, CreateOrUpdateType DEF reconcileSecret, createSteps
<1>4. StepInv'
  BY <1>1, <1>2, CreateOrUpdateStep DEF reconcileSecret, createSteps
<1>. QED
  BY <1>3, <1>4

LEMMA ServiceType ==
    ASSUME TypeOK, StepInv, reconcileInstanceService
    PROVE  TypeOK' /\ StepInv'
<1>1. /\ me.obj \in Cluster /\ spec \in ClusterSpec
      /\ idx \in DOMAIN spec.instances /\ idx \in DOMAIN me.obj.spec.instances
      /\ idx \in Nat \ {0}
  BY StepFacts DEF reconcileInstanceService, instanceSteps, TypeOK
<1>2. instance.name \in Names /\ serviceData(instance) \in DataOf("Service")
  BY <1>1, DataType DEF instance
<1>3. TypeOK'
  BY <1>1, <1>2, KeyFacts, CreateOrUpdateType DEF reconcileInstanceService, createSteps
<1>4. StepInv'
  BY <1>1, CreateOrUpdateStep DEF reconcileInstanceService, createSteps
<1>. QED
  BY <1>3, <1>4

LEMMA StatefulSetType ==
    ASSUME TypeOK, StepInv, reconcileInstanceStatefulSet
    PROVE  TypeOK' /\ StepInv'
<1>1. /\ me.obj \in Cluster /\ spec \in ClusterSpec
      /\ idx \in DOMAIN spec.instances
      /\ DOMAIN spec.instances = DOMAIN me.obj.spec.instances
      /\ DOMAIN spec.instances = 1 .. Len(spec.instances) /\ Len(spec.instances) \in Nat
  BY StepFacts DEF reconcileInstanceStatefulSet, instanceSteps
<1>2. CASE ~Parses(spec, instance)
  BY <1>2, FailType, IdleStep
     DEF reconcileInstanceStatefulSet, Fail, Return, TypeOK, bounds
<1>3. CASE Parses(spec, instance)
  <2>1. /\ instance.name \in Names
        /\ statefulSetData(spec, instance) \in DataOf("StatefulSet")
    BY <1>1, <1>3, DataType DEF instance
  <2> DEFINE k == StatefulSet(instance.name)
             d == statefulSetData(spec, instance)
  <2>2. k \in Keys /\ d \in DataOf(k[1])
    BY <2>1, KeyFacts
  <2>3. CASE idx < Len(spec.instances)
    <3>1. CreateOrUpdate(k, d, "Service", idx + 1)
      BY <1>3, <2>3 DEF reconcileInstanceStatefulSet
    <3>2. idx + 1 \in DOMAIN me.obj.spec.instances /\ idx + 1 \in Nat \ {0}
      BY <1>1, <2>3
    <3> HIDE DEF k, d
    <3>3. TypeOK'
      BY <1>1, <2>2, <3>1, <3>2, CreateOrUpdateType
         DEF reconcileInstanceStatefulSet, createSteps
    <3>4. StepInv'
      BY <3>1, <3>2, CreateOrUpdateStep DEF reconcileInstanceStatefulSet, createSteps
    <3>. QED
      BY <3>3, <3>4
  <2>4. CASE ~(idx < Len(spec.instances))
    <3>1. CreateOrUpdate(k, d, afterInstances(spec), 1)
      BY <1>3, <2>4 DEF reconcileInstanceStatefulSet
    <3>2. /\ afterInstances(spec) \in createSteps
          /\ afterInstances(spec) \notin instanceSteps
      BY DEF afterInstances, createSteps, instanceSteps
    <3> HIDE DEF k, d
    <3>3. TypeOK'
      BY <1>1, <2>2, <3>1, <3>2, CreateOrUpdateType DEF reconcileInstanceStatefulSet
    <3>4. StepInv'
      BY <3>1, <3>2, CreateOrUpdateStep DEF reconcileInstanceStatefulSet, createSteps
    <3>. QED
      BY <3>3, <3>4
  <2>. QED
    BY <2>3, <2>4
<1>. QED
  BY <1>2, <1>3

LEMMA MonitoringType ==
    ASSUME TypeOK, StepInv, reconcileMonitoring
    PROVE  TypeOK' /\ StepInv'
<1>1. me.obj \in Cluster /\ metricsData \in DataOf("Service")
  BY StepFacts, DataType DEF reconcileMonitoring
<1>2. TypeOK'
  BY <1>1, KeyFacts, CreateOrUpdateType DEF reconcileMonitoring, createSteps
<1>3. StepInv'
  BY CreateOrUpdateStep DEF reconcileMonitoring, createSteps, instanceSteps
<1>. QED
  BY <1>2, <1>3

LEMMA DeleteStep ==
    ASSUME StepInv, pc \in deleteSteps,
           NEW k, NEW step \in deleteSteps, NEW j, Delete(k, step, j),
           step \in instanceSteps => j \in DOMAIN me.obj.spec.instances
    PROVE  StepInv'
BY DEF Delete, Goto, StepInv, createSteps, deleteSteps

LEMMA HandleDeletionType ==
    ASSUME TypeOK, StepInv, handleDeletion
    PROVE  TypeOK' /\ StepInv'
<1>1. CASE deleteStatefulSet
  <2>1. /\ idx \in DOMAIN me.obj.spec.instances /\ idx \in Nat \ {0}
        /\ me.obj.spec.instances[idx].name \in Names
    BY <1>1, StepFacts, DataType DEF deleteStatefulSet, instanceSteps, TypeOK
  <2>2. TypeOK'
    BY <1>1, <2>1, KeyFacts, DeleteType DEF deleteStatefulSet, deleteSteps
  <2>3. StepInv'
    BY <1>1, <2>1, DeleteStep DEF deleteStatefulSet, deleteSteps
  <2>. QED
    BY <2>2, <2>3
<1>2. CASE deleteService
  <2> DEFINE n == me.obj.spec.instances[idx].name
             len == Len(me.obj.spec.instances)
  <2>1. /\ idx \in DOMAIN me.obj.spec.instances /\ n \in Names
        /\ DOMAIN me.obj.spec.instances = 1 .. len /\ len \in Nat
    BY <1>2, StepFacts, DataType DEF deleteService, instanceSteps
  <2>2. CASE idx < len
    <3>1. Delete(Service(n), "delStatefulSet", idx + 1)
      BY <1>2, <2>2 DEF deleteService
    <3>2. idx + 1 \in DOMAIN me.obj.spec.instances /\ idx + 1 \in Nat \ {0}
      BY <2>1, <2>2
    <3>3. TypeOK'
      BY <1>2, <2>1, <3>1, <3>2, KeyFacts, DeleteType DEF deleteService, deleteSteps
    <3>4. StepInv'
      BY <1>2, <3>1, <3>2, DeleteStep DEF deleteService, deleteSteps
    <3>. QED
      BY <3>3, <3>4
  <2>3. CASE ~(idx < len)
    <3>1. Delete(Service(n), "delConfigMap", 1)
      BY <1>2, <2>3 DEF deleteService
    <3>2. TypeOK'
      BY <1>2, <2>1, <3>1, KeyFacts, DeleteType DEF deleteService, deleteSteps
    <3>3. StepInv'
      BY <1>2, <3>1, DeleteStep DEF deleteService, deleteSteps, instanceSteps
    <3>. QED
      BY <3>2, <3>3
  <2>. QED
    BY <2>2, <2>3
<1>3. CASE deleteConfigMap
  <2>1. TypeOK'
    BY <1>3, KeyFacts, DeleteType DEF deleteConfigMap, deleteSteps
  <2>. QED
    BY <1>3, <2>1, DeleteStep DEF deleteConfigMap, deleteSteps, instanceSteps
<1>4. CASE deleteSecret
  <2>1. TypeOK'
    BY <1>4, KeyFacts, DeleteType DEF deleteSecret, deleteSteps
  <2>. QED
    BY <1>4, <2>1, DeleteStep DEF deleteSecret, deleteSteps, instanceSteps
<1>5. CASE removeFinalizer
  BY <1>5, RemoveFinalizerType
<1>. QED
  BY <1>1, <1>2, <1>3, <1>4, <1>5 DEF handleDeletion


LEMMA ReconcileType ==
    ASSUME TypeOK, StepInv, Reconcile
    PROVE  TypeOK' /\ StepInv'
BY StartType, AddFinalizerType, DefaultInstanceStepType, ConfigMapType, SecretType,
   ServiceType, StatefulSetType, MonitoringType, UpdateStatusType, HandleDeletionType
   DEF Reconcile

LEMMA AbortType ==
    ASSUME TypeOK, StepInv, Abort
    PROVE  TypeOK' /\ StepInv'
<1>1. faults' \in 0 .. MaxFaults /\ uids' \in 0 .. MaxUid /\ edits' \in 0 .. MaxEdits
  BY BoundsAssumption DEF Abort, TypeOK
<1>2. Fail /\ UNCHANGED volumes /\ pc' = "idle"
  BY DEF Abort, Fail, Return
<1>. QED
  BY <1>1, <1>2, FailType, IdleStep

(* What others do leaves Reconcile where it is: its copy may only lose its *)
(* freshness.                                                              *)
LEMMA OutsideStep ==
    ASSUME TypeOK, StepInv, UNCHANGED <<pc, idx>>, me'.obj = me.obj
    PROVE  StepInv'
BY DEF StepInv

LEMMA AfterObj ==
    ASSUME NEW T, NEW c \in CopyOf(T), NEW old, NEW new
    PROVE  After(c, old, new).obj = c.obj
BY DEF After, CopyOf

LEMMA SyncType ==
    ASSUME TypeOK, StepInv,
           SyncCluster \/ \E k \in Keys : SyncChild(k)
    PROVE  TypeOK' /\ StepInv'
<1>1. queued' \in BOOLEAN
  BY Zenon DEF SyncCluster, SyncChild
<1>2. CASE SyncCluster
  <2>1. ccache' \in CopyOf(Cluster \cup {Nil})
    BY <1>2 DEF SyncCluster, TypeOK, Copy, CopyOf
  <2>2. UNCHANGED <<cluster, child, volumes, kcache, pc, idx, me, uids, edits, faults>>
    BY <1>2 DEF SyncCluster, server, bounds
  <2>. QED
    BY <1>1, <2>1, <2>2, OutsideStep DEF TypeOK
<1>3. ASSUME NEW k \in Keys, SyncChild(k)
      PROVE  TypeOK' /\ StepInv'
  <2>1. DOMAIN kcache' = Keys /\ \A x \in Keys : kcache'[x] \in CopyOf(Child(x))
    <3>1. Copy(child[k]) \in CopyOf(Child(k))
      BY DEF TypeOK, Copy, CopyOf
    <3>. QED
      BY <1>3, <3>1 DEF SyncChild, TypeOK
  <2>2. UNCHANGED <<cluster, child, volumes, ccache, pc, idx, me, uids, edits, faults>>
    BY <1>3 DEF SyncChild, server, bounds
  <2>. QED
    BY <1>1, <2>1, <2>2, OutsideStep DEF TypeOK
<1>. QED
  BY <1>2, <1>3

(* The actions that write the cluster from outside.                        *)
LEMMA ClusterWriteType ==
    ASSUME TypeOK, StepInv, NEW o \in Cluster \cup {Nil}, PutClusterOutside(o),
           uids' \in 0 .. MaxUid, edits' \in 0 .. MaxEdits, faults' \in 0 .. MaxFaults
    PROVE  TypeOK' /\ StepInv'
<1>1. TypeOK'
  BY PutClusterOutsideType
<1>2. UNCHANGED <<pc, idx>> /\ me'.obj = me.obj
  BY AfterObj DEF PutClusterOutside, TypeOK
<1>. QED
  BY <1>1, <1>2, OutsideStep

LEMMA ChildWriteType ==
    ASSUME TypeOK, StepInv, NEW k \in Keys, NEW o \in Child(k), PutChildOutside(k, o),
           volumes' \in [Names -> SUBSET [uid : Uids, pw : Passwords]],
           uids' \in 0 .. MaxUid, edits' \in 0 .. MaxEdits, faults' \in 0 .. MaxFaults
    PROVE  TypeOK' /\ StepInv'
<1>1. TypeOK'
  BY PutChildOutsideType
<1>2. UNCHANGED <<pc, idx>> /\ me'.obj = me.obj
  BY DEF PutChildOutside
<1>. QED
  BY <1>1, <1>2, OutsideStep

LEMMA UserType ==
    ASSUME TypeOK, StepInv, UserStep
    PROVE  TypeOK' /\ StepInv'
<1>1. ASSUME NEW s \in Specs, CreateCluster(s) PROVE TypeOK' /\ StepInv'
  <2> DEFINE o == [uid |-> uids + 1, del |-> FALSE, fin |-> FALSE, fg |-> FALSE,
                   spec |-> s, status |-> NoStatus]
  <2>1. uids + 1 \in Uids /\ uids' \in 0 .. MaxUid
    BY <1>1, BoundsAssumption DEF CreateCluster, TypeOK, Uids
  <2>2. NoStatus \in Status
    <3>1. <<>> \in Seq([name : Names, role : Roles, ready : Nat])
      OBVIOUS
    <3>. QED
      BY <3>1 DEF NoStatus, Status
  <2>3. s \in ClusterSpec
    BY SpecsAssumption
  <2>4. o \in Cluster
    BY <2>1, <2>2, <2>3 DEF Cluster
  <2>5. PutClusterOutside(o) /\ edits' \in 0 .. MaxEdits /\ faults' \in 0 .. MaxFaults
    BY <1>1 DEF CreateCluster, TypeOK
  <2>. QED
    BY <2>1, <2>4, <2>5, ClusterWriteType
<1>2. ASSUME NEW s \in Specs, EditSpec(s) PROVE TypeOK' /\ StepInv'
  <2>1. [cluster EXCEPT !.spec = s] \in Cluster
    BY <1>2, SpecsAssumption DEF EditSpec, TypeOK, Cluster
  <2>2. /\ PutClusterOutside([cluster EXCEPT !.spec = s])
        /\ edits' \in 0 .. MaxEdits /\ uids' \in 0 .. MaxUid /\ faults' \in 0 .. MaxFaults
    BY <1>2, BoundsAssumption DEF EditSpec, TypeOK
  <2>. QED
    BY <2>1, <2>2, ClusterWriteType
<1>3. ASSUME NEW foreground \in Propagations, DeleteCluster(foreground)
      PROVE  TypeOK' /\ StepInv'
  <2> DEFINE o == IF cluster.fin \/ foreground
                  THEN [cluster EXCEPT !.del = TRUE, !.fg = foreground] ELSE Nil
  <2>1. o \in Cluster \cup {Nil}
    <3>1. cluster \in Cluster /\ foreground \in BOOLEAN
      BY <1>3, PropagationsAssumption DEF DeleteCluster, TypeOK
    <3>. QED
      BY <3>1 DEF Cluster
  <2>2. PutClusterOutside(o)
    BY <1>3 DEF DeleteCluster
  <2>3. uids' \in 0 .. MaxUid /\ edits' \in 0 .. MaxEdits /\ faults' \in 0 .. MaxFaults
    BY <1>3 DEF DeleteCluster, TypeOK, bounds
  <2>. QED
    BY <2>1, <2>2, <2>3, ClusterWriteType
<1>4. ASSUME NEW k \in Removable, DeleteChild(k) PROVE TypeOK' /\ StepInv'
  <2>1. k \in Keys /\ Nil \in Child(k)
    BY RemovableAssumption DEF Child
  <2>2. /\ PutChildOutside(k, Nil)
        /\ volumes' \in [Names -> SUBSET [uid : Uids, pw : Passwords]]
        /\ uids' \in 0 .. MaxUid /\ edits' \in 0 .. MaxEdits /\ faults' \in 0 .. MaxFaults
    BY <1>4, BoundsAssumption DEF DeleteChild, TypeOK
  <2>. QED
    BY <2>1, <2>2, ChildWriteType
<1>. QED
  BY <1>1, <1>2, <1>3, <1>4 DEF UserStep

(* A StatefulSet stays one when its ready replicas are counted anew.       *)
LEMMA StatefulSetFacts ==
    ASSUME TypeOK, NEW n \in Names, child[StatefulSet(n)] # Nil
    PROVE  /\ StatefulSet(n) \in Keys
           /\ child[StatefulSet(n)] \in Object(StatefulSet(n))
           /\ child[StatefulSet(n)].ready \in Nat
           /\ child[StatefulSet(n)].data.replicas \in Nat
<1>1. child[StatefulSet(n)] \in Object(StatefulSet(n))
  BY KeyFacts DEF TypeOK, Child
<1>2. child[StatefulSet(n)].data \in DataOf("StatefulSet")
  BY <1>1, KeyFacts DEF Object
<1>. QED
  BY <1>1, <1>2, KeyFacts DEF Object, DataOf

LEMMA SetReadyType ==
    ASSUME TypeOK, NEW n \in Names, child[StatefulSet(n)] # Nil, NEW r \in Nat
    PROVE  [child[StatefulSet(n)] EXCEPT !.ready = r] \in Object(StatefulSet(n))
BY StatefulSetFacts DEF Object

LEMMA KubeType ==
    ASSUME TypeOK, StepInv, KubeStep
    PROVE  TypeOK' /\ StepInv'
<1> DEFINE V == [Names -> SUBSET [uid : Uids, pw : Passwords]]
<1>1. ASSUME FinishForeground PROVE TypeOK' /\ StepInv'
  <2>1. (IF cluster.fin THEN [cluster EXCEPT !.fg = FALSE] ELSE Nil) \in Cluster \cup {Nil}
    BY <1>1 DEF FinishForeground, TypeOK, Cluster
  <2>2. uids' \in 0 .. MaxUid /\ edits' \in 0 .. MaxEdits /\ faults' \in 0 .. MaxFaults
    BY <1>1 DEF FinishForeground, TypeOK, bounds
  <2>. QED
    BY <1>1, <2>1, <2>2, ClusterWriteType DEF FinishForeground
<1>2. ASSUME NEW k \in Keys, Collect(k) PROVE TypeOK' /\ StepInv'
  <2>1. /\ PutChildOutside(k, Nil) /\ volumes' \in V
        /\ uids' \in 0 .. MaxUid /\ edits' \in 0 .. MaxEdits /\ faults' \in 0 .. MaxFaults
    BY <1>2 DEF Collect, TypeOK, bounds
  <2>. QED
    BY <2>1, ChildWriteType DEF Child
<1>3. ASSUME NEW n \in Names, PodReady(n) PROVE TypeOK' /\ StepInv'
  <2>1. child[StatefulSet(n)].ready + 1 \in Nat /\ StatefulSet(n) \in Keys
    BY <1>3, StatefulSetFacts DEF PodReady
  <2>2. [child[StatefulSet(n)] EXCEPT !.ready = child[StatefulSet(n)].ready + 1]
          \in Child(StatefulSet(n))
    BY <1>3, <2>1, SetReadyType DEF PodReady, Child
  <2>3. volumes' \in V
    <3>1. child[Secret] \in Object(Secret)
      BY <1>3, KeyFacts DEF PodReady, TypeOK, Child
    <3>2. [uid |-> child[Secret].owner, pw |-> child[Secret].data.pw]
            \in [uid : Uids, pw : Passwords]
      BY <3>1, KeyFacts DEF Object, DataOf
    <3>. QED
      BY <1>3, <3>2 DEF PodReady, TypeOK
  <2>4. uids' \in 0 .. MaxUid /\ edits' \in 0 .. MaxEdits /\ faults' \in 0 .. MaxFaults
    BY <1>3 DEF PodReady, TypeOK, bounds
  <2>. QED
    BY <1>3, <2>1, <2>2, <2>3, <2>4, ChildWriteType DEF PodReady, SetReady
<1>4. ASSUME NEW n \in Names, ScaleDown(n) \/ PodCrash(n) PROVE TypeOK' /\ StepInv'
  <2>1. child[StatefulSet(n)] # Nil /\ StatefulSet(n) \in Keys
    BY <1>4, KeyFacts DEF ScaleDown, PodCrash
  <2>2. child[StatefulSet(n)].ready - 1 \in Nat
    BY <1>4, <2>1, StatefulSetFacts DEF ScaleDown, PodCrash
  <2>3. [child[StatefulSet(n)] EXCEPT !.ready = child[StatefulSet(n)].ready - 1]
          \in Child(StatefulSet(n))
    BY <2>1, <2>2, SetReadyType DEF Child
  <2>4. /\ SetReady(n, child[StatefulSet(n)].ready - 1) /\ volumes' \in V
        /\ uids' \in 0 .. MaxUid /\ edits' \in 0 .. MaxEdits /\ faults' \in 0 .. MaxFaults
    BY <1>4, BoundsAssumption DEF ScaleDown, PodCrash, TypeOK, bounds
  <2>. QED
    BY <2>1, <2>3, <2>4, ChildWriteType DEF SetReady
<1>. QED
  BY <1>1, <1>2, <1>3, <1>4, SyncType DEF KubeStep

LEMMA TypeStutter ==
    ASSUME TypeOK, StepInv, UNCHANGED vars
    PROVE  TypeOK' /\ StepInv'
BY DEF TypeOK, StepInv, vars

(* Every variable keeps its type, and Reconcile never dereferences a copy  *)
(* it does not hold nor indexes past the instances of its specification.   *)
THEOREM TypeCorrect == Spec => [](TypeOK /\ StepInv)
<1>1. TypeOK /\ StepInv /\ [Next]_vars => (TypeOK /\ StepInv)'
  BY ReconcileType, AbortType, UserType, KubeType, TypeStutter DEF Next
<1>. QED
  BY TypeInit, <1>1, PTL DEF Spec

=============================================================================
