------------------------ MODULE MCClusterController ------------------------
(***************************************************************************)
(* Small instances of ClusterController.                                   *)
(***************************************************************************)
EXTENDS ClusterController, TLC

\* An instance that takes storage and resources from the cluster.
Plain(n, r, reps) ==
    [name |-> n, role |-> r, replicas |-> reps, storage |-> Nil, resources |-> Nil,
     config |-> {}]

Base(ins) ==
    [instances |-> ins, replicas |-> 0, size |-> "", resources |-> "", ha |-> FALSE,
     sync |-> FALSE, access |-> {}, metrics |-> FALSE]

Legacy == Base(<<>>)
One == Base(<<Plain("primary", "primary", Nil)>>)
Scraped == [One EXCEPT !.metrics = TRUE]
Pair(r) == [Base(<<Plain("primary", "primary", r), Plain("b", "replica", 1)>>)
               EXCEPT !.ha = TRUE]
Empty == Base(<<Plain("primary", "primary", 0)>>)
Broken == Base(<<[Plain("primary", "primary", 1) EXCEPT !.storage = ""]>>)
Grown == [Pair(1) EXCEPT !.size = "20Gi"]

Symmetry == Permutations(Passwords)

EditedSpecs == {Legacy, Grown}
RebornSpecs == {Scraped}
LivenessSpecs == {Legacy, Empty, Broken}
ShrunkSpecs == {Pair(1), Pair(0)}

NothingRemoved == {}
StatefulSetRemoved == {StatefulSet("primary")}

\* What people do in ClusterLiveness: only the specification that cannot be
\* reconciled is deleted in the foreground, and it is not exchanged for another one.
\* No step of the controller or of Kubernetes is excluded.
ForegroundWhenBroken ==
    cluster # Nil /\ cluster' # Nil =>
        /\ (cluster.spec = Broken) = (cluster'.spec = Broken)
        /\ cluster'.fg => cluster.spec = Broken

LivenessNext == Reconcile \/ Abort \/ (UserStep /\ ForegroundWhenBroken) \/ KubeStep
LivenessSpec == Init /\ [][LivenessNext]_vars /\ Fairness
=============================================================================
