------------------------- MODULE MCBackupController -------------------------
(***************************************************************************)
(* Small instances of BackupController.                                    *)
(***************************************************************************)
EXTENDS BackupController, TLC

View(ins, primary) == [instances |-> ins, pvc |-> TRUE, primary |-> primary]

\* The default selection, and one that only the larger cluster can serve.
EitherSelection == {<<>>, <<"b">>}
DefaultSelection == {<<>>}

\* An edit has taken the instances away: before and after the cluster controller has
\* stored the default instance, its status still says where the primary was.
DefaultedClusters == {View({}, "b"), View({"primary"}, "b")}
OneCluster == {View({"primary"}, "primary")}
=============================================================================
