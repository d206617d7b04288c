------------------------ MODULE MCRestoreController ------------------------
(***************************************************************************)
(* Small instances of RestoreController.                                   *)
(***************************************************************************)
EXTENDS RestoreController

All == [kind |-> "all", names |-> <<>>, role |-> "primary", match |-> {}]
Named(n) == [All EXCEPT !.kind = "names", !.names = n]

Primary == [name |-> "primary", role |-> "primary"]
Replica == [name |-> "b", role |-> "replica"]

Dump(type) == [type |-> type, storage |-> "volume"]

EveryInstance == {All}
OneOrOther == {Named(<<"primary">>), Named(<<"b">>)}

GrownCluster == {<<Primary>>, <<Primary, Replica>>}
DefaultedCluster == {<<>>, <<Primary>>}

LogicalBackup == {Dump("logical")}
EitherBackup == {Dump("logical"), Dump("")}
=============================================================================
