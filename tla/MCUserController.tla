-------------------------- MODULE MCUserController --------------------------
(***************************************************************************)
(* Small instances of UserController.                                      *)
(***************************************************************************)
EXTENDS UserController

All == [kind |-> "all", names |-> <<>>, role |-> "primary", match |-> {}]
Named(n) == [All EXCEPT !.kind = "names", !.names = <<n>>]
Labelled == [All EXCEPT !.kind = "label", !.match = {"b"}]

Wants(source, rotate, selector) ==
    [source |-> source, rotate |-> rotate, selector |-> selector]

Primary == [name |-> "primary", role |-> "primary"]
Replica == [name |-> "b", role |-> "replica"]

RoundSpecs == {Wants("generated", TRUE, All), Wants("given", FALSE, Labelled)}
KeptSpecs == {Wants("generated", FALSE, Named("primary"))}

BothListed == {<<Primary, Replica>>}
PrimaryListed == {<<Primary>>}
=============================================================================
