------------------------ MODULE CredentialLifecycle ------------------------
(***************************************************************************)
(* What the PostgresCluster controller promises about the superuser's      *)
(* password of one cluster name: it is issued once, stays as it is while   *)
(* the cluster is in use, is revoked only after somebody has asked for the *)
(* cluster's deletion, and never outlives the cluster.                     *)
(***************************************************************************)
CONSTANTS Nil, Passwords

VARIABLES
    phase,    \* of the cluster: "absent", "live" or "deleting"
    secret    \* the password that is issued, or Nil

vars == <<phase, secret>>

Init == phase = "absent" /\ secret = Nil

Create ==
    /\ phase = "absent" /\ phase' = "live"
    /\ UNCHANGED secret

\* A reconciliation that began before the deletion may still issue one.
Issue ==
    /\ phase # "absent" /\ secret = Nil
    /\ secret' \in Passwords
    /\ UNCHANGED phase

RequestDeletion ==
    /\ phase = "live" /\ phase' = "deleting"
    /\ UNCHANGED secret

Revoke ==
    /\ phase = "deleting"
    /\ secret' = Nil
    /\ UNCHANGED phase

Disappear ==
    /\ phase # "absent" /\ secret = Nil
    /\ phase' = "absent"
    /\ UNCHANGED secret

Next == Create \/ Issue \/ RequestDeletion \/ Revoke \/ Disappear

Spec == Init /\ [][Next]_vars
=============================================================================
