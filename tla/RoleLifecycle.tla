--------------------------- MODULE RoleLifecycle ---------------------------
(***************************************************************************)
(* What the user controller promises about a database role and the         *)
(* password that is generated for it: the password is replaced only when   *)
(* it is due, the recorded time of its change never goes back, a role is   *)
(* set up only while its user exists and is bound to be cleaned up after,  *)
(* and it is never dropped from under a user that is in use.               *)
(***************************************************************************)
EXTENDS Integers

CONSTANTS Nil, Names, Passwords

VARIABLES
    phase,     \* of the user: "absent", "new", "live" (with its finalizer), "deleting"
    changed,   \* when its status says that the password was changed last, or Nil
    clock,     \* rotation intervals since the beginning
    secret,    \* the generated password, or Nil
    roles      \* per instance, the password of the role, or Nil

vars == <<phase, changed, clock, secret, roles>>

Init ==
    /\ phase = "absent" /\ changed = Nil /\ clock = 0 /\ secret = Nil
    /\ roles = [n \in Names |-> Nil]

Create ==
    /\ phase = "absent" /\ phase' = "new"
    /\ UNCHANGED <<changed, clock, secret, roles>>

Adopt ==
    /\ phase = "new" /\ phase' = "live"
    /\ UNCHANGED <<changed, clock, secret, roles>>

RequestDeletion ==
    /\ phase = "live" /\ phase' = "deleting"
    /\ UNCHANGED <<changed, clock, secret, roles>>

Disappear ==
    /\ phase \in {"new", "deleting"} /\ phase' = "absent"
    /\ changed' = Nil
    /\ UNCHANGED <<clock, secret, roles>>

Elapse ==
    /\ clock' = clock + 1
    /\ UNCHANGED <<phase, changed, secret, roles>>

\* A round that began before the deletion may still do what follows.
bound == phase \in {"live", "deleting"}

ReplacePassword(pw) ==
    /\ bound
    /\ secret = Nil \/ changed = Nil \/ clock - changed >= 1
    /\ secret' = pw
    /\ UNCHANGED <<phase, changed, clock, roles>>

RecordChange(t) ==
    /\ phase = "live"
    /\ changed # Nil => changed <= t
    /\ changed' = t
    /\ UNCHANGED <<phase, clock, secret, roles>>

\* By hand, or with its user.
LosePassword ==
    /\ secret' = Nil
    /\ UNCHANGED <<phase, changed, clock, roles>>

Grant(n, pw) ==
    /\ bound
    /\ roles' = [roles EXCEPT ![n] = pw]
    /\ UNCHANGED <<phase, changed, clock, secret>>

Drop(n) ==
    /\ phase # "live"
    /\ roles' = [roles EXCEPT ![n] = Nil]
    /\ UNCHANGED <<phase, changed, clock, secret>>

Next ==
    \/ Create \/ Adopt \/ RequestDeletion \/ Disappear \/ Elapse \/ LosePassword
    \/ \E pw \in Passwords : ReplacePassword(pw)
    \/ \E t \in 0 .. clock : RecordChange(t)
    \/ \E n \in Names : Drop(n) \/ \E pw \in Passwords : Grant(n, pw)

Spec == Init /\ [][Next]_vars
=============================================================================
