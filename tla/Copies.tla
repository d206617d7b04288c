------------------------------- MODULE Copies -------------------------------
(***************************************************************************)
(* Copies of API objects.  A resourceVersion is modelled by a freshness    *)
(* bit: every copy of an object, in the manager's cache or in a variable   *)
(* of Reconcile, is a record [obj, fresh]; a write that changes the object *)
(* on the server clears the bit of all its copies, and the server accepts  *)
(* an Update exactly when it comes from a fresh copy.                      *)
(***************************************************************************)
CONSTANT Nil   \* no object, no pointer

CopyOf(T) == [obj : T, fresh : BOOLEAN]

Copy(o) == [obj |-> o, fresh |-> TRUE]
NoCopy == [obj |-> Nil, fresh |-> FALSE]

\* What becomes of a copy when the server replaces old by new: an update that
\* changes nothing is dropped by the server and keeps the resourceVersion.
After(c, old, new) == [c EXCEPT !.fresh = @ /\ new = old]
=============================================================================
