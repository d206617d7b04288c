---------------------------- MODULE JobLifecycle ----------------------------
(***************************************************************************)
(* What the backup and the restore controller promise about the Jobs they  *)
(* create under fixed names for the incarnations of a resource: each of    *)
(* them gets its Job once and only while it exists, a Job is withdrawn     *)
(* only from an incarnation whose deletion was asked for, and an           *)
(* incarnation that got one goes only after that.                          *)
(***************************************************************************)
EXTENDS Jobs

CONSTANTS
    Slots,    \* the names that Jobs have
    Targets   \* what Jobs work on

VARIABLES
    phase,    \* of the resource: "absent", "live" or "deleting"
    uid,      \* of its present or last incarnation
    job,      \* per slot, the Job of that name, or Nil
    spent     \* per slot, the incarnations that had their Job

vars == <<phase, uid, job, spent>>

Init ==
    /\ phase = "absent" /\ uid = 0
    /\ job = [s \in Slots |-> Nil]
    /\ spent = [s \in Slots |-> {}]

Create ==
    /\ phase = "absent" /\ phase' = "live"
    /\ uid' = uid + 1
    /\ UNCHANGED <<job, spent>>

RequestDeletion ==
    /\ phase = "live" /\ phase' = "deleting"
    /\ UNCHANGED <<uid, job, spent>>

Disappear ==
    /\ phase # "absent" /\ phase' = "absent"
    /\ phase = "live" => \A s \in Slots : uid \notin spent[s]
    /\ UNCHANGED <<uid, job, spent>>

\* A round that began before the deletion may still launch one.
Launch(s) ==
    /\ phase # "absent"
    /\ job[s] = Nil /\ uid \notin spent[s]
    /\ \E t \in Targets : job' = [job EXCEPT ![s] = NewJob(uid, t)]
    /\ spent' = [spent EXCEPT ![s] = @ \cup {uid}]
    /\ UNCHANGED <<phase, uid>>

Run(s) ==
    /\ job[s] # Nil
    /\ \E j \in JobSteps(job[s], TRUE) : job' = [job EXCEPT ![s] = j]
    /\ UNCHANGED <<phase, uid, spent>>

Withdraw(s) ==
    /\ job[s] # Nil
    /\ job[s].owner = uid => phase # "live"
    /\ job' = [job EXCEPT ![s] = Nil]
    /\ UNCHANGED <<phase, uid, spent>>

\* Whoever deletes a Job by hand asks for another one.
AskAgain(s) ==
    /\ job[s] # Nil
    /\ job' = [job EXCEPT ![s] = Nil]
    /\ spent' = [spent EXCEPT ![s] = @ \ {job[s].owner}]
    /\ UNCHANGED <<phase, uid>>

Next ==
    \/ Create \/ RequestDeletion \/ Disappear
    \/ \E s \in Slots : Launch(s) \/ Run(s) \/ Withdraw(s) \/ AskAgain(s)

Spec == Init /\ [][Next]_vars
=============================================================================
