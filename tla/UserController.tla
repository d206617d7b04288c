--------------------------- MODULE UserController ---------------------------
(***************************************************************************)
(* The PostgresUser controller (controllers/postgresuser_controller.go):   *)
(* it keeps the password of a database role in a Secret, rotates it, and   *)
(* configures the role on the instances of a PostgresCluster through       *)
(* internal/postgres/client.go.  One user name is modelled, with its own   *)
(* Secret, the Secret people may provide instead, the status of the        *)
(* cluster it refers to and the role on each database instance.            *)
(***************************************************************************)
EXTENDS Copies, Integers, Sequences, FiniteSets, SequencesExt

CONSTANTS
    Names,        \* instance names
    Passwords,    \* what GeneratePassword may return, or people may choose
    UserSpecs,    \* the specifications users write
    Statuses,     \* what the status of the cluster may list
    Outcomes,     \* what becomes of the statements sent to an instance
    MaxUid, MaxEdits, MaxFaults,   \* bounds: incarnations, edits, faults
    MaxClock,     \* bound: how often a rotation interval elapses
    MaxEvents     \* bound: edits, faults and elapsed intervals together

Roles == {"primary", "replica"}
InstanceStatuses == Seq([name : Names, role : Roles])

\* match stands for a label selector: the instances whose labels it matches.
Selector ==
    [kind : {"all", "names", "role", "label"}, names : Seq(Names), role : Roles,
     match : SUBSET Names]

\* source: spec.password.secretRef, spec.password.generate or neither.
UserSpec ==
    [source : {"given", "generated", "none"}, rotate : BOOLEAN, selector : Selector]

Sources == {"given", "generated"}

ASSUME UserSpecsAssumption == UserSpecs \subseteq UserSpec
ASSUME StatusesAssumption == Statuses \subseteq InstanceStatuses
\* "done": all are executed; "rejected": the one that sets the password is refused,
\* as PostgreSQL refuses every CREATE or ALTER USER with a bind parameter; "partly":
\* a later one fails.
ASSUME OutcomesAssumption ==
    Outcomes \subseteq {"done", "rejected", "partly"} /\ Outcomes # {}

ASSUME UserBoundsAssumption ==
    /\ MaxUid \in Nat /\ MaxEdits \in Nat /\ MaxFaults \in Nat /\ MaxClock \in Nat
    /\ MaxEvents \in Nat

VARIABLES
    user,       \* the PostgresUser on the API server
    ucache,     \* the manager's cached copy of it
    secret,     \* the Secret "<user>-password" and the one people provide
    scache,     \* the manager's cached copies of them
    cluster,    \* the instances the status of the cluster lists, or Nil
    ccache,     \* the manager's cached copy of it
    up,         \* the instances that accept connections
    roles,      \* per instance, the password of the role, or Nil
    queued,     \* the work queue holds, or a timer will add, the key
    pc, idx, me,\* what Reconcile does next, for which instance, with which copy
    local,      \* its other variables
    clock,      \* rotation intervals since the beginning
    uids, edits, faults   \* how much of each bound is used

database == <<up, roles>>
api == <<user, secret, cluster>>
caches == <<ucache, scache, ccache>>
progress == <<queued, pc, idx, me, local>>
bounds == <<clock, uids, edits, faults>>
vars == <<user, ucache, secret, scache, cluster, ccache, up, roles,
          queued, pc, idx, me, local, clock, uids, edits, faults>>

\* The bounds admit another edit, fault or elapsed interval.
another == clock + edits + faults < MaxEvents

-----------------------------------------------------------------------------
(* Writes to the API server.                                               *)

PutUser(o) ==
    /\ user' = o
    /\ ucache' = After(ucache, user, o)

PutSecret(k, o) ==
    /\ secret' = [secret EXCEPT ![k] = o]
    /\ scache' = [scache EXCEPT ![k] = After(@, secret[k], o)]

-----------------------------------------------------------------------------
(* What Reconcile computes.                                                *)

namesOf(instances) == [i \in DOMAIN instances |-> instances[i].name]

\* The instances a selector selects from what the cluster's status lists.
getTargetInstances(sel, instances) ==
    CASE sel.kind = "all" -> namesOf(instances)
      [] sel.kind = "names" -> sel.names
      [] sel.kind = "role" ->
             namesOf(SelectSeq(instances, LAMBDA i : i.role = sel.role))
      [] sel.kind = "label" ->
             namesOf(SelectSeq(instances, LAMBDA i : i.name \in sel.match))

\* Only these selections look at the cluster, and only these may not be empty.
readsCluster(sel) == sel.kind # "names"
mustMatch(sel) == sel.kind \in {"role", "label"}

\* Whatever people select is the name of an instance.
ASSUME SelectionAssumption ==
    \A s \in UserSpecs, c \in Statuses : getTargetInstances(s.selector, c) \in Seq(Names)

due(last) == clock - last >= 1

shouldRotatePassword(o) == o.status.last = Nil \/ (o.spec.rotate /\ due(o.status.last))

NoStatus == [phase |-> Nil, error |-> Nil, instances |-> <<>>, last |-> Nil]

\* Mutant: updateStatus forgets the time of the last password change.
preservedInstances(st, old) ==
    [st EXCEPT !.instances = IF @ = <<>> THEN old.instances ELSE @]

\* updateStatus keeps the instances and the time of the last password change
\* when the new status has none.
preserved(st, old) ==
    [st EXCEPT !.instances = IF @ = <<>> THEN old.instances ELSE @,
               !.last = IF @ = Nil THEN old.last ELSE @]

failure(error) == [NoStatus EXCEPT !.phase = "Failed", !.error = error]

-----------------------------------------------------------------------------
(* The PostgreSQL client (internal/postgres/client.go).                    *)

connects(n) == n \in up

\* CREATE or ALTER the role with the password as bind parameter, GRANT its
\* privileges, limit its connections: the first failure ends it.
CreateOrUpdateUser(n, pw, outcome) ==
    roles' = IF outcome = "rejected" THEN roles ELSE [roles EXCEPT ![n] = pw]

DropUser(n) == roles' = [roles EXCEPT ![n] = Nil]

-----------------------------------------------------------------------------
(* The steps of Reconcile: one call each.                                  *)

NoLocal ==
    [cluster |-> Nil, targets |-> <<>>, password |-> Nil, results |-> <<>>,
     error |-> Nil]

Return(q) ==
    /\ pc' = "idle" /\ idx' = 1
    /\ me' = NoCopy /\ local' = NoLocal
    /\ queued' = (queued \/ q)

Goto(step, j) == pc' = step /\ idx' = j /\ UNCHANGED queued

\* A status write: the steps that follow work on what the server returned.
updateStatus(st, old) == PutUser([user EXCEPT !.status = preserved(st, old)])

Start ==
    /\ pc = "idle" /\ queued
    /\ queued' = FALSE
    /\ IF ucache.obj = Nil
       THEN UNCHANGED <<pc, me, local>>
       ELSE /\ me' = ucache
            /\ local' = [NoLocal EXCEPT !.cluster = ccache.obj]
            /\ pc' = IF ~ucache.obj.fin THEN "finalizer"
                     ELSE IF ucache.obj.del THEN "drop" ELSE "getCluster"
    /\ UNCHANGED <<idx, api, caches, database, bounds>>

\* Mutant: the finalizer is added to the copy and never sent.
AddFinalizerLocally ==
    /\ pc = "finalizer"
    /\ me' = [me EXCEPT !.obj.fin = TRUE]
    /\ Goto(IF me.obj.del THEN "drop" ELSE "getCluster", 1)
    /\ UNCHANGED <<local, api, caches, database, bounds>>

AddFinalizer ==
    /\ pc = "finalizer"
    /\ IF me.fresh /\ ~me.obj.del
       THEN PutUser([me.obj EXCEPT !.fin = TRUE])
       ELSE UNCHANGED <<user, ucache>>
    /\ Return(TRUE)
    /\ UNCHANGED <<secret, scache, cluster, ccache, database, bounds>>

\* Mutant: a cluster that is missing is reported and not tried again.
GetClusterQuietly ==
    /\ pc = "getCluster"
    /\ IF ~me.fresh
       THEN Return(TRUE) /\ UNCHANGED <<user, ucache>>
       ELSE /\ updateStatus(failure("cluster"), me.obj.status)
            /\ IF local.cluster = Nil THEN Return(FALSE)
               ELSE /\ me' = Copy(user')
                    /\ local' = [local EXCEPT !.targets =
                           getTargetInstances(me.obj.spec.selector, local.cluster)]
                    /\ Goto("password", 1)
    /\ UNCHANGED <<secret, scache, cluster, ccache, database, bounds>>

\* The status reports that the cluster could not be read, whether it could or
\* not.  Without a cluster the selections that look at it panic.
GetCluster ==
    /\ pc = "getCluster"
    /\ IF ~me.fresh
       THEN Return(TRUE) /\ UNCHANGED <<user, ucache>>
       ELSE /\ updateStatus(failure("cluster"), me.obj.status)
            /\ LET sel == me.obj.spec.selector
                   targets == getTargetInstances(sel, local.cluster)
               IN  IF readsCluster(sel) /\ local.cluster = Nil
                   THEN Return(TRUE)
                   ELSE /\ me' = Copy(user')
                        /\ IF mustMatch(sel) /\ targets = <<>>
                           THEN /\ local' = [local EXCEPT !.error = "targets"]
                                /\ Goto("report", 1)
                           ELSE /\ local' = [local EXCEPT !.targets = targets]
                                /\ Goto("password", 1)
    /\ UNCHANGED <<secret, scache, cluster, ccache, database, bounds>>

\* Reconcile records why it gives up and returns the error.
ReportError ==
    /\ pc = "report"
    /\ IF me.fresh
       THEN updateStatus(failure(local.error), me.obj.status)
       ELSE UNCHANGED <<user, ucache>>
    /\ Return(TRUE)
    /\ UNCHANGED <<secret, scache, cluster, ccache, database, bounds>>

PasswordFails ==
    /\ local' = [local EXCEPT !.error = "password"]
    /\ Goto("report", 1)
    /\ UNCHANGED <<secret, scache, me>>

PasswordStands == Goto("read", 1) /\ UNCHANGED <<secret, scache, me, local>>

\* Mutant: the Secret is sent without the password.
RotatePasswordEmpty(pw) ==
    /\ PutSecret("generated", [owner |-> me.obj.uid, pw |-> Nil])
    /\ me' = [me EXCEPT !.obj.status.last = clock]
    /\ Goto("read", 1)
    /\ UNCHANGED local

\* controllerutil.CreateOrUpdate: an Update keeps the owner it finds.  The time
\* of the change stays in Reconcile's copy until the last status write.
RotatePassword(pw) ==
    LET cur == scache["generated"]
        o == [owner |-> IF cur.obj = Nil THEN me.obj.uid ELSE cur.obj.owner, pw |-> pw]
    IN  IF IF cur.obj = Nil THEN secret["generated"] = Nil ELSE cur.fresh
        THEN /\ PutSecret("generated", o)
             /\ me' = [me EXCEPT !.obj.status.last = clock]
             /\ Goto("read", 1)
             /\ UNCHANGED local
        ELSE PasswordFails

reconcilePasswordSecret ==
    /\ pc = "password"
    /\ CASE me.obj.spec.source = "none" -> PasswordFails
         [] me.obj.spec.source = "given" ->
                IF scache["given"].obj = Nil THEN PasswordFails ELSE PasswordStands
         [] me.obj.spec.source = "generated" ->
                IF shouldRotatePassword(me.obj)
                THEN \E pw \in Passwords : RotatePassword(pw)
                ELSE PasswordStands
    /\ UNCHANGED <<user, ucache, cluster, ccache, database, bounds>>

\* The password is read back from the cache.
getPasswordFromSecret ==
    /\ pc = "read"
    /\ LET s == scache[me.obj.spec.source].obj
       IN  IF s = Nil
           THEN /\ local' = [local EXCEPT !.error = "instances"]
                /\ Goto("final", 1)
           ELSE /\ local' = [local EXCEPT !.password = s.pw]
                /\ Goto(IF local.targets = <<>> THEN "final" ELSE "instance", 1)
    /\ UNCHANGED <<me, api, caches, database, bounds>>

\* Mutant: the error of an instance does not reach the caller.
FinishSilently(ready) ==
    /\ local' = [local EXCEPT
           !.results = Append(@, [name |-> local.targets[idx], ready |-> ready])]
    /\ IF idx < Len(local.targets) THEN Goto("instance", idx + 1) ELSE Goto("final", 1)
    /\ UNCHANGED me

\* Mutant: the loop ends at the first instance that failed.
FinishEarly(ready) ==
    /\ local' = [local EXCEPT
           !.results = Append(@, [name |-> local.targets[idx], ready |-> ready]),
           !.error = IF ready THEN @ ELSE "instances"]
    /\ IF ready /\ idx < Len(local.targets) THEN Goto("instance", idx + 1)
       ELSE Goto("final", 1)
    /\ UNCHANGED me

\* The loop of reconcileUserOnInstances goes on after an instance that failed.
Finish(ready) ==
    /\ local' = [local EXCEPT
           !.results = Append(@, [name |-> local.targets[idx], ready |-> ready]),
           !.error = IF ready THEN @ ELSE "instances"]
    /\ IF idx < Len(local.targets) THEN Goto("instance", idx + 1) ELSE Goto("final", 1)
    /\ UNCHANGED me

\* NewClientForInstance dereferences the cluster.
ConfigureInstance ==
    /\ pc = "instance"
    /\ LET n == local.targets[idx]
       IN  IF local.cluster = Nil THEN Return(TRUE) /\ UNCHANGED roles
           ELSE IF connects(n)
                THEN \E outcome \in Outcomes :
                        /\ Finish(outcome = "done")
                        /\ CreateOrUpdateUser(n, local.password, outcome)
                ELSE Finish(FALSE) /\ UNCHANGED roles
    /\ UNCHANGED <<up, api, caches, bounds>>

FinalStatus ==
    /\ pc = "final"
    /\ IF me.fresh
       THEN updateStatus([phase |-> IF local.error = Nil THEN "Ready" ELSE "Failed",
                          error |-> local.error, instances |-> local.results,
                          last |-> me.obj.status.last], me.obj.status)
       ELSE UNCHANGED <<user, ucache>>
    /\ Return(TRUE)
    /\ UNCHANGED <<secret, scache, cluster, ccache, database, bounds>>

-----------------------------------------------------------------------------
(* handleDeletion: drop the role where the status says it is, then release.*)

\* The instances that handleDeletion visits.
tracked(o) ==
    IF o.status.phase = "Ready" /\ local.cluster # Nil
    THEN SelectSeq(o.status.instances, LAMBDA i : i.ready) ELSE <<>>

\* Mutant: without its cluster a user is not released.
DropWithinCluster ==
    /\ pc = "drop"
    /\ IF local.cluster = Nil THEN Return(TRUE)
       ELSE Goto("release", 1) /\ UNCHANGED <<me, local>>
    /\ UNCHANGED <<api, caches, database, bounds>>

\* An instance that cannot be reached is passed over.
DropFromInstances ==
    /\ pc = "drop"
    /\ IF idx > Len(tracked(me.obj))
       THEN Goto("release", 1) /\ UNCHANGED roles
       ELSE LET n == tracked(me.obj)[idx].name
            IN  /\ Goto("drop", idx + 1)
                /\ IF connects(n) THEN DropUser(n) ELSE UNCHANGED roles
    /\ UNCHANGED <<up, api, caches, me, local, bounds>>

RemoveFinalizer ==
    /\ pc = "release"
    /\ IF me.fresh THEN PutUser(Nil) ELSE UNCHANGED <<user, ucache>>
    /\ Return(~me.fresh)
    /\ UNCHANGED <<secret, scache, cluster, ccache, database, bounds>>

Reconcile ==
    \/ Start \/ AddFinalizer \/ GetCluster \/ ReportError
    \/ reconcilePasswordSecret \/ getPasswordFromSecret
    \/ ConfigureInstance \/ FinalStatus
    \/ DropFromInstances \/ RemoveFinalizer

\* An API call fails, or the manager restarts between two calls.
Abort ==
    /\ pc # "idle" /\ faults < MaxFaults /\ another
    /\ faults' = faults + 1
    /\ Return(TRUE)
    /\ UNCHANGED <<api, caches, database, clock, uids, edits>>

-----------------------------------------------------------------------------
(* Watches: the controller watches users and the Secrets they own.         *)

SyncUser ==
    /\ ~ucache.fresh
    /\ ucache' = Copy(user)
    /\ queued' = TRUE
    /\ UNCHANGED <<api, scache, ccache, database, pc, idx, me, local, bounds>>

SyncSecret(k) ==
    /\ ~scache[k].fresh
    /\ scache' = [scache EXCEPT ![k] = Copy(secret[k])]
    /\ queued' = (queued \/ k = "generated")
    /\ UNCHANGED <<api, ucache, ccache, database, pc, idx, me, local, bounds>>

SyncCluster ==
    /\ ~ccache.fresh
    /\ ccache' = Copy(cluster)
    /\ UNCHANGED <<api, ucache, scache, database, progress, bounds>>

-----------------------------------------------------------------------------
(* Users of the API, the cluster controller and the databases.             *)

PutUserOutside(o) ==
    /\ PutUser(o)
    /\ me' = After(me, user, o)
    /\ UNCHANGED <<secret, scache, cluster, ccache, database, queued, pc, idx, local>>

CreateUser(s) ==
    /\ user = Nil /\ uids < MaxUid
    /\ uids' = uids + 1
    /\ PutUserOutside([uid |-> uids + 1, del |-> FALSE, fin |-> FALSE, spec |-> s,
                       status |-> NoStatus])
    /\ UNCHANGED <<clock, edits, faults>>

EditUser(s) ==
    /\ user # Nil /\ s # user.spec /\ edits < MaxEdits /\ another
    /\ edits' = edits + 1
    /\ PutUserOutside([user EXCEPT !.spec = s])
    /\ UNCHANGED <<clock, uids, faults>>

DeleteUser ==
    /\ user # Nil /\ ~user.del
    /\ PutUserOutside(IF user.fin THEN [user EXCEPT !.del = TRUE] ELSE Nil)
    /\ UNCHANGED bounds

\* People provide, change or withdraw a Secret.
ProvideSecret(o) ==
    /\ edits < MaxEdits /\ another
    /\ edits' = edits + 1
    /\ o # secret["given"]
    /\ PutSecret("given", o)
    /\ UNCHANGED <<user, ucache, cluster, ccache, database, progress, clock, uids, faults>>

RemoveSecret ==
    /\ secret["generated"] # Nil /\ faults < MaxFaults /\ another
    /\ faults' = faults + 1
    /\ PutSecret("generated", Nil)
    /\ UNCHANGED <<user, ucache, cluster, ccache, database, progress, clock, uids, edits>>

\* The garbage collector removes the Secret of a user that is gone.
CollectSecret ==
    /\ secret["generated"] # Nil
    /\ user # Nil => user.uid # secret["generated"].owner
    /\ PutSecret("generated", Nil)
    /\ UNCHANGED <<user, ucache, cluster, ccache, database, progress, bounds>>

ChangeCluster(c) ==
    /\ c # cluster /\ edits < MaxEdits /\ another
    /\ edits' = edits + 1
    /\ cluster' = c
    /\ ccache' = After(ccache, cluster, c)
    /\ UNCHANGED <<user, ucache, secret, scache, database, progress, clock, uids, faults>>

Unreachable(n) ==
    /\ n \in up /\ faults < MaxFaults /\ another
    /\ faults' = faults + 1
    /\ up' = up \ {n}
    /\ UNCHANGED <<api, caches, roles, progress, clock, uids, edits>>

Reachable(n) ==
    /\ n \notin up
    /\ up' = up \cup {n}
    /\ UNCHANGED <<api, caches, roles, progress, bounds>>

\* A rotation interval elapses.
Tick ==
    /\ clock < MaxClock /\ another
    /\ clock' = clock + 1
    /\ UNCHANGED <<api, caches, database, progress, uids, edits, faults>>

-----------------------------------------------------------------------------

Init ==
    /\ user = Nil /\ ucache = Copy(Nil)
    /\ secret = [k \in Sources |-> Nil]
    /\ scache = [k \in Sources |-> Copy(Nil)]
    /\ cluster \in Statuses \cup {Nil} /\ ccache = Copy(cluster)
    /\ up = Names
    /\ roles = [n \in Names |-> Nil]
    /\ queued = FALSE
    /\ pc = "idle" /\ idx = 1 /\ me = NoCopy /\ local = NoLocal
    /\ clock = 0 /\ uids = 0 /\ edits = 0 /\ faults = 0

People ==
    \/ \E s \in UserSpecs : CreateUser(s) \/ EditUser(s)
    \/ DeleteUser \/ RemoveSecret
    \/ \E o \in [owner : {0}, pw : Passwords] \cup {Nil} : ProvideSecret(o)

World ==
    \/ SyncUser \/ SyncCluster \/ CollectSecret \/ Tick
    \/ \E k \in Sources : SyncSecret(k)
    \/ \E c \in Statuses \cup {Nil} : ChangeCluster(c)
    \/ \E n \in Names : Unreachable(n) \/ Reachable(n)

Next == Reconcile \/ Abort \/ People \/ World

Spec == Init /\ [][Next]_vars

\* The work queue's worker, the watches and the garbage collector keep running.
Fairness ==
    /\ WF_vars(Reconcile)
    /\ WF_vars(SyncUser) /\ WF_vars(SyncCluster) /\ WF_vars(CollectSecret)
    /\ \A k \in Sources : WF_vars(SyncSecret(k))

FairSpec == Spec /\ Fairness

-----------------------------------------------------------------------------
(* Types.                                                                  *)

Results == [name : Names, ready : BOOLEAN]
Times == 0 .. MaxClock

Status ==
    [phase : {Nil, "Ready", "Failed"},
     error : {Nil, "cluster", "targets", "password", "instances"},
     instances : Seq(Results), last : Times \cup {Nil}]

User ==
    [uid : 1 .. MaxUid, del : BOOLEAN, fin : BOOLEAN, spec : UserSpecs, status : Status]

SecretObject == [owner : 0 .. MaxUid, pw : Passwords]

Local ==
    [cluster : Statuses \cup {Nil}, targets : Seq(Names),
     password : Passwords \cup {Nil}, results : Seq(Results),
     error : {Nil, "targets", "password", "instances"}]

ASSUME UserNilAssumption ==
    /\ Nil \notin User /\ Nil \notin SecretObject /\ Nil \notin Statuses
    /\ Nil \notin Times /\ Nil # "instances"

\* Every variable keeps its type.
TypeOK ==
    /\ user \in User \cup {Nil} /\ ucache \in CopyOf(User \cup {Nil})
    /\ secret \in [Sources -> SecretObject \cup {Nil}]
    /\ scache \in [Sources -> CopyOf(SecretObject \cup {Nil})]
    /\ cluster \in Statuses \cup {Nil} /\ ccache \in CopyOf(Statuses \cup {Nil})
    /\ up \subseteq Names /\ roles \in [Names -> Passwords \cup {Nil}]
    /\ queued \in BOOLEAN
    /\ pc \in {"idle", "finalizer", "getCluster", "report", "password", "read",
               "instance", "final", "drop", "release"}
    /\ idx \in Nat \ {0} /\ me \in CopyOf(User \cup {Nil}) /\ local \in Local
    /\ clock \in Times
    /\ uids \in 0 .. MaxUid /\ edits \in 0 .. MaxEdits /\ faults \in 0 .. MaxFaults

-----------------------------------------------------------------------------
(* The inductive invariant.                                                *)

\* Steps that follow the first status write, and those of a deletion.
working == {"report", "password", "read", "instance", "final"}
deleting == {"drop", "release"}

\* Each step of Reconcile has its own preconditions.
StepInv ==
    /\ (pc = "idle") = (me.obj = Nil)
    /\ pc = "finalizer" => ~me.obj.fin
    /\ pc \in deleting => me.obj.fin /\ me.obj.del
    /\ pc \in working \cup {"getCluster"} => me.obj.fin /\ ~me.obj.del
    /\ pc \in {"read", "instance", "final"} => me.obj.spec.source \in Sources
    /\ pc = "instance" => idx \in 1 .. Len(local.targets) /\ local.password \in Passwords

\* A fresh copy shows what the server has; only the time of a password change may
\* already be newer in the copy of the round that made it.
FreshInv ==
    /\ ucache.fresh => ucache.obj = user
    /\ me.fresh => user # Nil /\ user = [me.obj EXCEPT !.status.last = user.status.last]
    /\ me.fresh /\ pc \notin {"read", "instance", "final"} => me.obj = user

\* A round that works on a user keeps it on the server by its finalizer, and knows
\* when its password was changed last, however the user is edited.
RoundInv ==
    pc \in working =>
        /\ user # Nil /\ user.uid = me.obj.uid /\ user.fin
        /\ pc \in {"report", "password"} => me.obj.status.last = user.status.last
        /\ user.status.last # Nil =>
               me.obj.status.last # Nil /\ me.obj.status.last >= user.status.last

\* Nothing was changed in the future.
TimeInv ==
    \A o \in {user, ucache.obj, me.obj} :
        o # Nil /\ o.status.last # Nil => o.status.last <= clock

\* The instances that were visited have their results, and as long as none of them
\* failed they all have the password.
ResultsInv ==
    /\ pc \in {"password", "read", "instance", "final"} =>
           local.targets = getTargetInstances(me.obj.spec.selector, local.cluster)
    /\ pc \in {"getCluster", "password", "read"} => local.results = <<>>
    /\ pc = "instance" => Len(local.results) = idx - 1
    /\ pc = "final" /\ local.error = Nil =>
           /\ Len(local.results) = Len(local.targets)
           /\ local.password \in Passwords
    /\ pc \in {"instance", "final"} =>
           /\ Len(local.results) <= Len(local.targets)
           /\ \A i \in 1 .. Len(local.results) :
                  /\ local.results[i].name = local.targets[i]
                  /\ local.error = Nil => roles[local.targets[i]] = local.password

\* Copies show no incarnation that is yet to come and no deletion that was not
\* asked for.  A user that got its finalizer, or that a round works on, is the one
\* that the cache shows, since the cache never goes back to an earlier one.
OrderInv ==
    /\ user # Nil => user.uid = uids
    /\ \A o \in {ucache.obj, me.obj} : o # Nil =>
          /\ o.uid <= uids
          /\ user # Nil /\ user.uid = o.uid /\ o.del => user.del
    /\ user # Nil /\ (user.fin \/ (me.obj # Nil /\ me.obj.uid = user.uid)) =>
          ucache.obj # Nil /\ ucache.obj.uid = user.uid
    /\ pc \in deleting /\ user # Nil /\ user.fin => user.uid = me.obj.uid

\* All of this together is inductive.
IInv ==
    TypeOK /\ StepInv /\ FreshInv /\ RoundInv /\ TimeInv /\ ResultsInv /\ OrderInv

-----------------------------------------------------------------------------
(* What the controller promises.                                           *)

\* A generated password is replaced by another one only when the user that is on
\* the server then has no recorded change or its rotation interval has elapsed,
\* and a recorded change is not forgotten or set back by the two status writes of
\* every round, whatever is edited meanwhile.
RotatesWhenDue ==
    [][/\ secret["generated"] # Nil /\ secret'["generated"] \notin {Nil, secret["generated"]} =>
            user # Nil /\ (user.status.last = Nil \/ due(user.status.last))
       /\ user # Nil /\ user.status.last # Nil /\ user' # Nil =>
            user'.status.last \in user.status.last .. clock]_vars

\* When the status turns Ready for a selection that is not empty, it lists just
\* the instances that the specification of that moment selects, and every one of
\* them has been given the same password, however many statements failed on the
\* way and whatever was edited meanwhile.
ReadyIsConfigured ==
    [][user # Nil /\ user' # Nil /\ user.status.phase # "Ready"
         /\ user'.status.phase = "Ready" /\ local.targets # <<>> =>
         /\ namesOf(user'.status.instances)
                = getTargetInstances(user.spec.selector, local.cluster)
         /\ \E pw \in Passwords : \A i \in DOMAIN user'.status.instances :
               roles[user'.status.instances[i].name] = pw]_vars

\* The role and its generated password have the life cycle that RoleLifecycle
\* describes.
Lifecycle ==
    INSTANCE RoleLifecycle WITH
        phase <- IF user = Nil THEN "absent"
                 ELSE IF user.del THEN "deleting"
                 ELSE IF user.fin THEN "live" ELSE "new",
        changed <- IF user = Nil THEN Nil ELSE user.status.last,
        secret <- IF secret["generated"] = Nil THEN Nil ELSE secret["generated"].pw

RolesHaveLifecycle == Lifecycle!Spec

\* Reconcile will look at every user that exists: a round is under way, its key is
\* queued, or the cache has yet to see its last change.  No error, conflict, panic
\* or missing object ends a round for good.
NothingForgotten == user # Nil => queued \/ pc # "idle" \/ ~ucache.fresh

\* Users that are not being deleted, whose cluster and password are there.
Serviceable ==
    /\ user # Nil /\ ~user.del /\ user.spec.source # "none"
    /\ secret[user.spec.source] # Nil /\ cluster # Nil

Selected == ToSet(getTargetInstances(user.spec.selector, cluster))

\* Reconcile is about to send the password that the Secret holds to instance n.
Sends(n) ==
    /\ pc = "instance" /\ local.cluster # Nil
    /\ local.targets[idx] = n /\ connects(n)
    /\ local.password = secret[user.spec.source].pw

\* An instance that is selected and can be reached is sent the password of the
\* Secret again and again, whatever became of what it was sent before and whether
\* the other instances fail or not, also when the password or the selection was
\* changed while a round was under way or was read from a cache that lagged behind.
PasswordsAreSent ==
    \A n \in Names :
        <>[](Serviceable /\ n \in Selected /\ n \in up) => []<>(Serviceable /\ Sends(n))

\* A user that is deleted disappears, and its Secret with it, whether its cluster
\* and its instances can be reached or not.
UserDeletionCompletes ==
    \A u \in 1 .. MaxUid :
        user # Nil /\ user.uid = u /\ user.del
            ~> /\ user = Nil \/ user.uid # u
               /\ secret["generated"] # Nil => secret["generated"].owner # u

-----------------------------------------------------------------------------
(* What comments in the code say and it does not do.                       *)

\* "CreateOrUpdateUser creates or updates a PostgreSQL user" (client.go, line 96):
\* once nothing is in the way any longer and all instances are up, each that is
\* selected has the role with the password of the Secret.
Configured == \A n \in Selected : roles[n] = secret[user.spec.source].pw
PasswordsConverge ==
    <>[](Serviceable /\ up = Names) => <>[](Serviceable /\ Configured)

\* "No rotation policy - only rotate if secret doesn't exist" (line 347).
RotatesOnlyIfMissing ==
    [][user # Nil /\ secret["generated"] # Nil
         /\ secret'["generated"] \notin {Nil, secret["generated"]} =>
         user.spec.rotate]_vars

\* "Only attempt to drop user if cluster exists" (line 393): when the cluster
\* exists and its instances answer, a user that is released leaves no role behind
\* on the instances its status lists as ready.
ReleasedUsersAreDropped ==
    [][user # Nil /\ user.fin /\ user' = Nil /\ cluster # Nil /\ up = Names =>
         \A i \in DOMAIN user.status.instances :
             user.status.instances[i].ready =>
                 roles[user.status.instances[i].name] = Nil]_vars

=============================================================================
