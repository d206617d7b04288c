------------------------- MODULE RestoreController -------------------------
(***************************************************************************)
(* The PostgresRestore controller (controllers/postgresrestore_controller  *)
(* .go and internal/postgres/restore.go): it restores a backup into the    *)
(* selected instances of a cluster with one Job each, keeps a status per   *)
(* instance and sums them up.  One restore name is modelled, with its Jobs *)
(* and the cluster and the backup it refers to.                            *)
(***************************************************************************)
EXTENDS Jobs, Sequences, FiniteSets

CONSTANTS
    Names,        \* instance names
    Selectors,    \* the selectors people write
    Clusters,     \* what spec.instances of the cluster may be
    Backups,      \* what the backup may be
    MaxUid,       \* bound: incarnations
    MaxEvents     \* bound: edits, faults and deleted Jobs together

Roles == {"primary", "replica"}
Instances == Seq([name : Names, role : Roles])

\* match stands for a label selector: the instances whose labels it matches.
Selector ==
    [kind : {"all", "names", "role", "label"}, names : Seq(Names), role : Roles,
     match : SUBSET Names]

\* "volume" is local storage whose configuration names a volume claim.
BackupView ==
    [type : {"logical", "physical", ""}, storage : {"volume", "s3", "other"}]

Uids == 1 .. MaxUid
Job == JobOf(Uids, Names)

ASSUME SelectorsAssumption == Selectors \subseteq Selector
ASSUME ClustersAssumption == Clusters \subseteq Instances
ASSUME BackupsAssumption == Backups \subseteq BackupView
ASSUME RestoreBoundsAssumption == MaxUid \in Nat /\ MaxEvents \in Nat

VARIABLES
    restore,    \* the PostgresRestore on the API server
    rcache,     \* the manager's cached copy of it
    cluster,    \* spec.instances of the cluster it refers to
    ccache,     \* the manager's cached copy of it
    backup,     \* the backup it refers to
    bcache,     \* the manager's cached copy of it
    jobs,       \* per instance, the Job "<restore>-<instance>-restore"
    jcache,     \* the manager's cached copies of them
    queued,     \* the work queue holds, or a timer will add, the key
    pc, idx, me,\* what Reconcile does next, for which instance, with which copy
    local,      \* its other variables
    started,    \* per instance, the incarnations for which a Job was created
    restored,   \* per instance, the incarnations whose Job has completed
    uids, events   \* how much of each bound is used

others == <<cluster, ccache, backup, bcache>>
own == <<restore, rcache>>
work == <<jobs, jcache>>
history == <<started, restored>>
bounds == <<uids, events>>
progress == <<queued, pc, idx, me, local>>
vars == <<restore, rcache, cluster, ccache, backup, bcache, jobs, jcache,
          queued, pc, idx, me, local, started, restored, uids, events>>

-----------------------------------------------------------------------------
(* Writes to the API server.                                               *)

PutRestore(o) ==
    /\ restore' = o
    /\ rcache' = After(rcache, restore, o)

PutJob(n, o) ==
    /\ jobs' = [jobs EXCEPT ![n] = o]
    /\ jcache' = [jcache EXCEPT ![n] = After(@, jobs[n], o)]

-----------------------------------------------------------------------------
(* What Reconcile computes.                                                *)

namesOf(instances) == [i \in DOMAIN instances |-> instances[i].name]

\* Names that the cluster does not have and roles that nobody plays are errors, a
\* label selector that matches nothing is not.
selects(sel, instances) ==
    CASE sel.kind = "names" -> \A i \in DOMAIN sel.names :
             \E k \in DOMAIN instances : instances[k].name = sel.names[i]
      [] sel.kind = "role" -> \E k \in DOMAIN instances : instances[k].role = sel.role
      [] OTHER -> TRUE

getTargetInstances(sel, instances) ==
    CASE sel.kind = "all" -> namesOf(instances)
      [] sel.kind = "names" -> sel.names
      [] sel.kind = "role" ->
             namesOf(SelectSeq(instances, LAMBDA i : i.role = sel.role))
      [] sel.kind = "label" ->
             namesOf(SelectSeq(instances, LAMBDA i : i.name \in sel.match))

\* Whatever people select, and the cluster lists, are instance names.
ASSUME SelectionAssumption ==
    \A sel \in Selectors, c \in Clusters : getTargetInstances(sel, c) \in Seq(Names)

\* What BuildRestoreCommand and AddBackupVolumeToJob accept: not the backups that
\* leave their type to the backup controller.
BuildRestoreCommand(b) == b.type \in {"logical", "physical"}
AddBackupVolumeToJob(b) == b.storage \in {"volume", "s3"}

createRestoreJob(b) == BuildRestoreCommand(b) /\ AddBackupVolumeToJob(b)

NoStatus == [phase |-> Nil, instances |-> <<>>]

pendingStatuses(targets) ==
    [i \in DOMAIN targets |-> [name |-> targets[i], phase |-> "Pending"]]

\* The phase that updateRestoreStatus makes of those of the instances.
overall(instances) ==
    LET count(p) == {i \in DOMAIN instances : instances[i].phase = p}
    IN  CASE count("Failed") # {} -> "Failed"
          [] count("Failed") = {} /\ count("Completed") = DOMAIN instances -> "Completed"
          [] /\ count("Failed") = {} /\ count("Completed") # DOMAIN instances
             /\ count("Running") # {} -> "Running"
          [] OTHER -> "Pending"

-----------------------------------------------------------------------------
(* The steps of Reconcile: one call each.                                  *)

NoLocal == [targets |-> <<>>, backup |-> Nil, job |-> Nil]

Return(q) ==
    /\ pc' = "idle" /\ idx' = 1 /\ me' = NoCopy /\ local' = NoLocal
    /\ queued' = (queued \/ q)

Goto(step, j) == pc' = step /\ idx' = j /\ UNCHANGED queued

\* The instances are processed in order, then the status is summed up.
Process(j, targets) == Goto(IF j \in DOMAIN targets THEN "instance" ELSE "status", j)

\* Mutant: a restore that has completed is reconciled like any other.
beginAgain(o) ==
    CASE o.del -> "delete"
      [] ~o.del /\ ~o.fin -> "finalizer"
      [] OTHER -> IF /\ ccache.obj # Nil /\ bcache.obj # Nil
                     /\ selects(o.sel, ccache.obj)
                  THEN "init" ELSE "error"

\* Mutant: the finalizer is not waited for.
beginUnprotected(o) ==
    CASE o.del -> "delete"
      [] ~o.del /\ o.status.phase = "Completed" -> "idle"
      [] OTHER -> IF /\ ccache.obj # Nil /\ bcache.obj # Nil
                     /\ selects(o.sel, ccache.obj)
                  THEN "init" ELSE "error"

\* Where Reconcile goes with the copies that the caches hold when it begins.
begin(o) ==
    CASE o.del -> "delete"
      [] ~o.del /\ ~o.fin -> "finalizer"
      [] ~o.del /\ o.fin /\ o.status.phase = "Completed" -> "idle"
      [] OTHER -> IF /\ ccache.obj # Nil /\ bcache.obj # Nil
                     /\ selects(o.sel, ccache.obj)
                  THEN "init" ELSE "error"

Start ==
    /\ pc = "idle" /\ queued
    /\ queued' = FALSE
    /\ IF rcache.obj = Nil
       THEN UNCHANGED <<pc, me, local>>
       ELSE /\ pc' = begin(rcache.obj)
            /\ me' = IF pc' = "idle" THEN NoCopy ELSE rcache
            /\ local' = IF pc' # "init" THEN NoLocal
                        ELSE [targets |-> getTargetInstances(rcache.obj.sel, ccache.obj),
                              backup |-> bcache.obj, job |-> Nil]
    /\ UNCHANGED <<idx, own, others, work, history, bounds>>

AddFinalizer ==
    /\ pc = "finalizer"
    /\ IF me.fresh THEN PutRestore([me.obj EXCEPT !.fin = TRUE])
       ELSE UNCHANGED own
    /\ Return(TRUE)
    /\ UNCHANGED <<others, work, history, bounds>>

\* Mutant: every round starts with new statuses.
initializeStatusesAlways ==
    /\ pc = "init"
    /\ IF me.fresh
       THEN /\ PutRestore([me.obj EXCEPT
                   !.status.instances = pendingStatuses(local.targets)])
            /\ me' = Copy(restore')
            /\ Process(1, local.targets) /\ UNCHANGED local
       ELSE Return(TRUE) /\ UNCHANGED own
    /\ UNCHANGED <<others, work, history, bounds>>

\* The statuses are matched to the targets by their number and their position.
initializeStatuses ==
    /\ pc = "init"
    /\ IF Len(me.obj.status.instances) = Len(local.targets)
       THEN Process(1, local.targets) /\ UNCHANGED <<own, me, local>>
       ELSE IF me.fresh
       THEN /\ PutRestore([me.obj EXCEPT
                   !.status.instances = pendingStatuses(local.targets)])
            /\ me' = Copy(restore')
            /\ Process(1, local.targets) /\ UNCHANGED local
       ELSE Return(TRUE) /\ UNCHANGED own
    /\ UNCHANGED <<others, work, history, bounds>>

\* A phase is set in the memory of Reconcile and stored at the end of the round.
setPhase(phase) == me' = [me EXCEPT !.obj.status.instances[idx].phase = phase]

Fail == Goto("error", 1) /\ UNCHANGED <<me, local, jobs, jcache, started>>

\* Mutant: a Job that has failed makes room for another attempt.
ensureJobRetrying ==
    /\ pc = "instance"
    /\ LET status == me.obj.status.instances[idx]
           t == local.targets[idx]
       IN  CASE status.phase = "Completed" ->
                  /\ Process(idx + 1, local.targets)
                  /\ UNCHANGED <<me, local, work, started>>
             [] status.phase # "Completed" /\ jcache[status.name].obj # Nil ->
                  /\ Goto("job", idx)
                  /\ local' = [local EXCEPT !.job = status.name]
                  /\ IF jcache[status.name].obj.state = "failed"
                     THEN PutJob(status.name, Nil) ELSE UNCHANGED work
                  /\ UNCHANGED <<me, started>>
             [] status.phase # "Completed" /\ jcache[status.name].obj = Nil ->
                  IF createRestoreJob(local.backup) /\ jobs[t] = Nil
                  THEN /\ PutJob(t, NewJob(me.obj.uid, t))
                       /\ started' = [started EXCEPT ![t] = @ \cup {me.obj.uid}]
                       /\ setPhase("Running")
                       /\ local' = [local EXCEPT !.job = t]
                       /\ Goto("job", idx)
                  ELSE Fail
    /\ UNCHANGED <<own, others, restored, bounds>>

\* The Job is looked up by the status and created by the target, if the cache
\* shows none; the server refuses a second one of the name.
ensureJob ==
    /\ pc = "instance"
    /\ LET status == me.obj.status.instances[idx]
           t == local.targets[idx]
       IN  CASE status.phase = "Completed" ->
                  /\ Process(idx + 1, local.targets)
                  /\ UNCHANGED <<me, local, work, started>>
             [] status.phase # "Completed" /\ jcache[status.name].obj # Nil ->
                  /\ Goto("job", idx)
                  /\ local' = [local EXCEPT !.job = status.name]
                  /\ UNCHANGED <<me, work, started>>
             [] status.phase # "Completed" /\ jcache[status.name].obj = Nil ->
                  IF createRestoreJob(local.backup) /\ jobs[t] = Nil
                  THEN /\ PutJob(t, NewJob(me.obj.uid, t))
                       /\ started' = [started EXCEPT ![t] = @ \cup {me.obj.uid}]
                       /\ setPhase("Running")
                       /\ local' = [local EXCEPT !.job = t]
                       /\ Goto("job", idx)
                  ELSE Fail
    /\ UNCHANGED <<own, others, restored, bounds>>

\* A Job that the cache does not show leaves the status as it is.
updateJobStatus ==
    /\ pc = "job"
    /\ IF jcache[local.job].obj = Nil THEN me' = me
       ELSE setPhase(JobPhase(jcache[local.job].obj, me.obj.status.instances[idx].phase))
    /\ local' = [local EXCEPT !.job = Nil]
    /\ Process(idx + 1, local.targets)
    /\ UNCHANGED <<own, others, work, history, bounds>>

updateRestoreStatus ==
    /\ pc = "status"
    /\ IF me.fresh
       THEN PutRestore([me.obj EXCEPT !.status.phase = overall(me.obj.status.instances)])
       ELSE UNCHANGED own
    /\ Return(TRUE)
    /\ UNCHANGED <<others, work, history, bounds>>

\* Mutant: a failure that was reported is not returned, as a backup without its
\* cluster is not.
handleErrorQuietly ==
    /\ pc = "error"
    /\ IF me.fresh THEN PutRestore([me.obj EXCEPT !.status.phase = "Failed"])
       ELSE UNCHANGED own
    /\ Return(~me.fresh)
    /\ UNCHANGED <<others, work, history, bounds>>

\* Reconcile reports the failure, with the instance statuses it has so far, and
\* returns an error.
handleError ==
    /\ pc = "error"
    /\ IF me.fresh THEN PutRestore([me.obj EXCEPT !.status.phase = "Failed"])
       ELSE UNCHANGED own
    /\ Return(TRUE)
    /\ UNCHANGED <<others, work, history, bounds>>

\* Mutant: handleDeletion fails when a Job is gone.
deleteJobsStrictly ==
    /\ pc = "delete"
    /\ IF idx > Len(me.obj.status.instances)
       THEN Goto("release", 1) /\ UNCHANGED <<me, local, work>>
       ELSE LET n == me.obj.status.instances[idx].name
            IN  IF jobs[n] = Nil THEN Return(TRUE) /\ UNCHANGED work
                ELSE PutJob(n, Nil) /\ Goto("delete", idx + 1) /\ UNCHANGED <<me, local>>
    /\ UNCHANGED <<own, others, history, bounds>>

\* handleDeletion deletes the Jobs that the statuses name, by name.
deleteJobs ==
    /\ pc = "delete"
    /\ IF idx > Len(me.obj.status.instances)
       THEN Goto("release", 1) /\ UNCHANGED work
       ELSE /\ PutJob(me.obj.status.instances[idx].name, Nil)
            /\ Goto("delete", idx + 1)
    /\ UNCHANGED <<me, local, own, others, history, bounds>>

RemoveFinalizer ==
    /\ pc = "release"
    /\ IF me.fresh THEN PutRestore(Nil) ELSE UNCHANGED own
    /\ Return(~me.fresh)
    /\ UNCHANGED <<others, work, history, bounds>>

Reconcile ==
    \/ Start \/ AddFinalizer \/ initializeStatuses \/ ensureJob \/ updateJobStatus
    \/ updateRestoreStatus \/ handleError \/ deleteJobs \/ RemoveFinalizer

\* An API call fails, or the manager restarts between two calls.
Abort ==
    /\ pc # "idle" /\ events < MaxEvents
    /\ events' = events + 1
    /\ Return(TRUE)
    /\ UNCHANGED <<own, others, work, history, uids>>

\* A call of reconcileRestore fails, the report of the failure may not: statuses
\* that could not be initialised are reported with it.
CallFails ==
    /\ pc \in {"init", "instance", "job", "status"} /\ events < MaxEvents
    /\ events' = events + 1
    /\ Goto("error", 1)
    /\ me' = IF /\ pc = "init"
                /\ Len(me.obj.status.instances) # Len(local.targets)
             THEN [me EXCEPT !.obj.status.instances = pendingStatuses(local.targets)] ELSE me
    /\ UNCHANGED <<local, own, others, work, history, uids>>

-----------------------------------------------------------------------------
(* Watches: the controller watches restores and their Jobs, nothing else.  *)

SyncRestore ==
    /\ ~rcache.fresh
    /\ rcache' = Copy(restore)
    /\ queued' = TRUE
    /\ UNCHANGED <<restore, others, work, pc, idx, me, local, history, bounds>>

SyncJob(n) ==
    /\ ~jcache[n].fresh
    /\ jcache' = [jcache EXCEPT ![n] = Copy(jobs[n])]
    /\ queued' = TRUE
    /\ UNCHANGED <<own, others, jobs, pc, idx, me, local, history, bounds>>

SyncCluster ==
    /\ ~ccache.fresh
    /\ ccache' = Copy(cluster)
    /\ UNCHANGED <<own, cluster, backup, bcache, work, progress, history, bounds>>

SyncBackup ==
    /\ ~bcache.fresh
    /\ bcache' = Copy(backup)
    /\ UNCHANGED <<own, cluster, ccache, backup, work, progress, history, bounds>>

-----------------------------------------------------------------------------
(* Users of the API, other controllers, the Job controller, the garbage    *)
(* collector.                                                              *)

PutRestoreOutside(o) ==
    /\ PutRestore(o)
    /\ me' = After(me, restore, o)
    /\ UNCHANGED <<others, work, queued, pc, idx, local, history>>

\* Creating a restore of a name that was used before is an event.
CreateRestore(s) ==
    /\ restore = Nil /\ uids < MaxUid
    /\ uids > 0 => events < MaxEvents
    /\ uids' = uids + 1
    /\ events' = IF uids > 0 THEN events + 1 ELSE events
    /\ PutRestoreOutside([uid |-> uids + 1, del |-> FALSE, fin |-> FALSE, sel |-> s,
                          status |-> NoStatus])

EditRestore(s) ==
    /\ restore # Nil /\ s # restore.sel /\ events < MaxEvents
    /\ events' = events + 1
    /\ PutRestoreOutside([restore EXCEPT !.sel = s])
    /\ UNCHANGED uids

DeleteRestore ==
    /\ restore # Nil /\ ~restore.del
    /\ PutRestoreOutside(IF restore.fin THEN [restore EXCEPT !.del = TRUE] ELSE Nil)
    /\ UNCHANGED bounds

ChangeCluster(c) ==
    /\ c # cluster /\ events < MaxEvents
    /\ events' = events + 1
    /\ cluster' = c
    /\ ccache' = After(ccache, cluster, c)
    /\ UNCHANGED <<own, backup, bcache, work, progress, history, uids>>

ChangeBackup(b) ==
    /\ b # backup /\ events < MaxEvents
    /\ events' = events + 1
    /\ backup' = b
    /\ bcache' = After(bcache, backup, b)
    /\ UNCHANGED <<own, cluster, ccache, work, progress, history, uids>>

\* The backoff limit of a restore Job is 0: it does not retry.
RunJob(n) ==
    /\ jobs[n] # Nil
    /\ \E j \in JobSteps(jobs[n], FALSE) :
          /\ PutJob(n, j)
          /\ restored' = IF j.state = "completed"
                         THEN [restored EXCEPT ![j.target] = @ \cup {j.owner}] ELSE restored
    /\ UNCHANGED <<own, others, progress, started, bounds>>

\* Whoever deletes a Job of a restore that goes on asks for another one.
RemoveJob(n) ==
    /\ jobs[n] # Nil /\ events < MaxEvents
    /\ events' = events + 1
    /\ PutJob(n, Nil)
    /\ started' = [started EXCEPT ![n] = @ \ {jobs[n].owner}]
    /\ UNCHANGED <<own, others, progress, restored, uids>>

\* The garbage collector removes the Jobs of a restore that is gone.
CollectJob(n) ==
    /\ jobs[n] # Nil
    /\ restore # Nil => restore.uid # jobs[n].owner
    /\ PutJob(n, Nil)
    /\ UNCHANGED <<own, others, progress, history, bounds>>

-----------------------------------------------------------------------------

Init ==
    /\ restore = Nil /\ rcache = Copy(Nil)
    /\ cluster \in Clusters \cup {Nil} /\ ccache = Copy(cluster)
    /\ backup \in Backups \cup {Nil} /\ bcache = Copy(backup)
    /\ jobs = [n \in Names |-> Nil] /\ jcache = [n \in Names |-> Copy(Nil)]
    /\ queued = FALSE
    /\ pc = "idle" /\ idx = 1 /\ me = NoCopy /\ local = NoLocal
    /\ started = [n \in Names |-> {}] /\ restored = [n \in Names |-> {}]
    /\ uids = 0 /\ events = 0

People ==
    \/ \E s \in Selectors : CreateRestore(s) \/ EditRestore(s)
    \/ DeleteRestore
    \/ \E n \in Names : RemoveJob(n)
    \/ \E c \in Clusters \cup {Nil} : ChangeCluster(c)
    \/ \E b \in Backups \cup {Nil} : ChangeBackup(b)

World ==
    \/ SyncRestore \/ SyncCluster \/ SyncBackup
    \/ \E n \in Names : SyncJob(n) \/ RunJob(n) \/ CollectJob(n)

Next == Reconcile \/ Abort \/ CallFails \/ People \/ World

Spec == Init /\ [][Next]_vars

\* The worker, the watches and the garbage collector keep running.  A restore
\* Job may take for ever.
Fairness ==
    /\ WF_vars(Reconcile)
    /\ WF_vars(SyncRestore) /\ WF_vars(SyncCluster) /\ WF_vars(SyncBackup)
    /\ \A n \in Names : WF_vars(SyncJob(n)) /\ WF_vars(CollectJob(n))

FairSpec == Spec /\ Fairness

-----------------------------------------------------------------------------
(* Types.                                                                  *)

Phases == {"Pending", "Running", "Completed", "Failed"}
InstanceStatuses == Seq([name : Names, phase : Phases])
Status == [phase : Phases \cup {Nil}, instances : InstanceStatuses]

Restore ==
    [uid : Uids, del : BOOLEAN, fin : BOOLEAN, sel : Selectors, status : Status]

Local == [targets : Seq(Names), backup : Backups \cup {Nil}, job : Names \cup {Nil}]

ASSUME RestoreNilAssumption ==
    /\ Nil \notin Restore /\ Nil \notin Clusters /\ Nil \notin Backups
    /\ Nil \notin Job /\ Nil \notin Names \cup Phases

\* Every variable keeps its type.
TypeOK ==
    /\ restore \in Restore \cup {Nil} /\ rcache \in CopyOf(Restore \cup {Nil})
    /\ cluster \in Clusters \cup {Nil} /\ ccache \in CopyOf(Clusters \cup {Nil})
    /\ backup \in Backups \cup {Nil} /\ bcache \in CopyOf(Backups \cup {Nil})
    /\ jobs \in [Names -> Job \cup {Nil}]
    /\ jcache \in [Names -> CopyOf(Job \cup {Nil})]
    /\ queued \in BOOLEAN
    /\ pc \in {"idle", "finalizer", "init", "instance", "job", "status", "error",
               "delete", "release"}
    /\ idx \in Nat \ {0} /\ me \in CopyOf(Restore \cup {Nil}) /\ local \in Local
    /\ started \in [Names -> SUBSET Uids] /\ restored \in [Names -> SUBSET Uids]
    /\ uids \in 0 .. MaxUid /\ events \in 0 .. MaxEvents

-----------------------------------------------------------------------------
(* The inductive invariant.                                                *)

creating == {"init", "instance", "job"}
restoring == creating \cup {"status", "error"}
deleting == {"delete", "release"}

\* What each step of Reconcile relies on.
StepInv ==
    /\ pc # "idle" => me.obj # Nil
    /\ pc \in {"instance", "job"} =>
          /\ idx \in DOMAIN local.targets
          /\ Len(me.obj.status.instances) = Len(local.targets)
    /\ pc = "job" => local.job # Nil
    /\ pc \in restoring =>
          me.obj.fin /\ ~me.obj.del /\ me.obj.status.phase # "Completed"
    /\ pc \in deleting => me.obj.del

\* A fresh copy is the object, except for the statuses that Reconcile has changed
\* in memory and not yet stored.
FreshInv ==
    /\ rcache.fresh => rcache.obj = restore
    /\ \A n \in Names : jcache[n].fresh => jcache[n].obj = jobs[n]
    /\ me.fresh =>
          /\ restore # Nil /\ me.obj # Nil
          /\ me.obj.uid = restore.uid /\ me.obj.sel = restore.sel
          /\ me.obj.del = restore.del /\ me.obj.fin = restore.fin
          /\ me.obj.status.phase = restore.status.phase
          /\ pc = "finalizer" => me.obj.status = restore.status

\* What a copy shows, a later copy shows too.
older(a, b) ==
    a # Nil /\ b # Nil =>
        /\ a.uid <= b.uid
        /\ a.uid = b.uid => (a.fin => b.fin) /\ (a.del => b.del)

OrderInv ==
    /\ restore # Nil => restore.uid = uids
    /\ rcache.obj # Nil => rcache.obj.uid <= uids
    /\ me.obj # Nil => me.obj.uid <= uids
    /\ older(rcache.obj, restore) /\ older(me.obj, rcache.obj) /\ older(me.obj, restore)

\* A copy with the finalizer that does not show a deletion proves that its
\* incarnation still exists.
proves(o) ==
    o # Nil /\ o.fin /\ ~o.del => restore # Nil /\ restore.uid = o.uid /\ restore.fin

CopyInv == proves(rcache.obj) /\ proves(me.obj)

\* Jobs belong to incarnations that the cache has shown; those that a deletion
\* meets belong to the restore that is deleted or to an earlier one.
OwnerInv ==
    \A n \in Names : jobs[n] # Nil =>
        /\ jobs[n].owner <= uids
        /\ rcache.obj # Nil => jobs[n].owner <= rcache.obj.uid
        /\ pc \in deleting => jobs[n].owner <= me.obj.uid

\* No round will create a Job for incarnation u any more.
over(u) ==
    /\ restore # Nil /\ restore.uid = u => restore.del
    /\ rcache.obj # Nil /\ rcache.obj.uid = u => rcache.obj.del
    /\ pc \in creating => me.obj.uid # u

\* The Job that was started for an instance exists, or it needs no other.
StartedInv ==
    \A n \in Names : \A u \in started[n] :
        /\ u <= uids
        /\ restore # Nil /\ restore.uid = u => restore.fin
        /\ rcache.obj # Nil /\ rcache.obj.uid = u => rcache.obj.fin
        /\ (jobs[n] # Nil /\ jobs[n].owner = u) \/ over(u)

\* Status a keeps what status b shows as restored, if both are about as many
\* instances.
keeps(a, b) ==
    Len(a.instances) = Len(b.instances) =>
        \A i \in DOMAIN b.instances :
            b.instances[i].phase = "Completed" => a.instances[i] = b.instances[i]

\* A Job is only looked up for an instance that is not restored yet, and what a
\* round may still store keeps what is stored.
ProgressInv ==
    /\ pc = "job" => me.obj.status.instances[idx].phase # "Completed"
    /\ me.fresh /\ pc = "init" => me.obj.status = restore.status
    /\ me.fresh /\ pc \in restoring => keeps(me.obj.status, restore.status)

\* All of this together is inductive.
IInv ==
    /\ TypeOK /\ StepInv /\ FreshInv /\ OrderInv /\ CopyInv /\ OwnerInv /\ StartedInv
    /\ ProgressInv

-----------------------------------------------------------------------------
(* What the controller promises.                                           *)

\* Restoring replaces what an instance holds.  One incarnation of a restore gets
\* one Job per instance, however often Reconcile is retried after a crash or a
\* conflict, works from copies that lag behind, or meets another selection.
RestoredOnce ==
    [][\A n \in Names :
          jobs'[n] # jobs[n] /\ jobs'[n] # Nil /\ jobs'[n].state = "created"
              => jobs'[n].owner \notin started[n]]_vars

\* A restore that is reported Completed stays as it was reported, whatever is
\* edited afterwards and whatever a round that began earlier still writes.
CompletedIsFinal ==
    [][restore # Nil /\ restore.status.phase = "Completed"
         /\ restore' # Nil /\ restore'.uid = restore.uid
          => restore'.status = restore.status]_vars

\* An instance whose status says that it is restored keeps that status, through
\* rounds that fail, run from old copies or meet another selection, as long as the
\* restore goes on with as many instances.
ProgressIsKept ==
    [][restore # Nil /\ restore' # Nil /\ restore'.uid = restore.uid =>
          keeps(restore'.status, restore.status)]_vars

\* The Jobs of the restore have the life cycle that JobLifecycle describes.
Lifecycle ==
    INSTANCE JobLifecycle WITH
        Slots <- Names, Targets <- Names,
        phase <- IF restore = Nil THEN "absent"
                 ELSE IF restore.del THEN "deleting" ELSE "live",
        uid <- uids,
        job <- jobs,
        spent <- started

JobsHaveLifecycle == Lifecycle!Spec

\* A restore that nothing is going to look at, because no round is under way, its
\* key is not queued and the cache has seen its last change, is Completed: every
\* error, conflict, missing object and deletion leads to another round.
NothingForgotten ==
    restore # Nil /\ rcache.fresh /\ pc = "idle" /\ ~queued =>
        restore.fin /\ ~restore.del /\ restore.status.phase = "Completed"

\* Once nothing is in the way any longer and the Jobs that were started have
\* completed, a restore is reported Completed, also after crashes and conflicts
\* that left some of its Jobs created and their statuses unwritten.
Undisturbed ==
    /\ restore # Nil /\ ~restore.del
    /\ cluster # Nil /\ backup # Nil /\ createRestoreJob(backup)
    /\ selects(restore.sel, cluster)
    /\ restore.status.instances # <<>> =>
           namesOf(restore.status.instances) = getTargetInstances(restore.sel, cluster)
    /\ \A n \in Names : jobs[n] # Nil => jobs[n].state = "completed"

CompletionIsReported ==
    <>[]Undisturbed => <>(restore # Nil /\ restore.status.phase = "Completed")

\* A restore that is deleted disappears, and its Jobs with it, also those that no
\* status names.
RestoreDeletionCompletes ==
    \A u \in Uids :
        restore # Nil /\ restore.uid = u /\ restore.del
            ~> /\ restore = Nil \/ restore.uid # u
               /\ \A n \in Names : jobs[n] # Nil => jobs[n].owner # u

-----------------------------------------------------------------------------
(* What the controller says and does not do.                               *)

\* "All instances restored successfully" (line 448) is the message of a restore
\* that is reported Completed.
CompletedMeansRestored ==
    restore # Nil /\ restore.status.phase = "Completed" =>
        /\ restore.status.instances # <<>>
        /\ \A i \in DOMAIN restore.status.instances :
              restore.uid \in restored[restore.status.instances[i].name]

=============================================================================
