-------------------------- MODULE BackupController --------------------------
(***************************************************************************)
(* The PostgresBackup controller (controllers/postgresbackup_controller.go *)
(* and internal/postgres/backup.go): it runs one Job that dumps one        *)
(* instance of a PostgresCluster and reports how the Job fares.  One       *)
(* backup name is modelled, with the Job of that name and the cluster the  *)
(* backup refers to.                                                       *)
(***************************************************************************)
EXTENDS Jobs, Sequences, FiniteSets

CONSTANTS
    Names,        \* instance names
    Selections,   \* the lists of instance names people write
    Clusters,     \* what the cluster may look like
    MaxUid,       \* bound: incarnations
    MaxEvents     \* bound: edits, faults and deleted Jobs together

\* pvc: spec.backup.storage.config of the cluster names a volume claim.
\* primary: the instance whose pod status.currentPrimary names, Nil while it is empty.
ClusterView == [instances : SUBSET Names, pvc : BOOLEAN, primary : Names \cup {Nil}]

Uids == 1 .. MaxUid

\* What a dump connects to: the Service "<cluster>-<instance>" of an instance, or the
\* pod that the status of the cluster gives for its primary.
Hosts == [service : BOOLEAN, name : Names \cup {Nil}]
Job == JobOf(Uids, Hosts)

ASSUME SelectionsAssumption == Selections \subseteq Seq(Names)
ASSUME ClustersAssumption == Clusters \subseteq ClusterView
ASSUME BackupBoundsAssumption ==
    MaxUid \in Nat /\ MaxEvents \in Nat
ASSUME PrimaryAssumption == "primary" \in Names

VARIABLES
    backup,     \* the PostgresBackup on the API server
    bcache,     \* the manager's cached copy of it
    cluster,    \* the cluster it refers to
    ccache,     \* the manager's cached copy of it
    job,        \* the Job "<backup>-job"
    jcache,     \* the manager's cached copy of it
    queued,     \* the work queue holds, or a timer will add, the key
    pc, me,     \* what Reconcile does next, with which copy
    target,     \* the host this round dumps from
    started,    \* incarnations for which a Job was created
    done,       \* <<incarnation, host>> of the Jobs that completed
    uids, events   \* how much of each bound is used

history == <<started, done>>
bounds == <<uids, events>>
progress == <<queued, pc, me, target>>
vars == <<backup, bcache, cluster, ccache, job, jcache, queued, pc, me, target,
          started, done, uids, events>>

-----------------------------------------------------------------------------
(* Writes to the API server.                                               *)

PutBackup(o) ==
    /\ backup' = o
    /\ bcache' = After(bcache, backup, o)

PutJob(o) ==
    /\ job' = o
    /\ jcache' = After(jcache, job, o)

-----------------------------------------------------------------------------
(* What Reconcile computes.                                                *)

NoStatus == [phase |-> Nil, job |-> FALSE, target |-> Nil]

\* The instances a backup asks for, in order of preference.
candidates(names) == IF names = <<>> THEN <<"primary">> ELSE names

\* The first candidate that is an instance of the cluster: none is an error.
\* A cluster that lists no instances yet has no instance to choose.
getTargetInstance(names, instances) ==
    IF instances = {} THEN {Nil}
    ELSE {candidates(names)[i] : i \in
             {k \in DOMAIN candidates(names) :
                 /\ candidates(names)[k] \in instances
                 /\ \A j \in 1 .. k - 1 : candidates(names)[j] \notin instances}}

\* Without an instance the host is what the status of the cluster says.
targetHost(instance, c) ==
    IF instance = Nil THEN [service |-> FALSE, name |-> c.primary]
    ELSE [service |-> TRUE, name |-> instance]

\* The status names the instance that was chosen, and "primary" when none was,
\* whatever the host is then.
targetInstance(h) == IF h.service THEN h.name ELSE "primary"

\* Mutant: a backup that has failed is not tried again.
dispatchOnce(o, c) ==
    CASE ~o.fin -> "finalizer"
      [] o.fin /\ o.del -> "delete"
      [] o.fin /\ ~o.del /\ o.status.phase = "Failed" -> "idle"
      [] o.fin /\ ~o.del /\ o.status.phase # "Failed" /\ c = Nil -> "noCluster"
      [] OTHER -> IF getTargetInstance(o.names, c.instances) # {} /\ c.pvc
                  THEN "job" ELSE "error"

\* Mutant: the finalizer is not waited for.
dispatchUnprotected(o, c) ==
    CASE o.del -> "delete"
      [] ~o.del /\ c = Nil -> "noCluster"
      [] OTHER -> IF getTargetInstance(o.names, c.instances) # {} /\ c.pvc
                  THEN "job" ELSE "error"

\* Where Reconcile goes with the objects that it read.
dispatch(o, c) ==
    CASE ~o.fin -> "finalizer"
      [] o.fin /\ o.del -> "delete"
      [] o.fin /\ ~o.del /\ c = Nil -> "noCluster"
      [] OTHER -> IF getTargetInstance(o.names, c.instances) # {} /\ c.pvc
                  THEN "job" ELSE "error"

-----------------------------------------------------------------------------
(* The steps of Reconcile: one call each.                                  *)

Return(q) ==
    /\ pc' = "idle" /\ me' = NoCopy /\ target' = Nil
    /\ queued' = (queued \/ q)

Goto(step) == pc' = step /\ UNCHANGED <<queued, me, target>>

Start ==
    /\ pc = "idle" /\ queued
    /\ queued' = FALSE
    /\ IF bcache.obj = Nil
       THEN UNCHANGED <<pc, me, target>>
       ELSE /\ me' = bcache
            /\ pc' = dispatch(bcache.obj, ccache.obj)
            /\ target' \in IF pc' = "job"
                           THEN {targetHost(t, ccache.obj) : t \in
                                   getTargetInstance(bcache.obj.names, ccache.obj.instances)}
                           ELSE {Nil}
    /\ UNCHANGED <<backup, bcache, cluster, ccache, job, jcache, history, bounds>>

\* The server forbids new finalizers on an object that is being deleted.
AddFinalizer ==
    /\ pc = "finalizer"
    /\ IF me.fresh /\ ~me.obj.del
       THEN PutBackup([me.obj EXCEPT !.fin = TRUE]) /\ Return(FALSE)
       ELSE UNCHANGED <<backup, bcache>> /\ Return(TRUE)
    /\ UNCHANGED <<cluster, ccache, job, jcache, history, bounds>>

\* Without its cluster a backup has failed, and Reconcile reports no error.
ClusterMissing ==
    /\ pc = "noCluster"
    /\ IF me.fresh
       THEN PutBackup([me.obj EXCEPT !.status.phase = "Failed"])
       ELSE UNCHANGED <<backup, bcache>>
    /\ Return(~me.fresh)
    /\ UNCHANGED <<cluster, ccache, job, jcache, history, bounds>>

CreateJob ==
    /\ PutJob(NewJob(me.obj.uid, target))
    /\ started' = started \cup {me.obj.uid}
    /\ Goto("status")

\* Mutant: a Job that exists is taken as it is.
CreateOrUpdateKeeping ==
    /\ pc = "job"
    /\ IF jcache.obj = Nil /\ job = Nil THEN CreateJob
       ELSE /\ Goto(IF jcache.obj = Nil THEN "error" ELSE "status")
            /\ UNCHANGED <<job, jcache, started>>
    /\ UNCHANGED <<backup, bcache, cluster, ccache, done, bounds>>

\* Mutant: a Job that exists is replaced, since it cannot be updated.
CreateOrUpdateReplacing ==
    /\ pc = "job"
    /\ IF (jcache.obj = Nil) = (job = Nil) THEN CreateJob
       ELSE Goto("error") /\ UNCHANGED <<job, jcache, started>>
    /\ UNCHANGED <<backup, bcache, cluster, ccache, done, bounds>>

\* The server refuses to update a Job that exists: the pod template that it was
\* created with, to which the server has added, cannot be changed.
CreateOrUpdate ==
    /\ pc = "job"
    /\ IF jcache.obj = Nil /\ job = Nil THEN CreateJob
       ELSE Goto("error") /\ UNCHANGED <<job, jcache, started>>
    /\ UNCHANGED <<backup, bcache, cluster, ccache, done, bounds>>

\* The status with what the cached copy of the Job shows.
reported(st) ==
    [phase |-> JobPhase(jcache.obj, "Pending"), job |-> TRUE,
     target |-> targetInstance(target)]

\* The Job that was just created may not be in the cache yet: that is an error.
updateBackupStatus ==
    /\ pc = "status"
    /\ IF jcache.obj = Nil
       THEN Goto("error") /\ UNCHANGED <<backup, bcache>>
       ELSE /\ IF me.fresh THEN PutBackup([me.obj EXCEPT !.status = reported(@)])
               ELSE UNCHANGED <<backup, bcache>>
            /\ Return(TRUE)
    /\ UNCHANGED <<cluster, ccache, job, jcache, history, bounds>>

\* Reconcile reports the failure and returns the error.
ReportError ==
    /\ pc = "error"
    /\ IF me.fresh
       THEN PutBackup([me.obj EXCEPT !.status.phase = "Failed"])
       ELSE UNCHANGED <<backup, bcache>>
    /\ Return(TRUE)
    /\ UNCHANGED <<cluster, ccache, job, jcache, history, bounds>>

\* Mutant: a Job that is gone keeps a backup from being released.
DeleteJobStrictly ==
    /\ pc = "delete"
    /\ IF me.obj.status.job /\ jcache.obj # Nil
       THEN PutJob(Nil) /\ Goto("release")
       ELSE /\ IF me.obj.status.job THEN Return(TRUE) ELSE Goto("release")
            /\ UNCHANGED <<job, jcache>>
    /\ UNCHANGED <<backup, bcache, cluster, ccache, history, bounds>>

\* Mutant: a Job that is gone ends the round, and nothing begins another.
DeleteJobSilently ==
    /\ pc = "delete"
    /\ IF me.obj.status.job /\ jcache.obj # Nil
       THEN PutJob(Nil) /\ Goto("release")
       ELSE /\ IF me.obj.status.job THEN Return(FALSE) ELSE Goto("release")
            /\ UNCHANGED <<job, jcache>>
    /\ UNCHANGED <<backup, bcache, cluster, ccache, history, bounds>>

\* handleDeletion deletes the Job that the status names, if the cache shows it.
DeleteJob ==
    /\ pc = "delete"
    /\ Goto("release")
    /\ IF me.obj.status.job /\ jcache.obj # Nil THEN PutJob(Nil)
       ELSE UNCHANGED <<job, jcache>>
    /\ UNCHANGED <<backup, bcache, cluster, ccache, history, bounds>>

RemoveFinalizer ==
    /\ pc = "release"
    /\ IF me.fresh THEN PutBackup(Nil) ELSE UNCHANGED <<backup, bcache>>
    /\ Return(~me.fresh)
    /\ UNCHANGED <<cluster, ccache, job, jcache, history, bounds>>

Reconcile ==
    \/ Start \/ AddFinalizer \/ ClusterMissing \/ CreateOrUpdate
    \/ updateBackupStatus \/ ReportError \/ DeleteJob \/ RemoveFinalizer

\* An API call fails, or the manager restarts between two calls.
Abort ==
    /\ pc # "idle" /\ events < MaxEvents
    /\ events' = events + 1
    /\ Return(TRUE)
    /\ UNCHANGED <<backup, bcache, cluster, ccache, job, jcache, history, uids>>

\* A call of reconcileBackup fails, the report of the failure may not.  The last
\* one, the status write, leaves its result in Reconcile's copy.
CallFails ==
    /\ pc \in {"job", "status"} /\ events < MaxEvents
    /\ events' = events + 1
    /\ pc' = "error"
    /\ me' = IF pc = "status" /\ jcache.obj # Nil
             THEN [me EXCEPT !.obj.status = reported(@)] ELSE me
    /\ UNCHANGED <<backup, bcache, cluster, ccache, job, jcache, queued, target,
                   history, uids>>

-----------------------------------------------------------------------------
(* Watches: the controller watches backups and their Jobs, no clusters.    *)

SyncBackup ==
    /\ ~bcache.fresh
    /\ bcache' = Copy(backup)
    /\ queued' = TRUE
    /\ UNCHANGED <<backup, cluster, ccache, job, jcache, pc, me, target, history, bounds>>

SyncJob ==
    /\ ~jcache.fresh
    /\ jcache' = Copy(job)
    /\ queued' = TRUE
    /\ UNCHANGED <<backup, bcache, cluster, ccache, job, pc, me, target, history, bounds>>

SyncCluster ==
    /\ ~ccache.fresh
    /\ ccache' = Copy(cluster)
    /\ UNCHANGED <<backup, bcache, cluster, job, jcache, progress, history, bounds>>

\* The informer resynchronises: it queues what it has cached, as a restart does.
Resync ==
    /\ bcache.obj # Nil /\ ~queued
    /\ queued' = TRUE
    /\ UNCHANGED <<backup, bcache, cluster, ccache, job, jcache, pc, me, target,
                   history, bounds>>

-----------------------------------------------------------------------------
(* Users of the API, the cluster, the Job controller, garbage collection.  *)

PutBackupOutside(o) ==
    /\ PutBackup(o)
    /\ me' = After(me, backup, o)
    /\ UNCHANGED <<cluster, ccache, job, jcache, queued, pc, target, history>>

CreateBackup(s) ==
    /\ backup = Nil /\ uids < MaxUid
    /\ uids' = uids + 1
    /\ PutBackupOutside([uid |-> uids + 1, del |-> FALSE, fin |-> FALSE, names |-> s,
                         status |-> NoStatus])
    /\ UNCHANGED events

EditBackup(s) ==
    /\ backup # Nil /\ s # backup.names /\ events < MaxEvents
    /\ events' = events + 1
    /\ PutBackupOutside([backup EXCEPT !.names = s])
    /\ UNCHANGED uids

DeleteBackup ==
    /\ backup # Nil /\ ~backup.del
    /\ PutBackupOutside(IF backup.fin THEN [backup EXCEPT !.del = TRUE] ELSE Nil)
    /\ UNCHANGED bounds

ChangeCluster(c) ==
    /\ c # cluster /\ events < MaxEvents
    /\ events' = events + 1
    /\ cluster' = c
    /\ ccache' = After(ccache, cluster, c)
    /\ UNCHANGED <<backup, bcache, job, jcache, progress, history, uids>>

\* A Job retries up to six times.
RunJob ==
    /\ job # Nil
    /\ \E j \in JobSteps(job, TRUE) :
          /\ PutJob(j)
          /\ done' = IF j.state = "completed" THEN done \cup {<<j.owner, j.target>>} ELSE done
    /\ UNCHANGED <<backup, bcache, cluster, ccache, progress, started, bounds>>

\* Whoever deletes the Job of a backup asks for another one.
RemoveJob ==
    /\ job # Nil /\ events < MaxEvents
    /\ events' = events + 1
    /\ PutJob(Nil)
    /\ started' = started \ {job.owner}
    /\ UNCHANGED <<backup, bcache, cluster, ccache, progress, done, uids>>

\* The garbage collector removes the Job of a backup that is gone.
CollectJob ==
    /\ job # Nil
    /\ backup # Nil => backup.uid # job.owner
    /\ PutJob(Nil)
    /\ UNCHANGED <<backup, bcache, cluster, ccache, progress, history, bounds>>

-----------------------------------------------------------------------------

Init ==
    /\ backup = Nil /\ bcache = Copy(Nil)
    /\ cluster \in Clusters \cup {Nil} /\ ccache = Copy(cluster)
    /\ job = Nil /\ jcache = Copy(Nil)
    /\ queued = FALSE
    /\ pc = "idle" /\ me = NoCopy /\ target = Nil
    /\ started = {} /\ done = {}
    /\ uids = 0 /\ events = 0

People ==
    \/ \E s \in Selections : CreateBackup(s) \/ EditBackup(s)
    \/ DeleteBackup \/ RemoveJob
    \/ \E c \in Clusters \cup {Nil} : ChangeCluster(c)

World == SyncBackup \/ SyncJob \/ SyncCluster \/ Resync \/ RunJob \/ CollectJob

Next == Reconcile \/ Abort \/ CallFails \/ People \/ World

Spec == Init /\ [][Next]_vars

\* The worker, the watches and the garbage collector keep running and informers
\* resynchronise.  A dump may take for ever.
Fairness ==
    /\ WF_vars(Reconcile) /\ WF_vars(CollectJob) /\ WF_vars(Resync)
    /\ WF_vars(SyncBackup) /\ WF_vars(SyncJob) /\ WF_vars(SyncCluster)

FairSpec == Spec /\ Fairness

-----------------------------------------------------------------------------
(* Types.                                                                  *)

Status ==
    [phase : {Nil, "Pending", "Running", "Completed", "Failed"}, job : BOOLEAN,
     target : Names \cup {Nil}]

Backup ==
    [uid : Uids, del : BOOLEAN, fin : BOOLEAN, names : Seq(Names), status : Status]

ASSUME BackupNilAssumption ==
    /\ Nil \notin Backup /\ Nil \notin ClusterView /\ Nil \notin Job /\ Nil \notin Hosts
    /\ Nil \notin Names \cup {"Completed", "Failed"}

\* Every variable keeps its type.
TypeOK ==
    /\ backup \in Backup \cup {Nil} /\ bcache \in CopyOf(Backup \cup {Nil})
    /\ cluster \in ClusterView \cup {Nil} /\ ccache \in CopyOf(ClusterView \cup {Nil})
    /\ job \in Job \cup {Nil} /\ jcache \in CopyOf(Job \cup {Nil})
    /\ queued \in BOOLEAN
    /\ pc \in {"idle", "finalizer", "noCluster", "job", "status", "error", "delete",
               "release"}
    /\ me \in CopyOf(Backup \cup {Nil}) /\ target \in Hosts \cup {Nil}
    /\ started \subseteq Uids /\ done \subseteq Uids \X Hosts
    /\ uids \in 0 .. MaxUid /\ events \in 0 .. MaxEvents

-----------------------------------------------------------------------------
(* The inductive invariant.                                                *)

reconciling == {"noCluster", "job", "status", "error"}
deleting == {"delete", "release"}

\* What each step of Reconcile relies on.
StepInv ==
    /\ pc # "idle" => me.obj # Nil
    /\ pc = "finalizer" => ~me.obj.fin
    /\ pc \in reconciling => me.obj.fin /\ ~me.obj.del
    /\ pc \in deleting => me.obj.fin /\ me.obj.del
    /\ pc \in {"job", "status"} => target # Nil

\* A fresh copy is the object, except for the status that Reconcile has changed
\* in memory and not yet stored.
FreshInv ==
    /\ bcache.fresh => bcache.obj = backup
    /\ jcache.fresh => jcache.obj = job
    /\ me.fresh =>
          /\ backup # Nil /\ me.obj # Nil
          /\ me.obj.uid = backup.uid /\ me.obj.names = backup.names
          /\ me.obj.del = backup.del /\ me.obj.fin = backup.fin

\* What a copy shows, a later copy shows too.
older(a, b) ==
    a # Nil /\ b # Nil =>
        /\ a.uid <= b.uid
        /\ a.uid = b.uid => (a.fin => b.fin) /\ (a.del => b.del)

OrderInv ==
    /\ backup # Nil => backup.uid = uids
    /\ bcache.obj # Nil => bcache.obj.uid <= uids
    /\ me.obj # Nil => me.obj.uid <= uids
    /\ older(bcache.obj, backup) /\ older(me.obj, bcache.obj) /\ older(me.obj, backup)

\* A copy with the finalizer that does not show a deletion proves that its
\* incarnation still exists.
proves(o) ==
    o # Nil /\ o.fin /\ ~o.del => backup # Nil /\ backup.uid = o.uid /\ backup.fin

CopyInv == proves(bcache.obj) /\ proves(me.obj)

\* The Job belongs to an incarnation that the cache has shown; one that a deletion
\* meets belongs to the backup that is deleted or to an earlier one.
OwnerInv ==
    job # Nil =>
        /\ job.owner <= uids
        /\ bcache.obj # Nil => job.owner <= bcache.obj.uid
        /\ pc \in deleting => job.owner <= me.obj.uid

\* No round will create a Job for incarnation u any more.
over(u) ==
    /\ backup # Nil /\ backup.uid = u => backup.del
    /\ bcache.obj # Nil /\ bcache.obj.uid = u => bcache.obj.del
    /\ pc = "job" => me.obj.uid # u

\* The Job that was started for an incarnation exists, or it needs no other.
StartedInv ==
    \A u \in started :
        /\ u <= uids
        /\ backup # Nil /\ backup.uid = u => backup.fin
        /\ bcache.obj # Nil /\ bcache.obj.uid = u => bcache.obj.fin
        /\ (job # Nil /\ job.owner = u) \/ over(u)

\* The Job that Reconcile is about to report is the one that it has created.
ReportInv ==
    pc = "status" =>
        \A j \in {job, jcache.obj} :
            j # Nil => j.owner = me.obj.uid /\ j.target = target

\* The dump that the status of a backup speaks of is complete.
dumped(o) ==
    \E h \in Hosts : <<o.uid, h>> \in done /\ o.status.target = targetInstance(h)

\* Whatever says that a dump is complete says so after it.
DoneInv ==
    /\ \A j \in {job, jcache.obj} :
          j # Nil /\ j.state = "completed" => <<j.owner, j.target>> \in done
    /\ \A o \in {backup, bcache.obj, me.obj} :
          o # Nil /\ o.status.phase = "Completed" => dumped(o)

\* All of this together is inductive.
IInv ==
    /\ TypeOK /\ StepInv /\ FreshInv /\ OrderInv /\ CopyInv /\ OwnerInv /\ StartedInv
    /\ ReportInv /\ DoneInv

-----------------------------------------------------------------------------
(* What the controller promises.                                           *)

\* A backup that is reported Completed was dumped, in this incarnation, from the
\* Service of the instance that its status names, or, if the status says "primary",
\* perhaps from the pod that a cluster without instances gave for its primary, of
\* whatever instance that is.  A Job of that name that an earlier incarnation or
\* another selection has left behind does not count.
CompletedMeansBackedUp ==
    backup # Nil /\ backup.status.phase = "Completed" =>
        \/ <<backup.uid, [service |-> TRUE, name |-> backup.status.target]>> \in done
        \/ /\ backup.status.target = "primary"
           /\ \E n \in Names \cup {Nil} :
                 <<backup.uid, [service |-> FALSE, name |-> n]>> \in done

\* One incarnation of a backup gets one Job, however often Reconcile is retried
\* after a crash, a conflict or from a cache that does not show the Job yet.
BackedUpOnce ==
    [][job' # job /\ job' # Nil /\ job'.state = "created" => job'.owner \notin started]_vars

\* The Job of the backup has the life cycle that JobLifecycle describes.
Lifecycle ==
    INSTANCE JobLifecycle WITH
        Slots <- {"dump"}, Targets <- Hosts,
        phase <- IF backup = Nil THEN "absent"
                 ELSE IF backup.del THEN "deleting" ELSE "live",
        uid <- uids,
        job <- [s \in {"dump"} |-> job],
        spent <- [s \in {"dump"} |-> started]

JobHasLifecycle == Lifecycle!Spec

\* A backup that nothing is going to look at, because no round is under way, its
\* key is not queued and the cache has seen its last change, is one that was
\* reported Failed: every conflict, failed call and deletion leads to another
\* round, only a missing cluster does not.
NothingForgotten ==
    backup # Nil /\ bcache.fresh /\ pc = "idle" /\ ~queued =>
        backup.fin /\ ~backup.del /\ backup.status.phase = "Failed"

\* A backup that can be carried out gets its Job in the end, also when its
\* cluster or the volume claim of it came later than the backup.
Feasible ==
    /\ backup # Nil /\ ~backup.del /\ cluster # Nil
    /\ cluster.pvc /\ getTargetInstance(backup.names, cluster.instances) # {}

BackupStarts == <>[]Feasible => <>(backup # Nil /\ backup.uid \in started)

\* A backup that is deleted disappears, and its Job with it, whether the status
\* got to name the Job or not.
BackupDeletionCompletes ==
    \A u \in Uids :
        backup # Nil /\ backup.uid = u /\ backup.del
            ~> /\ backup = Nil \/ backup.uid # u
               /\ job # Nil => job.owner # u

-----------------------------------------------------------------------------
(* What the controller says and does not do.                               *)

\* "Update phase based on job status" (line 209): a backup whose Job has completed
\* is reported Completed.
CompletionIsReported ==
    \A u \in Uids :
        job # Nil /\ job.owner = u /\ job.state = "completed"
            ~> \/ job = Nil \/ job.owner # u
               \/ backup = Nil \/ backup.uid # u \/ backup.del
               \/ backup.status.phase = "Completed"

=============================================================================
