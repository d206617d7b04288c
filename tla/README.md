# Verification of the PostgresClusterOperator

The operator (`src/`) is one controller manager with four reconcilers that turn
custom resources into Kubernetes objects and PostgreSQL roles. This directory
holds TLA+ models of its controllers, TLC configurations that check them on
small instances, and TLAPS proofs of their safety for all instances.

## The system

| Component | State it keeps | Operations | Interacts through |
|---|---|---|---|
| `PostgresCluster` controller (`controllers/postgrescluster_controller.go`) | none between rounds; `Status` of the resource, finalizer | `Reconcile`, `reconcile*`, `updateStatus`, `handleDeletion` | API server, informer cache, work queue, garbage collector, StatefulSet controller |
| Child writer (`internal/k8s/resources.go`) | none | `CreateOrUpdate` | cached read followed by create or update |
| `PostgresUser` controller (`controllers/postgresuser_controller.go`) | `Status.LastPasswordChange`, `Status.InstanceStatuses`, a Secret | `Reconcile`, `reconcilePasswordSecret`, `reconcileUserOnInstances`, `handleDeletion` | API server, cluster status, PostgreSQL instances |
| PostgreSQL client (`internal/postgres/client.go`) | a connection pool per call | `NewClientForInstance`, `CreateOrUpdateUser`, `SetConnectionLimit`, `DropUser` | TCP to the instances |
| `PostgresBackup` controller (`controllers/postgresbackup_controller.go`, `internal/postgres/backup.go`) | `Status` of the resource, a Job | `Reconcile`, `reconcileBackup`, `getTargetInstance`, `updateBackupStatus`, `handleDeletion` | API server, Job controller, cluster specification |
| `PostgresRestore` controller (`controllers/postgresrestore_controller.go`, `internal/postgres/restore.go`) | one status per instance, Jobs | `Reconcile`, `reconcileRestore`, `createRestoreJob`, `updateJobStatus`, `updateRestoreStatus`, `handleError`, `handleDeletion` | API server, Job controller, cluster specification, backup |
| Password generator (`internal/utils/crypto.go`) | none | `GeneratePassword` | |
| Manager (`main.go`) | none | wires and starts the reconcilers | |

What is hard about it:

* **Stale reads.** Every `Get` is served by an informer cache that lags behind
  the API server; a round that takes many calls works from one copy throughout.
  Only the resource version protects what others wrote meanwhile. The Delete
  calls of `handleDeletion` do not even have that: they go by name.
* **Rounds end anywhere.** A call fails, a panic is recovered, the manager
  restarts; the next round starts from whatever the caches then show.
* **Incarnations.** A cluster is deleted and created again under its name.
  Owner references tell incarnations apart, names do not, and volumes survive.
* **Random data.** Both controllers draw passwords; drawing again at the wrong
  moment locks the operator out of databases that were initialised before.
* **Things done twice.** A Job that is created again dumps or restores again. The
  controllers find their Job by a name that every incarnation shares, through a
  cache that may not show it or may show another one's.
* **Positions.** A restore matches its statuses to its targets by position, sums
  them up, and keeps what it changed in memory until the end of the round.
* **Liveness.** Work happens when a watch event, an error or a timer queues a
  key. A path that ends without any of them stops for ever.

What makes each component correct:

* cluster controller: children only under a stored finalizer; finalizer given up
  only after the cleanup; no edit undone; the status describes the specification
  it is stored over; the credentials stay what the data was initialised with;
  children and status converge; deletions end;
* user controller: a password changes only when due; `Ready` means every listed
  instance has the password; instances that can be reached are sent the password of
  the Secret until they have it; deletion ends and leaves no role behind;
* backup: one Job per incarnation, `Completed` only for a dump of this incarnation
  from the instance the status names, or from the pod the cluster gives for its primary
  when no instance was chosen; it starts once its cluster is there; its Job
  disappears with it;
* restore: one Job per incarnation and instance; the completion of the Jobs is
  reported in the end and stays reported; the Jobs disappear with the restore,
  also those that no status names.

`PROJECT.json` lists the hazards of the code line by line, each with the
properties that cover it or the reason why none does.

## The modules

| Module | Models |
|---|---|
| `Copies` | A copy of an API object and whether it is *fresh*: whether its resource version is still the one on the server. A write through a copy is accepted exactly if the copy is fresh. Writing an object as it is changes no resource version, as on the server. |
| `ClusterController` | The cluster controller, `CreateOrUpdate`, API server, caches, garbage collector (background and foreground), StatefulSet controller and volumes. |
| `CredentialLifecycle` | What the cluster controller promises about the superuser password of one cluster name, in 45 lines: issued once, unchanged while the cluster is in use, revoked only after deletion was asked for, gone before the cluster is. |
| `UserController` | The user controller, its Secret and the Secret people provide, the cluster status it selects from, the role on each database instance. |
| `RoleLifecycle` | What the user controller promises about a role and its generated password: replaced only when due, the recorded time of change never back, roles set up only under the finalizer and never dropped from under a user in use. |
| `Jobs` | A Kubernetes Job as far as its owner, its target and its counters go, what the Job controller makes of it, and the phase both controllers derive from it. |
| `JobLifecycle` | What the backup and the restore controller promise about the Jobs they create under fixed names: one per incarnation and slot, only while the incarnation exists; withdrawn only after deletion was asked for; an incarnation that got one goes only after that. |
| `BackupController` | The backup controller, its Job, the cluster it reads and the caches of all three. |
| `RestoreController` | The restore controller, one Job per instance, the cluster and the backup it reads and the caches of all of them. |
| `MCClusterController`, `MCUserController`, `MCBackupController`, `MCRestoreController` | The small instances: specifications, selections, clusters; symmetry. |
| `ClusterControllerProofs`, `ClusterSafetyProofs`, `ClusterStepsProofs` | The theorems about `ClusterController`. |
| `UserProofs` | The theorems about `UserController`. |
| `BackupProofs`, `RestoreProofs` | Types and safety of the other two controllers. |
| `BackupStepsProofs`, `RestoreStepsProofs` | Their steps: progress, the refinements, and that nothing is forgotten. |

Each controller module extends `Copies`, and those of backup and restore extend `Jobs`,
so that all of them share the same API server: a read is a read of a cache, a
write needs a fresh copy.

### ClusterController

`cluster`, `child` and `volumes` are on the server and in the cluster; `ccache`
and `kcache` are the informer caches, per object, so that the caches of different
objects lag independently; `queued` is the work queue and its timers; `pc`,
`idx`, `me` are a round in progress: which call comes next, which instance the
loop is at, and the copy it works from. One action is one API call together
with the computation before it: `Start` is the `Get` at line 48, `AddFinalizer`
the `Update` at line 61, `DefaultInstance` the one at line 86, `reconcileConfigMap`
to `reconcileMonitoring` a `CreateOrUpdate` each (its `Get`, from the cache, and
its write are one action, see *Abstractions*), `updateStatus` the computation and
the write of the status, `deleteStatefulSet` to `removeFinalizer` the calls of
`handleDeletion`. `Abort` ends a round between any two calls: a call that
fails, a timeout, a restart. A panic is recovered by the controller runtime and
has the effect of an error, so that a storage size that `MustParse` rejects and a
quantity that `ParseQuantity` rejects are the same disjunct.

`CreateOrUpdate` creates when the cache shows nothing, and then needs the name to
be free on the server; otherwise it updates, needs its cached copy to be fresh,
keeps the `Data` of a Secret or ConfigMap, and for a StatefulSet is refused when
the volume claim templates would change. `PodReady` brings up a replica: on a
new volume PostgreSQL initialises a data directory with the password the Secret
has then; on a used one it keeps what is there.

### UserController

Same conventions. `GetCluster` writes the status `Failed` and selects the
instances, `reconcilePasswordSecret` draws and stores a password,
`getPasswordFromSecret` reads it back through the cache, `ConfigureInstance` is one
iteration of the loop, `FinalStatus` the last status
write, `DropFromInstances` and `RemoveFinalizer` are `handleDeletion`. `local` holds
the variables of `Reconcile`. `clock` counts elapsed rotation intervals.

What an instance that can be reached makes of the statements it is sent is not the
operator's doing, and is the constant `Outcomes`: all are executed (`"done"`), the one
that sets the password is refused (`"rejected"`), or a later one fails, so that the
role has the password and the round an error (`"partly"`). Every iteration draws one of them,
so that statements may fail always, never or now and then, and no number of failures
is a bound. PostgreSQL itself only ever gives `"rejected"`: `client.go` sends
`ALTER USER ... PASSWORD $1` and `CREATE USER ... PASSWORD $1`, and utility statements take no parameters.
In the real program no role gets its password, which is the finding of `UserConfigured`.
What the controller does itself is stated so that it does not depend on the server: `PasswordsAreSent`
says that the password of the Secret is *sent* to every selected instance that can be
reached, again and again; the safety properties and theorems hold for every server.

### BackupController

`backup`, `cluster` and `job` are on the server, `bcache`, `ccache` and `jcache` in the
caches; `started` and `done` are history: the incarnations a Job was created for,
and the dumps that were completed. `dispatch` is what `Reconcile` decides from its two
reads (finalizer, deletion, missing cluster, target instance, volume claim);
`targetHost` is the host the Job dumps from: the Service of the chosen instance, or, when
the cluster lists no instances and none is chosen, whatever pod `status.currentPrimary`
names then. That is the pod `<cluster>-<instance>-0` of an instance of any name, the cluster
controller may have written it long ago, and it may be empty. `targetInstance` is what the status says of it: the
name of the chosen instance, and `"primary"` when none was, which is also the name of
an instance (the default one). So `"primary"` in a status has two meanings, and
`CompletedMeansBackedUp` says so: any other name stands for a dump from the Service of that instance,
`"primary"` for one from the Service of the instance called so or from the pod that the
cluster gave for its primary. Whether a dump from an empty or an unknown host succeeds is left
open: the Job may complete or fail.
`CreateOrUpdate` is the Job that `reconcileBackup` sends; `updateBackupStatus` the cached
read of the Job and the status write; `DeleteJob` and `RemoveFinalizer` are
`handleDeletion`. `CallFails` is a call of `reconcileBackup` that fails while the
report of the failure succeeds; what `updateBackupStatus` has put into the copy then
is stored by `ReportError`. `RemoveJob` is somebody who deletes the Job.

The server keeps the pod template of a Job immutable and adds labels and defaults
to it, and the object that `CreateOrUpdate` sends is the one built anew, with what
the update leaves out: an update of a Job that exists is refused. Only the round that creates
the Job reaches the status (`BackupReported`).

### RestoreController

`restore`, `cluster`, `backup` and `jobs` (per instance) are on the server, with a cache
each; `started` and `restored` are history. `Start` makes the decisions of lines 38 to
97: deletion, finalizer, a final `Completed`, missing cluster or backup, selection.
`initializeStatuses` compares the number of statuses with that of targets and stores
new ones; `ensureJob` looks up the Job *by the status* and creates it *for the target*
at the same position; `setPhase` changes the phase in memory only; `updateJobStatus`
derives it from the cached Job; `updateRestoreStatus` sums up and stores everything;
`handleError` stores `Failed` with the statuses in memory and returns the error;
`deleteJobs` and `RemoveFinalizer` are `handleDeletion`. `createRestoreJob` says for which
backups a Job can be built: not for one whose type was left to the backup
controller, which takes it for `full` in memory only.

## The runs

`CHECK_DEADLOCK FALSE` is set everywhere: when the resource is gone, the bounds
are used up and the caches are fresh, the system really stops.

| Run | Shows | States |
|---|---|---|
| `ClusterEdits` | `NoLostEdit`, `StatusDescribesSpec`, `ReleasedClean`, `NoOrphanCreation` while a legacy and a two-instance specification replace each other at every moment | 2.5 M |
| `ClusterReborn` | `IInv`, `TypeOK`, `CredentialsOpenData`, `NothingInherited` and the refinement `CredentialsHaveLifecycle` over two incarnations, two passwords and a fault (a failed call, a crashed pod or a StatefulSet that somebody deletes) | 1.4 M |
| `ClusterLiveness` | `NothingForgotten`, `StatusFollowsChildren`, `Converges`, `DeletionCompletes` with a legacy specification, one scaled to zero and one that cannot be reconciled, one edit, one fault; the last of the three is deleted with background and with foreground propagation | 0.3 M |
| `UserRounds` | `TypeOK`, `IInv`, `NothingForgotten`, the refinement `RolesHaveLifecycle`, `RotatesWhenDue`, `ReadyIsConfigured`, `PasswordsAreSent`, `UserDeletionCompletes` for a generated, rotated password on all instances and a given one on those with a label, with two of an edit (of the user, of the Secret people provide, of the cluster, which comes and goes), a fault and an elapsed interval, and instances that execute, refuse or partly execute what they are sent | 0.7 M |
| `BackupRounds` | `TypeOK`, `IInv`, `NothingForgotten`, `CompletedMeansBackedUp`, `BackedUpOnce`, the refinement `JobHasLifecycle`, `BackupStarts`, `BackupDeletionCompletes` over two incarnations, two selections, a cluster that does not list its default instance yet, and one event | 0.5 M |
| `RestoreRounds` | `TypeOK`, `IInv`, `NothingForgotten`, `RestoredOnce`, `CompletedIsFinal`, `ProgressIsKept`, the refinement `JobsHaveLifecycle`, `CompletionIsReported`, `RestoreDeletionCompletes` over two incarnations, two selections, a cluster that grows, backups with and without a type, and one event | 0.3 M |
| `ClusterRunning` | *violation*: "All instances are ready" while one has none (line 679) | |
| `UserKept` | *violation*: a password is replaced although its Secret exists and there is no rotation policy (comment at line 347) | |
| `UserDropped` | *violation*: a role is left behind although cluster and instances are there (comment at line 393); the instance executes what it is sent, otherwise there is no role to leave | |
| `UserConfigured` | *violation*: on a server that refuses bind parameters, as PostgreSQL does, no role ever gets its password (comment at line 96 of `client.go`) | |
| `BackupReported` | *violation*: a backup whose Job has completed is never reported `Completed` (comment at line 209) | |
| `RestoreCompleted` | *violation*: "All instances restored successfully" for a restore without a Job (line 448) | |

Every property of a passing run has a mutant: a definition of the model with a
plausible bug, kept beside the original and marked *Mutant*, under which TLC finds
the property violated.

Two disagreements need no run, because every execution shows them. `README.md:18`
promises that PostgreSQL parameters can be customised; the `Data` of the ConfigMap
is written once and never follows an edit (`desired` in `ClusterController`, which
keeps it). And line 65 of the user controller reports "Failed to get cluster" at the
beginning of every round, whether the cluster could be read or not (`GetCluster`).

### Bounds

`MaxUid` incarnations, `MaxEdits` edits of specifications, provided Secrets or
cluster status, `MaxFaults` faults (aborted rounds, crashed pods, instances that become unreachable,
deleted children), `MaxClock` rotation intervals.
For backup and restore `MaxEvents` bounds all of these together: edits, changes of cluster
or backup, failed calls, deleted Jobs, and for a restore also its second creation.
The actions that use the bounds up are those of users and faults; the
controllers, caches and Kubernetes are not bounded. Two incarnations show
what one inherits from another; one edit falls between any two calls of a round;
two instances are needed for sums and loops, and one edit switches between no
instance and two. Two passwords tell apart which one is used where, and are
symmetric. Liveness is checked without symmetry.

Two runs narrow what the world does further, to keep liveness within reach; no step
of a controller or of Kubernetes is excluded. In `UserRounds` a behaviour has at most
two of an edit, a fault and an elapsed interval (`MaxEvents`); statements that fail are
not counted. In `ClusterLiveness` only the specification that cannot be reconciled is
deleted in the foreground, and it is not exchanged for another (`ForegroundWhenBroken`):
that is where the deletion, the forbidden finalizer and the panic meet. Deletion in the foreground
of a cluster that can be reconciled is not checked for liveness; the theorems cover its safety.

One fault or event at a time is a limit of these runs: two failures in different
rounds, or an edit of a reborn restore, are beyond them. For safety the
theorems below lift it: they hold for every value of every bound. So they do for
`UserRounds`, which has one incarnation only and a cluster that lists two instances or
does not exist. In `RestoreRounds`
a restore selects one instance at a time; that rounds over several instances
create no Job twice is part of the theorem `RestoresOnce`.

### Fairness

`Fairness` is weak fairness of the worker (`Reconcile`: controller-runtime runs a
queued key, backoff delays but does not drop it), of the watches (`Sync*`:
informers reconnect and relist), of the garbage collector (`Collect`,
`FinishForeground`, `CollectSecret`) and of the StatefulSet controller (`PodReady`,
`ScaleDown`). For backups `Resync` is fair as well: controller-runtime's informers
resynchronise every ten hours by default and queue what they have cached, and nothing
else wakes a backup that waits for its cluster. Restores need no such assumption,
because a restore that cannot go on returns an error. A Job may run for ever:
`RunJob` has no fairness, and `CompletionIsReported` speaks of restores whose Jobs have
completed. Users, faults, the clock and the return of an unreachable instance have none.
`PasswordsAreSent` speaks of behaviours in which the instance is in the end up, and
the user, its Secret and its cluster are there and select it; it does not assume that they come back, and
nothing of what the server does with the statements.

## The proofs

What the runs check for small instances, the theorems show for all: any sets
of names, passwords, specifications, selectors, clusters and backups, and any
bounds.

### ClusterController

`ClusterController` has constants for everything the runs fix: names, quantities,
parameters, users, passwords, the set of specifications, who may delete children,
and all bounds. Assumed is what the module states as named `ASSUME`s: the
default quantities parse and `""` does not, `"primary"` is a name, specifications
have their type, `Nil` is not an object, and third parties may delete any child
but the Secret. TLC evaluates the assumptions in every run.

* `TypeCorrect`: `Spec => [](TypeOK /\ StepInv)`.
* `Safety`: `Spec => []IInv`, and from it `CredentialsSafe` and `NoInheritance`.
* `CreatesNoOrphan`, `KeepsEdits`, `ReleasesClean`, `ReportsCurrentSpec`: the
  action properties of `ClusterEdits`.
* `ImplementsLifecycle`: `ClusterController` implements `CredentialLifecycle`.
* `FollowsSpec` (`StatusFollowsChildren`): a status is stored only over a specification
  that the round has brought its Services and StatefulSets up to.
* `ForgetsNothing` (`NothingForgotten`, see *Nothing is forgotten*).

`NothingInherited` and `CredentialsOpenData` are not inductive: a round may work
from a copy of a cluster that is being deleted or is gone. `IInv` says why that
does no harm, in named parts:

* `FreshInv`: a fresh copy equals the object. So a write through a fresh copy
  may be reasoned about as a write through the object itself.
* `UidInv`: uids in copies and data directories have been given out already, so a
  new cluster meets none of its own.
* `CopyInv`: what stale copies still tell. Deletion is never withdrawn. A cached
  copy with the finalizer and without deletion means that this very incarnation
  still exists and still has the finalizer, because only a reconciliation that
  saw the deletion takes it off. A cluster that Reconcile has touched is one that the cache has seen,
  so that no round begins with a copy of an earlier one.
* `StepInv`: where a round stands, as far as its own copy goes.
* `ReconcileInv`: a round that creates children works for the incarnation that
  exists and has the finalizer. A round that deletes by name cannot meet the
  children of a later incarnation: while it runs no later incarnation can get the
  finalizer, since the only worker is busy.
* `DeletedInv`: what `handleDeletion` has deleted stays deleted until it is done.

`FollowsSpec` is a statement about a whole round: between the write of a child and
that of the status lie any number of calls, during which the specification may be
edited, the cluster deleted and created again, and children collected. `SentInv`
carries what was sent through the loop: a Service or StatefulSet of this round that
still exists belongs to the incarnation of the round's copy and says what that copy
says; of several instances of one name the `latest` sent counts. The last write needs
a fresh copy, and then copy and cluster are the same. `FinalizerInv`, that a
deletion works on a copy that has the finalizer, is what `ForgetsNothing` needs besides
`IInv`: giving up the finalizer then changes the cluster, so that an event comes.

The proof goes action by action. `ClusterControllerProofs` shows types and
`StepInv`; `ClusterSafetyProofs` groups the actions by what they disturb
(one that writes a child, one that writes the cluster, one that moves a round on)
and shows each conjunct of `IInv` for each; `ClusterStepsProofs` derives the action
properties and the refinement from `IInv`.

### UserController

`TypeCorrect`, `Safety`, `RotatesOnlyWhenDue` (`RotatesWhenDue`), `ReadyMeansConfigured`
(`ReadyIsConfigured`), `ForgetsNothing` and `ImplementsRoleLifecycle`. Neither rotation
nor readiness is a matter of one step: a
password is drawn several calls after the copy was read that says it is due, and
the status turns Ready after a loop over any number of instances. `IInv` connects them:

* `FreshInv`: a fresh copy equals the object, except for the time of a change
  that is not stored yet.
* `RoundInv`: from the first status write on, which needs a fresh copy with the
  finalizer, the user stays on the server, whatever people do, because only
  this worker takes the finalizer off. And since only this worker writes the status,
  the time of the last change that the round knows is still the stored one, also
  when an edit has made its copy stale.
* `TimeInv`: no change is recorded in the future, in any copy.
* `OrderInv`: no copy shows an incarnation to come or a deletion that was not asked for,
  and a user that has its finalizer, or that a round works on, is the one the cache
  shows. A round that grants or drops a role, or gives up the finalizer, therefore meets
  the user in the phase `RoleLifecycle` asks for, although it decided by a copy.
* `ResultsInv`: the targets are those the copy selects, results and targets agree
  position by position, and as long as no instance failed all of those visited
  have the same password.

Assumed: `SelectionAssumption`, that selections select names (the prover cannot unfold
`SelectSeq`), and that `Nil` is no object. TLC evaluates both in the runs.

### BackupController and RestoreController

`TypeCorrect`, `Safety`, `ImplementsJobLifecycle` and `ForgetsNothing` for both;
`CompletedIsBackedUp` and `BacksUpOnce`; `RestoresOnce`, `CompletedStays` and
`KeepsProgress`. That no incarnation gets a second Job is not inductive: a round
that creates one may work from a copy of the past, and the Job it cannot see may
have been deleted by a deletion, a collector, or a third party. The argument, in the
named parts of `IInv`:

* `FreshInv`: fresh copies equal their objects, except for phases in memory.
* `OrderInv`: the round's copy is not newer than the cache, the cache not newer
  than the server; finalizer and deletion are never taken back in between.
* `CopyInv`: a copy with the finalizer and without deletion *proves* that its
  incarnation exists: only the worker releases it, and only after it saw the deletion.
* `OwnerInv`: the Job that a deletion removes by name is not one of a later
  incarnation, since that one has no Job before the cache has shown it.
* `over`, `StartedInv`: for each incarnation a Job was created for, either that Job
  exists, and the server refuses another of its name, or no round will ever
  create one for it again, because every copy shows it gone or deleted.
* `ReportInv`, `DoneInv` (backup): a round that reports looks at its own Job, because
  only the round that created it gets there, and that Job dumps from the host this
  round has chosen; every copy that says `Completed` says so after a dump from a host
  that its status stands for.
* `ProgressInv` (restore): a round stores the statuses whole and from memory. They may be
  stored only if the copy is fresh, and a fresh copy in a round under way keeps every
  instance that is `Completed` on the server, because the loop skips those and the
  statuses are made anew only for another number of targets.

`ImplementsJobLifecycle` follows from the same parts: `over` and `StartedInv` say that a
Job is launched only for an incarnation that has none behind it, `CopyInv` that this
incarnation exists, and `OwnerInv` that a Job that is deleted by name is not one of a later incarnation.

### Nothing is forgotten

Liveness is beyond the prover, but what it rests on is not: a resource that nobody
is going to look at again is in a state where it may stay. `NothingForgotten` says so as an
invariant of each controller: no round is under way, no key is queued and no event
outstanding only if there is no cluster or user at all, if a backup is `Failed` (its cluster is
missing, which no watch tells), or if a restore is `Completed`. It covers every early return,
conflict, failed call and recovered panic. The proofs go over the ends of a round: each either
queues the key or has changed the object, so that the cache is behind.

### What is not proved

Not provable here and only model-checked: the liveness properties `Converges`,
`DeletionCompletes`, `PasswordsAreSent`, `UserDeletionCompletes`, `BackupStarts`,
`BackupDeletionCompletes`, `CompletionIsReported` and `RestoreDeletionCompletes`. They
depend on fairness, which is beyond the prover.

## Abstractions and assumptions

* A cache that catches up shows the current object; intermediate versions are
  skipped. A cache that stays on an old version for longer is covered, since
  `Sync*` may be delayed without limit; a cache that shows an intermediate version
  is not told from one that is stale.
* The cached read of `CreateOrUpdate` and the write it leads to are one action. Nothing
  happens in between that a delay of the cache does not produce as well.
  The same holds for the user controller's read of its cluster, which is taken
  with the first read of the round.
* The reads at the beginning of a round of backup or restore (the resource, its cluster,
  its backup) are taken together. Each cache lags on its own, so that every combination of versions is met.
* Job: the counters are abstracted to the state the controllers derive from them,
  in the order in which they test them; a Job that has failed pods and an active one
  counts as failed, as in the code. Pods that outlive a deleted Job are not modelled.
  Start and completion times of status writes are left out.
* Somebody who deletes the Job of a backup or restore that goes on asks for another
  one: `BackedUpOnce` and `RestoredOnce` forget it. Deletion of backups and restores is with background
  propagation.
* Nobody takes the finalizer off by hand, and third parties do not delete the
  credentials Secret. If somebody does, a new random password is stored that no
  data directory knows: `CredentialsOpenData` is then lost, and the code has no
  protection against it.
* One manager is active. `config/manager/manager.yaml` passes `--leader-elect`,
  but `config/default/manager_auth_proxy_patch.yaml` replaces the arguments and
  drops it; with one replica that still leaves one manager except during a rollout.
* The controller runtime recovers panics (its default since v0.19).
* Users are deleted with background propagation.
* What a PostgreSQL server makes of a statement is open (`Outcomes`, see
  *UserController*); `DROP USER` is executed on an instance that can be reached. A connection
  with `sslmode=require` to a server without TLS fails, which is an unreachable instance.
* The server refuses a restore Job whose volume claim has an empty name
  (`storage.volumeName`); the restore then fails for ever, as with a backup without a type. This
  is not modelled.
* Of the data, only what a property tells apart is modelled: labels, ports,
  images, probes, init scripts and most of the pod template are left out.

## Not modelled

The manager's start-up, generated deep copies, manifests and scripts, which have no
behaviour of their own; grant, revoke and statistics functions, the backup
PVC helper, `ListBackups` and `DeleteBackup` of the backup manager, which have no
caller; the command lines of the Jobs, the pods that run them and the data they
move; two resources whose names collide when a Job name is cut to 63 characters;
two managers at once.

The controllers are checked one at a time. What they share is the status and
specification of the cluster and the Secret; each module takes what the other
controllers write as an input that changes at any time (`ChangeCluster`, `ChangeBackup`),
which covers every interleaving with them.

## Plan

Done: the four controllers, each with its runs and with proofs of its types and its
safety; abstract specifications of the superuser password, of a role's password and of
Jobs, with their refinements proved. Every safety property that a run checks has a theorem.

Left, in this order:

1. A second manager without leader election, for each controller: which of the
   invariants above survive it.
2. Two backups, or a backup and a restore, whose Job names collide.
