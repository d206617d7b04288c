-------------------------- MODULE RestoreStepsProofs -------------------------
(***************************************************************************)
(* What the steps of RestoreController do to the life of a restore, of its *)
(* Jobs and of its progress: that they implement JobLifecycle, that none   *)
(* takes back what was restored, and that none leaves a restore behind     *)
(* that nothing will look at again.                                        *)
(***************************************************************************)
EXTENDS RestoreProofs

-----------------------------------------------------------------------------
(* What becomes of the restore.                                            *)

(* Every incarnation is a number, and so is the owner of every Job.        *)
LEMMA Numbers ==
    ASSUME IInv
    PROVE  /\ uids \in Nat
           /\ restore # Nil => /\ restore \in Restore /\ restore.uid \in Nat
                               /\ restore.del \in BOOLEAN
           /\ rcache.obj # Nil => rcache.obj \in Restore
           /\ me.obj # Nil => me.obj \in Restore /\ me.obj.uid \in Nat
           /\ \A n \in Names : jobs[n] # Nil => jobs[n] \in Job /\ jobs[n].owner \in Nat
<1>1. /\ restore # Nil => restore \in Restore
      /\ rcache.obj # Nil => rcache.obj \in Restore
      /\ me.obj # Nil => me.obj \in Restore
      /\ \A n \in Names : jobs[n] # Nil => jobs[n] \in Job
  BY Objects DEF IInv, TypeOK, CopyOf
<1>. QED
  BY <1>1 DEF IInv, TypeOK, Restore, Job, JobOf, Uids

\* A step that writes a restore that exists from what a round knows of it.
Stored ==
    /\ restore # Nil /\ restore' \in Restore
    /\ restore'.uid = restore.uid /\ restore'.del = restore.del
    /\ keeps(restore'.status, restore.status)

(* Reconcile writes the restore that its fresh copy shows.                 *)
LEMMA Stores ==
    ASSUME IInv, AddFinalizer \/ initializeStatuses \/ updateRestoreStatus \/ handleError
    PROVE  restore' = restore \/ Stored
<1>0. me.obj \in Restore /\ me.obj.status \in Status /\ me.obj.status.instances \in InstanceStatuses
  BY MeType DEF IInv, AddFinalizer, initializeStatuses, updateRestoreStatus, handleError
<1>1. me.fresh => /\ restore # Nil /\ restore \in Restore
                  /\ me.obj.uid = restore.uid /\ me.obj.del = restore.del
  BY Numbers DEF IInv, FreshInv
<1>2. CASE AddFinalizer /\ me.fresh
  <2>1. restore' = [me.obj EXCEPT !.fin = TRUE] /\ me.obj.status = restore.status
    BY <1>2 DEF AddFinalizer, PutRestore, IInv, FreshInv
  <2>2. restore' \in Restore
    BY <1>0, <2>1, StatusType
  <2>3. /\ restore'.uid = me.obj.uid /\ restore'.del = me.obj.del
        /\ restore'.status = me.obj.status
    BY <1>0, <2>1 DEF Restore
  <2>. QED
    BY <1>1, <1>2, <2>1, <2>2, <2>3 DEF Stored, keeps
<1>3. CASE /\ initializeStatuses /\ me.fresh
           /\ Len(me.obj.status.instances) # Len(local.targets)
  <2> DEFINE new == pendingStatuses(local.targets)
  <2>1. restore' = [me.obj EXCEPT !.status.instances = new]
    BY <1>3 DEF initializeStatuses, PutRestore
  <2>2. new \in InstanceStatuses /\ Len(new) = Len(local.targets)
    BY PendingType DEF IInv, TypeOK, Local
  <2> HIDE DEF new
  <2>3. restore' \in Restore
    BY <1>0, <2>1, <2>2, StatusType
  <2>4. /\ restore'.uid = me.obj.uid /\ restore'.del = me.obj.del
        /\ restore'.status.instances = new
    BY <1>0, <2>1 DEF Restore, Status
  <2>5. me.obj.status = restore.status
    BY <1>3 DEF initializeStatuses, IInv, ProgressInv
  <2>. QED
    BY <1>1, <1>3, <2>2, <2>3, <2>4, <2>5 DEF Stored, keeps
<1>4. CASE (updateRestoreStatus \/ handleError) /\ me.fresh
  <2>1. PICK p \in Phases : restore' = [me.obj EXCEPT !.status.phase = p]
    <3>1. overall(me.obj.status.instances) \in Phases
      BY <1>0, OverallType
    <3>. QED
      BY <1>4, <3>1 DEF updateRestoreStatus, handleError, PutRestore, Phases
  <2>2. restore' \in Restore
    BY <1>0, <2>1, StatusType
  <2>3. /\ restore'.uid = me.obj.uid /\ restore'.del = me.obj.del
        /\ restore'.status.instances = me.obj.status.instances
    BY <1>0, <2>1 DEF Restore, Status
  <2>4. keeps(me.obj.status, restore.status)
    BY <1>4 DEF updateRestoreStatus, handleError, IInv, ProgressInv, restoring, creating
  <2>. QED
    BY <1>1, <1>4, <2>2, <2>3, <2>4 DEF Stored, keeps
<1>. QED
  BY <1>2, <1>3, <1>4
  DEF AddFinalizer, initializeStatuses, updateRestoreStatus, handleError, own

(* People leave the status alone.                                          *)
LEMMA Edited ==
    ASSUME IInv, NEW s \in Selectors, EditRestore(s)
    PROVE  Stored
<1>1. restore # Nil /\ restore' = [restore EXCEPT !.sel = s] /\ restore \in Restore
  BY Numbers DEF EditRestore, PutRestoreOutside, PutRestore
<1>2. restore' \in Restore
  BY <1>1, StatusType
<1>3. /\ restore'.uid = restore.uid /\ restore'.del = restore.del
      /\ restore'.status = restore.status
  BY <1>1 DEF Restore
<1>. QED
  BY <1>1, <1>2, <1>3 DEF Stored, keeps

(* A deletion is noted, or carried out at once for want of a finalizer.    *)
LEMMA Deleted ==
    ASSUME IInv, DeleteRestore
    PROVE  /\ restore # Nil /\ ~restore.del
           /\ restore.fin => /\ restore' \in Restore /\ restore'.del
                             /\ restore'.uid = restore.uid
                             /\ restore'.status = restore.status
           /\ ~restore.fin => restore' = Nil
<1>1. /\ restore # Nil /\ ~restore.del /\ restore \in Restore
      /\ restore' = IF restore.fin THEN [restore EXCEPT !.del = TRUE] ELSE Nil
  BY Numbers DEF DeleteRestore, PutRestoreOutside, PutRestore
<1>2. restore.fin => restore' \in Restore
  BY <1>1, StatusType
<1>. QED
  BY <1>1, <1>2 DEF Restore

(* Nobody else writes the restore.                                         *)
LEMMA Untouched ==
    ASSUME \/ Start \/ ensureJob \/ updateJobStatus \/ deleteJobs \/ Abort \/ CallFails
           \/ \E n \in Names : RemoveJob(n) \/ SyncJob(n) \/ RunJob(n) \/ CollectJob(n)
           \/ \E c \in Clusters \cup {Nil} : ChangeCluster(c)
           \/ \E b \in Backups \cup {Nil} : ChangeBackup(b)
           \/ SyncRestore \/ SyncCluster \/ SyncBackup
           \/ UNCHANGED vars
    PROVE  restore' = restore
BY DEF Start, ensureJob, updateJobStatus, deleteJobs, Abort, CallFails, RemoveJob, SyncJob,
   RunJob, CollectJob, ChangeCluster, ChangeBackup, SyncRestore, SyncCluster, SyncBackup,
   vars, own

-----------------------------------------------------------------------------
(* Progress.                                                               *)

(* No step takes back what the status of a restore says is restored.       *)
LEMMA ProgressStep ==
    ASSUME IInv, [Next]_vars, restore # Nil, restore' # Nil, restore'.uid = restore.uid
    PROVE  keeps(restore'.status, restore.status)
<1>1. CASE restore' = restore
  BY <1>1 DEF keeps
<1>2. CASE AddFinalizer \/ initializeStatuses \/ updateRestoreStatus \/ handleError
  BY <1>1, <1>2, Stores DEF Stored
<1>3. CASE RemoveFinalizer
  BY <1>1, <1>3 DEF RemoveFinalizer, PutRestore, own
<1>4. CASE \E s \in Selectors : CreateRestore(s)
  BY <1>4 DEF CreateRestore
<1>5. CASE \E s \in Selectors : EditRestore(s)
  BY <1>5, Edited DEF Stored
<1>6. CASE DeleteRestore
  BY <1>6, Deleted DEF keeps
<1>. QED
  BY <1>1, <1>2, <1>3, <1>4, <1>5, <1>6, Untouched DEF Next, Reconcile, People, World

(* An instance that is reported restored stays so through rounds that      *)
(* fail, conflict or run from old copies, unless a selection of another    *)
(* size starts the statuses anew.                                          *)
THEOREM KeepsProgress == Spec => ProgressIsKept
<1> DEFINE Keeps ==
        restore # Nil /\ restore' # Nil /\ restore'.uid = restore.uid =>
            keeps(restore'.status, restore.status)
<1>1. IInv /\ [Next]_vars => Keeps
  BY ProgressStep
<1>. QED
  BY <1>1, Safety, PTL DEF ProgressIsKept, Spec

-----------------------------------------------------------------------------
(* Refinement of JobLifecycle.                                             *)

(* The abstract variables when nothing is there yet.                       *)
LEMMA LifecycleInit == Init => Lifecycle!Init
BY DEF Init, Lifecycle!Init

(* A Job that is replaced is replaced in the function of the Jobs.         *)
LEMMA JobsExcept ==
    ASSUME IInv, NEW n \in Names, NEW o, PutJob(n, o)
    PROVE  jobs' = [jobs EXCEPT ![n] = o] /\ (o = jobs[n] => jobs' = jobs)
<1>1. jobs' = [jobs EXCEPT ![n] = o]
  BY DEF PutJob
<1>2. jobs \in [Names -> Job \cup {Nil}]
  BY DEF IInv, TypeOK
<1>. QED
  BY <1>1, <1>2

(* What neither creates nor deletes the restore and leaves its Jobs alone. *)
LEMMA LifecycleStutters ==
    ASSUME (restore' = Nil) = (restore = Nil),
           restore # Nil => restore'.del = restore.del,
           UNCHANGED <<uids, jobs, started>>
    PROVE  UNCHANGED Lifecycle!vars
BY DEF Lifecycle!vars

(* A Job is launched for the incarnation that exists, as long as its       *)
(* instance had none.                                                      *)
LEMMA LifecycleLaunches ==
    ASSUME IInv, ensureJob
    PROVE  [Lifecycle!Next]_(Lifecycle!vars)
<1>0. /\ UNCHANGED <<restore, uids>> /\ me.obj # Nil /\ me.obj.fin /\ ~me.obj.del
      /\ local.targets[idx] \in Names
  BY AtIndex DEF ensureJob, own, bounds, IInv, StepInv, restoring, creating
<1>1. CASE UNCHANGED <<jobs, started>>
  BY <1>0, <1>1, LifecycleStutters
<1>2. CASE \E n \in Names : jobs'[n] # jobs[n]
  <2>1. PICK n \in Names : jobs'[n] # jobs[n]
    BY <1>2
  <2>2. /\ jobs[n] = Nil /\ PutJob(n, NewJob(me.obj.uid, n))
        /\ started' = [started EXCEPT ![n] = @ \cup {me.obj.uid}]
        /\ me.obj.uid \notin started[n]
    BY <2>1, Created
  <2>3. restore # Nil /\ me.obj.uid = uids
    BY <1>0 DEF IInv, CopyInv, proves, OrderInv
  <2>4. jobs' = [jobs EXCEPT ![n] = NewJob(uids, n)]
    BY <2>2, <2>3, JobsExcept
  <2>5. Lifecycle!Launch(n)
    BY <1>0, <2>2, <2>3, <2>4 DEF Lifecycle!Launch, NewJob, Lifecycle!NewJob
  <2>. QED
    BY <2>5 DEF Lifecycle!Next
<1>3. CASE ~\E n \in Names : jobs'[n] # jobs[n]
  <2> DEFINE status == me.obj.status.instances[idx]
  <2> DEFINE t == local.targets[idx]
  <2>1. ~(/\ status.phase # "Completed" /\ jcache[status.name].obj = Nil
          /\ createRestoreJob(local.backup) /\ jobs[t] = Nil)
    <3>1. SUFFICES ASSUME /\ status.phase # "Completed" /\ jcache[status.name].obj = Nil
                          /\ createRestoreJob(local.backup) /\ jobs[t] = Nil
                   PROVE  FALSE
      OBVIOUS
    <3>2. PutJob(t, NewJob(me.obj.uid, t))
      BY <3>1 DEF ensureJob
    <3>3. NewJob(me.obj.uid, t) \in Job
      <4>1. me.obj.uid \in Uids
        BY <1>0, Numbers DEF Restore
      <4>. QED
        BY <1>0, <4>1 DEF NewJob, Job, JobOf, JobStates
    <3>4. jobs'[t] = NewJob(me.obj.uid, t)
      BY <1>0, <3>2, <3>3, PutJobType DEF IInv
    <3>. QED
      BY <1>0, <1>3, <3>1, <3>3, <3>4, Objects
  <2>2. UNCHANGED <<jobs, started>>
    BY <2>1 DEF ensureJob, work, Fail
  <2>. QED
    BY <1>1, <2>2
<1>. QED
  BY <1>2, <1>3

(* A Job that Reconcile deletes belongs to an incarnation that is being    *)
(* deleted or is gone.                                                     *)
LEMMA LifecycleDeletes ==
    ASSUME IInv, deleteJobs \/ RemoveFinalizer
    PROVE  [Lifecycle!Next]_(Lifecycle!vars)
<1>0. pc \in deleting /\ me.obj # Nil /\ me.obj.del /\ UNCHANGED <<started, uids>>
  BY DEF IInv, StepInv, deleting, deleteJobs, RemoveFinalizer, history, bounds
<1>1. CASE RemoveFinalizer /\ me.fresh
  <2>1. restore # Nil /\ restore.del /\ restore' = Nil /\ jobs' = jobs
    BY <1>0, <1>1 DEF IInv, FreshInv, RemoveFinalizer, PutRestore, work
  <2>2. Lifecycle!Disappear
    BY <1>0, <2>1 DEF Lifecycle!Disappear
  <2>. QED
    BY <2>2 DEF Lifecycle!Next
<1>2. CASE restore' = restore /\ jobs' = jobs
  BY <1>0, <1>2, LifecycleStutters
<1>3. CASE deleteJobs /\ ~(idx > Len(me.obj.status.instances))
  <2> DEFINE n == me.obj.status.instances[idx].name
  <2>1. n \in Names /\ PutJob(n, Nil) /\ restore' = restore
    BY <1>3, AtDeletion DEF deleteJobs, own, IInv
  <2> HIDE DEF n
  <2>2. CASE jobs[n] = Nil
    BY <1>2, <2>1, <2>2, JobsExcept
  <2>3. CASE jobs[n] # Nil
    <3>1. jobs' = [jobs EXCEPT ![n] = Nil]
      BY <2>1, JobsExcept
    <3>2. jobs[n].owner = uids /\ restore # Nil => restore.del
      BY <1>0, <2>1, <2>3, Numbers DEF IInv, OwnerInv, OrderInv, older
    <3>3. Lifecycle!Withdraw(n)
      BY <1>0, <2>1, <2>3, <3>1, <3>2 DEF Lifecycle!Withdraw
    <3>. QED
      BY <2>1, <3>3 DEF Lifecycle!Next
  <2>. QED
    BY <2>2, <2>3
<1>. QED
  BY <1>1, <1>2, <1>3 DEF deleteJobs, RemoveFinalizer, own, work

(* A Job runs, is deleted by hand, or goes with its restore.               *)
LEMMA LifecycleJobs ==
    ASSUME IInv, NEW n \in Names, RunJob(n) \/ RemoveJob(n) \/ CollectJob(n)
    PROVE  [Lifecycle!Next]_(Lifecycle!vars)
<1>0. UNCHANGED <<restore, uids>> /\ jobs[n] # Nil
  BY DEF RunJob, RemoveJob, CollectJob, own, bounds
<1>1. CASE RunJob(n)
  <2>1. PICK j \in JobSteps(jobs[n], FALSE) : PutJob(n, j) /\ started' = started
    BY <1>1 DEF RunJob
  <2>2. j \in Lifecycle!JobSteps(jobs[n], TRUE)
    <3>1. jobs[n] \in Job
      BY <1>0, Numbers
    <3>. QED
      BY <2>1, <3>1 DEF JobSteps, Lifecycle!JobSteps, Job, JobOf, JobStates
  <2>3. jobs' = [jobs EXCEPT ![n] = j]
    BY <2>1, JobsExcept
  <2>4. Lifecycle!Run(n)
    BY <1>0, <2>1, <2>2, <2>3 DEF Lifecycle!Run
  <2>. QED
    BY <2>4 DEF Lifecycle!Next
<1>2. CASE RemoveJob(n)
  <2>1. /\ jobs' = [jobs EXCEPT ![n] = Nil]
        /\ started' = [started EXCEPT ![n] = @ \ {jobs[n].owner}]
    BY <1>2, JobsExcept DEF RemoveJob
  <2>2. Lifecycle!AskAgain(n)
    BY <1>0, <2>1 DEF Lifecycle!AskAgain
  <2>. QED
    BY <2>2 DEF Lifecycle!Next
<1>3. CASE CollectJob(n)
  <2>1. /\ jobs' = [jobs EXCEPT ![n] = Nil] /\ started' = started
        /\ restore # Nil => restore.uid # jobs[n].owner
    BY <1>3, JobsExcept DEF CollectJob, history
  <2>2. restore # Nil => restore.uid = uids
    BY DEF IInv, OrderInv
  <2>3. Lifecycle!Withdraw(n)
    BY <1>0, <2>1, <2>2 DEF Lifecycle!Withdraw
  <2>. QED
    BY <2>3 DEF Lifecycle!Next
<1>. QED
  BY <1>1, <1>2, <1>3

(* People create, edit and delete restores.  One without a finalizer,      *)
(* which the server deletes at once, has no Job yet.                       *)
LEMMA LifecyclePeople ==
    ASSUME IInv,
           \/ \E s \in Selectors : CreateRestore(s) \/ EditRestore(s)
           \/ DeleteRestore
    PROVE  [Lifecycle!Next]_(Lifecycle!vars)
<1>0. UNCHANGED <<jobs, started>>
  BY DEF CreateRestore, EditRestore, DeleteRestore, PutRestoreOutside, work, history
<1>1. CASE \E s \in Selectors : CreateRestore(s)
  <2>1. PICK s \in Selectors : CreateRestore(s)
    BY <1>1
  <2> DEFINE o == [uid |-> uids + 1, del |-> FALSE, fin |-> FALSE, sel |-> s,
                   status |-> NoStatus]
  <2>2. restore = Nil /\ restore' = o /\ uids' = uids + 1
    BY <2>1 DEF CreateRestore, PutRestoreOutside, PutRestore
  <2>3. o \in Restore /\ ~o.del
    <3>1. uids + 1 \in Uids
      BY <2>1, RestoreBoundsAssumption DEF IInv, TypeOK, CreateRestore, Uids
    <3>2. NoStatus \in Status
      BY DEF NoStatus, Status, InstanceStatuses
    <3>. QED
      BY <3>1, <3>2 DEF Restore
  <2> HIDE DEF o
  <2>4. Lifecycle!Create
    BY <1>0, <2>2, <2>3, Objects DEF Lifecycle!Create
  <2>. QED
    BY <2>4 DEF Lifecycle!Next
<1>2. CASE \E s \in Selectors : EditRestore(s)
  <2>1. Stored /\ uids' = uids
    BY <1>2, Edited DEF EditRestore
  <2>. QED
    BY <1>0, <2>1, Objects, LifecycleStutters DEF Stored
<1>3. CASE DeleteRestore
  <2>1. uids' = uids
    BY <1>3 DEF DeleteRestore, bounds
  <2>2. CASE restore.fin
    <3>1. Lifecycle!RequestDeletion
      BY <1>0, <1>3, <2>1, <2>2, Deleted, Objects DEF Lifecycle!RequestDeletion
    <3>. QED
      BY <3>1 DEF Lifecycle!Next
  <2>3. CASE ~restore.fin
    <3>1. restore # Nil /\ ~restore.del /\ restore' = Nil
      BY <1>3, <2>3, Deleted
    <3>2. \A n \in Names : uids \notin started[n]
      BY <2>3, <3>1 DEF IInv, OrderInv, StartedInv
    <3>3. Lifecycle!Disappear
      BY <1>0, <2>1, <3>1, <3>2 DEF Lifecycle!Disappear
    <3>. QED
      BY <3>3 DEF Lifecycle!Next
  <2>. QED
    BY <2>2, <2>3
<1>. QED
  BY <1>1, <1>2, <1>3

(* Every step is a step of the life cycle or none of its business.         *)
LEMMA LifecycleStep ==
    ASSUME IInv, [Next]_vars
    PROVE  [Lifecycle!Next]_(Lifecycle!vars)
<1>1. CASE AddFinalizer \/ initializeStatuses \/ updateRestoreStatus \/ handleError
  <2>1. UNCHANGED <<jobs, started, uids>>
    BY <1>1 DEF AddFinalizer, initializeStatuses, updateRestoreStatus, handleError,
       work, history, bounds
  <2>. QED
    BY <1>1, <2>1, Stores, Objects, LifecycleStutters DEF Stored
<1>2. CASE \/ Start \/ updateJobStatus \/ Abort \/ CallFails
           \/ \E n \in Names : SyncJob(n)
           \/ \E c \in Clusters \cup {Nil} : ChangeCluster(c)
           \/ \E b \in Backups \cup {Nil} : ChangeBackup(b)
           \/ SyncRestore \/ SyncCluster \/ SyncBackup
           \/ UNCHANGED vars
  <2>1. UNCHANGED <<restore, uids, jobs, started>>
    BY <1>2 DEF Start, updateJobStatus, Abort, CallFails, SyncJob, ChangeCluster,
       ChangeBackup, SyncRestore, SyncCluster, SyncBackup, vars, own, work, history, bounds
  <2>. QED
    BY <2>1, LifecycleStutters
<1>. QED
  BY <1>1, <1>2, LifecycleLaunches, LifecycleDeletes, LifecycleJobs, LifecyclePeople
  DEF Next, Reconcile, People, World

(* The Jobs of a restore have the life that JobLifecycle describes: one    *)
(* per instance and incarnation, launched only while it exists, withdrawn  *)
(* only from one that is being deleted or gone, which no restore with a    *)
(* Job skips.                                                              *)
THEOREM ImplementsJobLifecycle == Spec => JobsHaveLifecycle
<1>1. IInv /\ [Next]_vars => [Lifecycle!Next]_(Lifecycle!vars)
  BY LifecycleStep
<1>. QED
  BY Safety, LifecycleInit, <1>1, PTL DEF Spec, JobsHaveLifecycle, Lifecycle!Spec

-----------------------------------------------------------------------------
(* Nothing is forgotten.                                                   *)

(* Ending a round for the sake of another one queues the key.              *)
LEMMA Retried == ASSUME Return(TRUE) PROVE NothingForgotten'
BY DEF Return, NothingForgotten

(* A round that begins takes the key from the queue, and is over at once   *)
(* only if the restore, which a cache that has seen the last change shows, *)
(* is complete.                                                            *)
LEMMA ForgottenStart == ASSUME IInv, NothingForgotten, Start PROVE NothingForgotten'
<1>1. UNCHANGED <<restore, rcache>>
  BY DEF Start, own
<1>2. CASE rcache.obj = Nil
  BY <1>1, <1>2 DEF IInv, FreshInv, NothingForgotten
<1>3. CASE rcache.obj # Nil
  <2>1. rcache.obj \in Restore /\ pc' = begin(rcache.obj)
    BY <1>3, Numbers DEF Start
  <2>2. begin(rcache.obj) = "idle" =>
            rcache.obj.fin /\ ~rcache.obj.del /\ rcache.obj.status.phase = "Completed"
    BY <2>1 DEF begin, Restore
  <2>. QED
    BY <1>1, <2>1, <2>2 DEF NothingForgotten, IInv, FreshInv
<1>. QED
  BY <1>2, <1>3

(* Reconcile comes back to what it writes until the restore is complete,   *)
(* or has released it.                                                     *)
LEMMA ForgottenRounds ==
    ASSUME IInv, NothingForgotten, Reconcile, ~Start
    PROVE  NothingForgotten'
<1>1. CASE AddFinalizer \/ updateRestoreStatus \/ handleError
  BY <1>1, Retried DEF AddFinalizer, updateRestoreStatus, handleError
<1>2. CASE initializeStatuses
  BY <1>2, Retried DEF initializeStatuses, Process, Goto, NothingForgotten
<1>3. CASE ensureJob \/ updateJobStatus
  BY <1>3 DEF ensureJob, updateJobStatus, Fail, Process, Goto, NothingForgotten
<1>4. CASE deleteJobs
  BY <1>4 DEF deleteJobs, Goto, NothingForgotten
<1>5. CASE RemoveFinalizer /\ me.fresh
  BY <1>5 DEF RemoveFinalizer, PutRestore, NothingForgotten
<1>6. CASE RemoveFinalizer /\ ~me.fresh
  BY <1>6, Retried DEF RemoveFinalizer
<1>. QED
  BY <1>1, <1>2, <1>3, <1>4, <1>5, <1>6 DEF Reconcile

(* People and the world leave a queued key queued, and what they change is *)
(* seen by a watch.                                                        *)
LEMMA ForgottenWorld ==
    ASSUME IInv, NothingForgotten, People \/ World \/ Abort \/ CallFails \/ UNCHANGED vars
    PROVE  NothingForgotten'
<1>1. CASE \/ \E s \in Selectors : CreateRestore(s) \/ EditRestore(s)
           \/ DeleteRestore
  <2>1. PICK o \in Restore \cup {Nil} : PutRestoreOutside(o) /\ o # restore
    BY <1>1, RestoreChanges DEF IInv
  <2>2. ~rcache'.fresh
    BY <2>1, AfterObj DEF PutRestoreOutside, PutRestore, IInv, TypeOK
  <2>. QED
    BY <2>2 DEF NothingForgotten
<1>2. CASE SyncRestore \/ \E n \in Names : SyncJob(n)
  BY <1>2 DEF SyncRestore, SyncJob, NothingForgotten
<1>3. CASE Abort
  BY <1>3, Retried DEF Abort
<1>4. CASE CallFails
  BY <1>4 DEF CallFails, Goto, NothingForgotten
<1>5. CASE \/ \E n \in Names : RemoveJob(n) \/ RunJob(n) \/ CollectJob(n)
           \/ \E c \in Clusters \cup {Nil} : ChangeCluster(c)
           \/ \E b \in Backups \cup {Nil} : ChangeBackup(b)
           \/ SyncCluster \/ SyncBackup
           \/ UNCHANGED vars
  BY <1>5 DEF RemoveJob, RunJob, CollectJob, ChangeCluster, ChangeBackup, SyncCluster,
     SyncBackup, vars, own, progress, NothingForgotten
<1>. QED
  BY <1>1, <1>2, <1>3, <1>4, <1>5 DEF People, World

(* A restore that is out of the queue, with no round under way and nothing *)
(* left for its watch to see, is complete: no conflict, crash, missing     *)
(* object or failed call leaves one half way, or its deletion undone.      *)
THEOREM ForgetsNothing == Spec => []NothingForgotten
<1>1. Init => NothingForgotten
  BY DEF Init, NothingForgotten
<1>2. IInv /\ NothingForgotten /\ [Next]_vars => NothingForgotten'
  BY ForgottenStart, ForgottenRounds, ForgottenWorld DEF Next
<1>. QED
  BY Safety, <1>1, <1>2, PTL DEF Spec
=============================================================================
