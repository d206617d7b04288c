-------------------------- MODULE BackupStepsProofs --------------------------
(***************************************************************************)
(* What the steps of BackupController do to the life of a backup and of    *)
(* its Job: that they implement JobLifecycle, and that none of them leaves *)
(* a backup behind that nothing will look at again.                        *)
(***************************************************************************)
EXTENDS BackupProofs

-----------------------------------------------------------------------------
(* Refinement of JobLifecycle.                                             *)

(* The abstract variables when nothing is there yet.                       *)
LEMMA LifecycleInit == Init => Lifecycle!Init
BY DEF Init, Lifecycle!Init

(* Every incarnation is a number, and so is the owner of every Job.        *)
LEMMA Numbers ==
    ASSUME IInv
    PROVE  /\ uids \in Nat /\ started \subseteq Nat
           /\ backup # Nil => backup \in Backup /\ backup.uid \in Nat /\ backup.del \in BOOLEAN
           /\ bcache.obj # Nil => bcache.obj \in Backup /\ bcache.obj.uid \in Nat
           /\ me.obj # Nil => me.obj \in Backup /\ me.obj.uid \in Nat
           /\ job # Nil => job \in Job /\ job.owner \in Nat
<1>1. /\ backup # Nil => backup \in Backup
      /\ bcache.obj # Nil => bcache.obj \in Backup
      /\ me.obj # Nil => me.obj \in Backup
      /\ job # Nil => job \in Job
  BY Objects DEF IInv, TypeOK, CopyOf
<1>. QED
  BY <1>1 DEF IInv, TypeOK, Backup, Job, JobOf, Uids

(* Neither the backup nor its Job changes, or the backup in a way that     *)
(* neither creates nor deletes it.                                         *)
LEMMA LifecycleStutters ==
    ASSUME (backup' = Nil) = (backup = Nil),
           backup # Nil => backup'.del = backup.del,
           UNCHANGED <<uids, job, started>>
    PROVE  UNCHANGED Lifecycle!vars
BY DEF Lifecycle!vars

(* Reconcile writes an incarnation that exists, and keeps it.              *)
LEMMA LifecycleWrites ==
    ASSUME IInv, AddFinalizer \/ ClusterMissing \/ updateBackupStatus \/ ReportError
    PROVE  UNCHANGED Lifecycle!vars
<1>1. UNCHANGED <<job, started, uids>>
  BY Writes DEF IInv, history, bounds
<1>2. CASE backup' = backup
  BY <1>1, <1>2, LifecycleStutters
<1>3. CASE backup' # backup
  <2>1. PICK o \in Backup : me.fresh /\ PutBackup(o) /\ o.del = me.obj.del
    BY <1>3, Writes DEF IInv
  <2>2. backup # Nil /\ me.obj.del = backup.del
    BY <2>1 DEF IInv, FreshInv
  <2>3. backup' = o /\ o # Nil
    BY <2>1, Objects DEF PutBackup
  <2>. QED
    BY <1>1, <2>1, <2>2, <2>3, LifecycleStutters
<1>. QED
  BY <1>2, <1>3

(* A Job is launched for the incarnation that exists, as long as it had    *)
(* none: a cache that lags cannot show an incarnation that is gone.        *)
LEMMA LifecycleLaunches ==
    ASSUME IInv, CreateOrUpdate
    PROVE  [Lifecycle!Next]_(Lifecycle!vars)
<1>1. UNCHANGED <<backup, uids>> /\ me.obj # Nil /\ me.obj.fin /\ ~me.obj.del
  BY Creates DEF IInv, bounds
<1>2. CASE UNCHANGED <<job, started>>
  BY <1>1, <1>2, LifecycleStutters
<1>3. CASE /\ job = Nil /\ PutJob(NewJob(me.obj.uid, target))
           /\ started' = started \cup {me.obj.uid}
  <2>1. backup # Nil /\ me.obj.uid = uids
    BY <1>1 DEF IInv, CopyInv, proves, OrderInv
  <2>2. uids \notin started
    BY <1>3, <2>1, Created
  <2>3. job' = NewJob(uids, target)
    BY <1>3, <2>1 DEF PutJob
  <2>4. target \in Hosts
    BY DEF IInv, TypeOK, StepInv, CreateOrUpdate
  <2>5. Lifecycle!Launch("dump")
    BY <1>1, <1>3, <2>1, <2>2, <2>3, <2>4 DEF Lifecycle!Launch, NewJob, Lifecycle!NewJob
  <2>. QED
    BY <2>5 DEF Lifecycle!Next
<1>. QED
  BY <1>2, <1>3, Creates DEF IInv

(* A Job that Reconcile deletes belongs to an incarnation that is being    *)
(* deleted or is gone.                                                     *)
LEMMA LifecycleDeletes ==
    ASSUME IInv, DeleteJob \/ RemoveFinalizer
    PROVE  [Lifecycle!Next]_(Lifecycle!vars)
<1>0. pc \in deleting /\ me.obj # Nil /\ me.obj.del /\ UNCHANGED <<started, uids>>
  BY DEF IInv, StepInv, deleting, DeleteJob, RemoveFinalizer, history, bounds
<1>1. CASE RemoveFinalizer /\ me.fresh
  <2>1. backup # Nil /\ backup.del /\ backup' = Nil /\ job' = job
    BY <1>0, <1>1 DEF IInv, FreshInv, RemoveFinalizer, PutBackup
  <2>2. Lifecycle!Disappear
    BY <1>0, <2>1 DEF Lifecycle!Disappear
  <2>. QED
    BY <2>2 DEF Lifecycle!Next
<1>2. CASE backup' = backup /\ job' = job
  BY <1>0, <1>2, LifecycleStutters
<1>3. CASE DeleteJob /\ job' # job
  <2>1. job' = Nil /\ job # Nil /\ backup' = backup
    BY <1>3 DEF DeleteJob, PutJob
  <2>2. job.owner = uids /\ backup # Nil => backup.del
    BY <1>0, <2>1, Numbers DEF IInv, OwnerInv, OrderInv, older
  <2>3. Lifecycle!Withdraw("dump")
    BY <1>0, <2>1, <2>2 DEF Lifecycle!Withdraw
  <2>. QED
    BY <2>3 DEF Lifecycle!Next
<1>. QED
  BY <1>1, <1>2, <1>3 DEF DeleteJob, RemoveFinalizer

(* The Job runs, is deleted by hand, or goes with its backup.              *)
LEMMA LifecycleJobs ==
    ASSUME IInv, RunJob \/ RemoveJob \/ CollectJob
    PROVE  [Lifecycle!Next]_(Lifecycle!vars)
<1>0. UNCHANGED <<backup, uids>> /\ job # Nil
  BY DEF RunJob, RemoveJob, CollectJob, bounds
<1>1. CASE RunJob
  <2>1. PICK j \in JobSteps(job, TRUE) : PutJob(j) /\ started' = started
    BY <1>1 DEF RunJob
  <2>2. j \in Lifecycle!JobSteps(job, TRUE) /\ job' = j
    BY <2>1 DEF PutJob, JobSteps, Lifecycle!JobSteps
  <2>3. Lifecycle!Run("dump")
    BY <1>0, <2>1, <2>2 DEF Lifecycle!Run
  <2>. QED
    BY <2>3 DEF Lifecycle!Next
<1>2. CASE RemoveJob
  <2>1. job' = Nil /\ started' = started \ {job.owner}
    BY <1>2 DEF RemoveJob, PutJob
  <2>2. Lifecycle!AskAgain("dump")
    BY <1>0, <2>1 DEF Lifecycle!AskAgain
  <2>. QED
    BY <2>2 DEF Lifecycle!Next
<1>3. CASE CollectJob
  <2>1. job' = Nil /\ started' = started /\ (backup # Nil => backup.uid # job.owner)
    BY <1>3 DEF CollectJob, PutJob, history
  <2>2. backup # Nil => backup.uid = uids
    BY DEF IInv, OrderInv
  <2>3. Lifecycle!Withdraw("dump")
    BY <1>0, <2>1, <2>2 DEF Lifecycle!Withdraw
  <2>. QED
    BY <2>3 DEF Lifecycle!Next
<1>. QED
  BY <1>1, <1>2, <1>3

(* People create, edit and delete backups.  One without a finalizer, which *)
(* the server deletes at once, has no Job yet.                             *)
LEMMA LifecyclePeople ==
    ASSUME IInv,
           \/ \E s \in Selections : CreateBackup(s) \/ EditBackup(s)
           \/ DeleteBackup
    PROVE  [Lifecycle!Next]_(Lifecycle!vars)
<1>0. UNCHANGED <<job, started>>
  BY DEF CreateBackup, EditBackup, DeleteBackup, PutBackupOutside, history
<1>1. CASE \E s \in Selections : CreateBackup(s)
  <2>1. PICK s \in Selections : CreateBackup(s)
    BY <1>1
  <2> DEFINE o == [uid |-> uids + 1, del |-> FALSE, fin |-> FALSE, names |-> s,
                   status |-> NoStatus]
  <2>2. backup = Nil /\ backup' = o /\ uids' = uids + 1
    BY <2>1 DEF CreateBackup, PutBackupOutside, PutBackup
  <2>3. o \in Backup /\ ~o.del
    <3>1. uids + 1 \in Uids
      BY <2>1, BackupBoundsAssumption DEF IInv, TypeOK, CreateBackup, Uids
    <3>. QED
      BY <2>1, <3>1, SelectionsAssumption, Nothing DEF Backup, Status, NoStatus
  <2> HIDE DEF o
  <2>4. Lifecycle!Create
    BY <1>0, <2>2, <2>3, Objects DEF Lifecycle!Create
  <2>. QED
    BY <2>4 DEF Lifecycle!Next
<1>2. CASE \E s \in Selections : EditBackup(s)
  <2>1. PICK s \in Selections : EditBackup(s)
    BY <1>2
  <2>2. backup # Nil /\ uids' = uids /\ backup' = [backup EXCEPT !.names = s]
    BY <2>1 DEF EditBackup, PutBackupOutside, PutBackup
  <2>3. backup' \in Backup /\ backup'.del = backup.del
    BY <2>1, <2>2, Numbers, EditType, SelectionsAssumption
  <2>. QED
    BY <1>0, <2>2, <2>3, Objects, LifecycleStutters
<1>3. CASE DeleteBackup /\ backup.fin
  <2>1. /\ backup # Nil /\ ~backup.del /\ uids' = uids
        /\ backup' = [backup EXCEPT !.del = TRUE]
    BY <1>3 DEF DeleteBackup, PutBackupOutside, PutBackup, bounds
  <2>2. backup' \in Backup /\ backup'.del
    BY <2>1, Numbers, EditType
  <2>3. Lifecycle!RequestDeletion
    BY <1>0, <2>1, <2>2, Objects DEF Lifecycle!RequestDeletion
  <2>. QED
    BY <2>3 DEF Lifecycle!Next
<1>4. CASE DeleteBackup /\ ~backup.fin
  <2>1. backup # Nil /\ ~backup.del /\ uids' = uids /\ backup' = Nil
    BY <1>4 DEF DeleteBackup, PutBackupOutside, PutBackup, bounds
  <2>2. uids \notin started
    BY <1>4, <2>1 DEF IInv, OrderInv, StartedInv
  <2>3. Lifecycle!Disappear
    BY <1>0, <2>1, <2>2 DEF Lifecycle!Disappear
  <2>. QED
    BY <2>3 DEF Lifecycle!Next
<1>. QED
  BY <1>1, <1>2, <1>3, <1>4

(* Every step is a step of the life cycle or none of its business.         *)
LEMMA LifecycleStep ==
    ASSUME IInv, [Next]_vars
    PROVE  [Lifecycle!Next]_(Lifecycle!vars)
<1>1. CASE AddFinalizer \/ ClusterMissing \/ updateBackupStatus \/ ReportError
  BY <1>1, LifecycleWrites
<1>2. CASE \/ Start \/ Abort \/ CallFails \/ SyncBackup \/ SyncJob \/ SyncCluster \/ Resync
           \/ \E c \in Clusters \cup {Nil} : ChangeCluster(c)
           \/ UNCHANGED vars
  <2>1. UNCHANGED <<backup, uids, job, started>>
    BY <1>2 DEF Start, Abort, CallFails, SyncBackup, SyncJob, SyncCluster, Resync,
       ChangeCluster, vars, history, bounds
  <2>. QED
    BY <2>1, LifecycleStutters
<1>. QED
  BY <1>1, <1>2, LifecycleLaunches, LifecycleDeletes, LifecycleJobs, LifecyclePeople
  DEF Next, Reconcile, People, World

(* The Job of a backup has the life that JobLifecycle describes: launched  *)
(* once per incarnation and only while it exists, withdrawn only from one  *)
(* that is being deleted or gone, which no backup with a Job skips.        *)
THEOREM ImplementsJobLifecycle == Spec => JobHasLifecycle
<1>1. IInv /\ [Next]_vars => [Lifecycle!Next]_(Lifecycle!vars)
  BY LifecycleStep
<1>. QED
  BY Safety, LifecycleInit, <1>1, PTL DEF Spec, JobHasLifecycle, Lifecycle!Spec

-----------------------------------------------------------------------------
(* Nothing is forgotten.                                                   *)

(* Ending a round for the sake of another one queues the key.              *)
LEMMA Retried == ASSUME Return(TRUE) PROVE NothingForgotten'
BY DEF Return, NothingForgotten

(* Who changes a backup makes the cache lag, and its watch will see that.  *)
LEMMA Noticed ==
    ASSUME TypeOK, NEW o \in Backup \cup {Nil}, PutBackup(o), o # backup
    PROVE  NothingForgotten'
BY PutBackupType DEF NothingForgotten

(* A round that ends without asking for another has changed the backup, or *)
(* has left it Failed: the one way to leave it for good.                   *)
LEMMA ForgottenWrites ==
    ASSUME IInv, NothingForgotten,
           AddFinalizer \/ ClusterMissing \/ updateBackupStatus \/ ReportError
    PROVE  NothingForgotten'
<1>0. me.obj \in Backup /\ (me.fresh => backup # Nil /\ me.obj.fin = backup.fin)
  BY Writes DEF IInv, FreshInv
<1>1. CASE AddFinalizer /\ me.fresh /\ ~me.obj.del
  <2> DEFINE o == [me.obj EXCEPT !.fin = TRUE]
  <2>1. PutBackup(o) /\ ~me.obj.fin
    BY <1>1 DEF AddFinalizer, IInv, StepInv
  <2>2. o \in Backup /\ o.fin
    BY <1>0, WriteType
  <2> HIDE DEF o
  <2>. QED
    BY <1>0, <1>1, <2>1, <2>2, Noticed DEF IInv
<1>2. CASE ClusterMissing /\ me.fresh
  <2> DEFINE o == [me.obj EXCEPT !.status.phase = "Failed"]
  <2>1. PutBackup(o) /\ me.obj.fin /\ ~me.obj.del
    BY <1>2 DEF ClusterMissing, IInv, StepInv, reconciling
  <2>2. o \in Backup /\ o.fin = me.obj.fin /\ o.del = me.obj.del /\ o.status.phase = "Failed"
    BY <1>0, WriteType
  <2> HIDE DEF o
  <2>3. backup' = o
    BY <2>1 DEF PutBackup
  <2>. QED
    BY <2>1, <2>2, <2>3 DEF NothingForgotten
<1>3. CASE updateBackupStatus /\ jcache.obj = Nil
  BY <1>3 DEF updateBackupStatus, Goto, NothingForgotten
<1>4. CASE Return(TRUE)
  BY <1>4, Retried
<1>. QED
  BY <1>1, <1>2, <1>3, <1>4
  DEF AddFinalizer, ClusterMissing, updateBackupStatus, ReportError

(* The backup that a deletion has released is gone.                        *)
LEMMA ForgottenDeletes ==
    ASSUME IInv, NothingForgotten, CreateOrUpdate \/ DeleteJob \/ RemoveFinalizer
    PROVE  NothingForgotten'
<1>1. CASE RemoveFinalizer /\ me.fresh
  BY <1>1 DEF RemoveFinalizer, PutBackup, NothingForgotten
<1>2. CASE RemoveFinalizer /\ ~me.fresh
  BY <1>2, Retried DEF RemoveFinalizer
<1>3. CASE CreateOrUpdate \/ DeleteJob
  BY <1>3 DEF CreateOrUpdate, CreateJob, DeleteJob, Goto, NothingForgotten
<1>. QED
  BY <1>1, <1>2, <1>3

(* A round that begins takes the key from the queue, and looks at the      *)
(* backup, which a cache that has seen the last change shows.              *)
LEMMA ForgottenStart == ASSUME IInv, NothingForgotten, Start PROVE NothingForgotten'
<1>1. UNCHANGED <<backup, bcache>>
  BY DEF Start
<1>2. CASE bcache.obj = Nil
  BY <1>1, <1>2 DEF IInv, FreshInv, NothingForgotten
<1>3. CASE bcache.obj # Nil
  <2>1. bcache.obj \in Backup /\ pc' = dispatch(bcache.obj, ccache.obj)
    BY <1>3, Numbers DEF Start
  <2>. QED
    BY <2>1, DispatchType DEF NothingForgotten
<1>. QED
  BY <1>2, <1>3

(* People and the world leave a queued key queued, and an idle one that    *)
(* they do not change as it is.                                            *)
LEMMA ForgottenWorld ==
    ASSUME IInv, NothingForgotten, People \/ World \/ Abort \/ CallFails \/ UNCHANGED vars
    PROVE  NothingForgotten'
<1>1. CASE \/ \E s \in Selections : CreateBackup(s) \/ EditBackup(s)
           \/ DeleteBackup
  <2>1. PICK o \in Backup \cup {Nil} : PutBackupOutside(o) /\ o # backup
    BY <1>1, Outside DEF IInv
  <2>. QED
    BY <2>1, Noticed DEF IInv, PutBackupOutside
<1>2. CASE SyncBackup \/ Resync \/ SyncJob
  BY <1>2 DEF SyncBackup, Resync, SyncJob, NothingForgotten
<1>3. CASE Abort
  BY <1>3, Retried DEF Abort
<1>4. CASE CallFails
  BY <1>4 DEF CallFails, NothingForgotten
<1>5. CASE \/ SyncCluster \/ \E c \in Clusters \cup {Nil} : ChangeCluster(c)
           \/ UNCHANGED vars
  BY <1>5 DEF SyncCluster, ChangeCluster, vars, progress, NothingForgotten
<1>6. CASE RunJob \/ RemoveJob \/ CollectJob
  BY <1>6, JobMoves DEF IInv, progress, NothingForgotten
<1>. QED
  BY <1>1, <1>2, <1>3, <1>4, <1>5, <1>6 DEF People, World

(* A backup that is out of the queue, with no round under way and nothing  *)
(* left for its watch to see, was reported Failed without its cluster:     *)
(* no conflict, crash or failed call leaves one that is to be carried out  *)
(* or deleted.                                                             *)
THEOREM ForgetsNothing == Spec => []NothingForgotten
<1>1. Init => NothingForgotten
  BY DEF Init, NothingForgotten
<1>2. IInv /\ NothingForgotten /\ [Next]_vars => NothingForgotten'
  BY ForgottenStart, ForgottenWrites, ForgottenDeletes, ForgottenWorld DEF Next, Reconcile
<1>. QED
  BY Safety, <1>1, <1>2, PTL DEF Spec
=============================================================================
