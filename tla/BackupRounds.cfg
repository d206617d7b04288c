CONSTANTS
    Nil = Nil
    Names = {"primary", "b"}
    Selections <- EitherSelection
    Clusters <- DefaultedClusters
    MaxUid = 2
    MaxEvents = 1
SPECIFICATION FairSpec
INVARIANTS TypeOK IInv CompletedMeansBackedUp NothingForgotten
PROPERTIES JobHasLifecycle BackedUpOnce BackupStarts BackupDeletionCompletes
CHECK_DEADLOCK FALSE
