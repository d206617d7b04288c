CONSTANTS
    Nil = Nil
    Names = {"primary", "b"}
    Selectors <- OneOrOther
    Clusters <- GrownCluster
    Backups <- EitherBackup
    MaxUid = 2
    MaxEvents = 1
SPECIFICATION FairSpec
INVARIANTS TypeOK IInv NothingForgotten
PROPERTIES JobsHaveLifecycle RestoredOnce ProgressIsKept CompletedIsFinal CompletionIsReported RestoreDeletionCompletes
CHECK_DEADLOCK FALSE
