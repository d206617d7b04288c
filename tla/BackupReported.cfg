CONSTANTS
    Nil = Nil
    Names = {"primary"}
    Selections <- DefaultSelection
    Clusters <- OneCluster
    MaxUid = 1
    MaxEvents = 0
SPECIFICATION FairSpec
PROPERTIES CompletionIsReported
CHECK_DEADLOCK FALSE
