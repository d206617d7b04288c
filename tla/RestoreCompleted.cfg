CONSTANTS
    Nil = Nil
    Names = {"primary"}
    Selectors <- EveryInstance
    Clusters <- DefaultedCluster
    Backups <- LogicalBackup
    MaxUid = 1
    MaxEvents = 0
SPECIFICATION Spec
INVARIANTS CompletedMeansRestored
CHECK_DEADLOCK FALSE
