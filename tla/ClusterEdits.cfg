CONSTANTS
    Nil = Nil
    Names = {"primary", "b"}
    Quantities = {"10Gi", "20Gi", "500m"}
    DefaultSize = "10Gi"
    DefaultResources = "500m"
    Params = {}
    Users = {"app"}
    Passwords = {p1}
    Specs <- EditedSpecs
    Removable <- NothingRemoved
    Propagations = {FALSE}
    MaxUid = 1
    MaxEdits = 1
    MaxFaults = 0
SPECIFICATION Spec
PROPERTIES NoLostEdit StatusDescribesSpec ReleasedClean NoOrphanCreation
CHECK_DEADLOCK FALSE
