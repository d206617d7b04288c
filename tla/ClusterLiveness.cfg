CONSTANTS
    Nil = Nil
    Names = {"primary"}
    Quantities = {"10Gi", "20Gi", "500m"}
    DefaultSize = "10Gi"
    DefaultResources = "500m"
    Params = {}
    Users = {"app"}
    Passwords = {p1}
    Specs <- LivenessSpecs
    Removable <- StatefulSetRemoved
    Propagations = {TRUE, FALSE}
    MaxUid = 1
    MaxEdits = 1
    MaxFaults = 1
SPECIFICATION LivenessSpec
INVARIANTS NothingForgotten
PROPERTIES StatusFollowsChildren Converges DeletionCompletes
CHECK_DEADLOCK FALSE
