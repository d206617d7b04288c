CONSTANTS
    Nil = Nil
    Names = {"primary"}
    Quantities = {"10Gi", "20Gi", "500m"}
    DefaultSize = "10Gi"
    DefaultResources = "500m"
    Params = {}
    Users = {"app"}
    Passwords = {p1, p2}
    Specs <- RebornSpecs
    Removable <- StatefulSetRemoved
    Propagations = {FALSE}
    MaxUid = 2
    MaxEdits = 0
    MaxFaults = 1
SPECIFICATION Spec
SYMMETRY Symmetry
INVARIANTS IInv TypeOK CredentialsOpenData NothingInherited
PROPERTIES CredentialsHaveLifecycle
CHECK_DEADLOCK FALSE
