CONSTANTS
    Nil = Nil
    Names = {"primary"}
    Passwords = {p1, p2}
    UserSpecs <- KeptSpecs
    Statuses <- PrimaryListed
    Outcomes = {"rejected"}
    MaxUid = 1
    MaxEdits = 0
    MaxFaults = 1
    MaxClock = 0
    MaxEvents = 2
SPECIFICATION Spec
PROPERTIES RotatesOnlyIfMissing
CHECK_DEADLOCK FALSE
