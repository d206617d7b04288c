CONSTANTS
    Nil = Nil
    Names = {"primary"}
    Passwords = {p1}
    UserSpecs <- KeptSpecs
    Statuses <- PrimaryListed
    Outcomes = {"done"}
    MaxUid = 1
    MaxEdits = 0
    MaxFaults = 0
    MaxClock = 0
    MaxEvents = 2
SPECIFICATION Spec
PROPERTIES ReleasedUsersAreDropped
CHECK_DEADLOCK FALSE
