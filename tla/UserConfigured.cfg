CONSTANTS
    Nil = Nil
    Names = {"primary"}
    Passwords = {p1}
    UserSpecs <- KeptSpecs
    Statuses <- PrimaryListed
    Outcomes = {"rejected"}
    MaxUid = 1
    MaxEdits = 0
    MaxFaults = 0
    MaxClock = 0
    MaxEvents = 2
SPECIFICATION FairSpec
PROPERTIES PasswordsConverge
CHECK_DEADLOCK FALSE
