CONSTANTS
    Nil = Nil
    Names = {"primary", "b"}
    Passwords = {p1, p2}
    UserSpecs <- RoundSpecs
    Statuses <- BothListed
    Outcomes = {"done", "rejected", "partly"}
    MaxUid = 1
    MaxEdits = 1
    MaxFaults = 1
    MaxClock = 1
    MaxEvents = 2
SPECIFICATION FairSpec
INVARIANTS TypeOK IInv NothingForgotten
PROPERTIES RolesHaveLifecycle RotatesWhenDue ReadyIsConfigured PasswordsAreSent UserDeletionCompletes
CHECK_DEADLOCK FALSE
