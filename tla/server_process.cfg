SPECIFICATION FairSpec
CONSTANTS
    Users = {u1, u2}
    MaxRequests = 3
    MaxPushes = 1
    MaxRaces = 1
    MayBreak = TRUE
CHECK_DEADLOCK FALSE
INVARIANTS TypeOK NotifyIsSet SubscriptionsCarriedOut
PROPERTIES MessageTaken SigIntEnds
