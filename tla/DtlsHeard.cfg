SPECIFICATION FairSpec
CONSTANTS
    tv1 = tv1
    tv2 = tv2
    guest = guest
    None = None
    Client = {tv1}
    Paired = {tv1}
    MaxAttempts = 5
    MaxResends = 2
    MaxLosses = 4
    MaxDuplicates = 0
    MaxQueue = 1
    CalmNetwork = TRUE
PROPERTIES
    Heard
CHECK_DEADLOCK FALSE
