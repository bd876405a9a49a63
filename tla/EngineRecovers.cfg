SPECIFICATION FairSpec
CONSTANTS
    tv1 = tv1
    tv2 = tv2
    a1 = a1
    a2 = a2
    l1 = l1
    s1 = s1
    s2 = s2
    s3 = s3
    c1 = c1
    c2 = c2
    None = None
    NoArea = NoArea
    TV = {tv1}
    Area = {a1}
    Light = {l1}
    Slot = {s1, s2}
    Stopper = {}
    Assignments <- SharedArea
    MaxFaults = 2
    MaxEdits = 2
    PromptWakeup = TRUE
    SlowConnect = TRUE
    OrderedBridge = TRUE
PROPERTIES
    Recovers
    OwnerReturns
CHECK_DEADLOCK FALSE
