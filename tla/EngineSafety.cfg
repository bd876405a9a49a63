SPECIFICATION Spec
CONSTANTS
    tv1 = tv1
    tv2 = tv2
    a1 = a1
    a2 = a2
    l1 = l1
    s1 = s1
    s2 = s2
    s3 = s3
    c1 = c1
    c2 = c2
    None = None
    NoArea = NoArea
    TV = {tv1}
    Area = {a1}
    Light = {l1}
    Slot = {s1, s2, s3}
    Stopper = {c1}
    Assignments <- SharedArea
    MaxFaults = 1
    MaxEdits = 0
    PromptWakeup = TRUE
    SlowConnect = TRUE
    OrderedBridge = FALSE
SYMMETRY Symmetric
INVARIANTS
    TypeOK
    NoStrandedSession
    SessionHasKeeper
    SingleStart
    SingleTicker
    HealthWatchesSession
    AreaReleased
    Inv
PROPERTIES
    NoFalseAlarm
CHECK_DEADLOCK FALSE
