SPECIFICATION LifecycleSpec
CONSTANTS
    tv1 = tv1
    a1 = a1
    s1 = s1
    s2 = s2
    app = app
    c1 = c1
    None = None
    NoArea = NoArea
    TV = {tv1}
    Area = {a1}
    Light = {}
    Slot = {s1}
    Stopper = {app, c1}
    App = app
    Assignments <- SharedArea
    MaxFaults = 0
    MaxEdits = 0
    MaxReady = 1
    PromptWakeup = TRUE
    SlowConnect = TRUE
    OrderedBridge = FALSE
INVARIANTS
    StopsOutbound
CHECK_DEADLOCK FALSE
