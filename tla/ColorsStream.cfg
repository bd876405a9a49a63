SPECIFICATION FairSpec
CONSTANTS
    tv1 = tv1
    tv2 = tv2
    a1 = a1
    a2 = a2
    None = None
    TV <- OneTV
    Area = {a1, a2}
    ChannelsOf <- Areas
    Light = {1, 2}
    MaxColor = 1
    Frames <- SomeFrames
    Bodies <- SomeBodies
    Groups <- OneGroup
    Factors <- SomeFactors
    Parts = 4
    MaxSmoothing = 3
    Unit = 8
    MaxRequests = 3
    MaxStreams = 2
INVARIANTS
    TypeOK
    WholeArea
PROPERTIES
    FreshStart
    NoOvershoot
    Settles
CHECK_DEADLOCK FALSE
