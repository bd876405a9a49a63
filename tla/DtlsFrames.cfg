SPECIFICATION Spec
CONSTANTS
    tv1 = tv1
    tv2 = tv2
    guest = guest
    None = None
    Client = {tv1, tv2, guest}
    Paired = {tv1, tv2}
    MaxAttempts = 1
    MaxResends = 0
    MaxLosses = 1
    MaxDuplicates = 1
    MaxQueue = 1
    CalmNetwork = FALSE
SYMMETRY Symmetric
INVARIANTS
    TypeOK
    FrameIdentity
CHECK_DEADLOCK FALSE
