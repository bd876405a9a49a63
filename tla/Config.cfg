SPECIFICATION Spec
CONSTANTS
    u1 = u1
    h1 = h1
    h2 = h2
    a1 = a1
    r1 = r1
    r2 = r2
    m1 = m1
    m2 = m2
    None = None
    NoArea = NoArea
    User = {u1}
    Host = {h1, h2}
    ByWeb = {h1}
    ByCli = {h2}
    Area = {a1}
    Mac = {m1, m2}
    AreasOf <- OneArea
    Request = {r1, r2}
    MaxMishaps = 1
    MaxPairs = 1
SYMMETRY Symmetric
CONSTRAINT OneBeside
INVARIANTS
    TypeOK
    LightsMatch
    DeletedForGood
    PairedForGood
    Durable
    ActiveConfigured
    StableIdentity
CHECK_DEADLOCK FALSE
