SPECIFICATION Spec
CONSTANTS
    t1 = t1  t2 = t2  t3 = t3
    a1 = a1  a2 = a2
    r1 = r1
    pub = pub
    NoCategory = NoCategory
    Task = {t1, t2}
    After <- MCAfter
    Category = {pub}
    Needs <- MCNeeds
    Inside <- MCInside
    Advancer = {a1, a2}
    Request = {r1}
    MaxAttempts = 2
    MaxWaves = 2
    MaxCrashes = 0
    Gated = TRUE
    SlowSteps = FALSE
    TickInStart = FALSE
    MaxStops = 0
SYMMETRY Sym
INVARIANTS
    TypeOK
    OwnerGate
    SingleRunner
    OrderRespected
    CompletedMeansAll
    AttemptsBounded
CHECK_DEADLOCK FALSE
