SPECIFICATION FairSpec
CONSTANTS
    t1 = t1  t2 = t2  t3 = t3
    a1 = a1  a2 = a2
    r1 = r1
    pub = pub
    NoCategory = NoCategory
    Task = {t1, t2}
    After <- MCAfter
    Category = {pub}
    Needs <- MCNeeds
    Inside <- MCInside
    Advancer = {a1}
    Request = {r1}
    MaxAttempts = 2
    MaxWaves = 2
    MaxCrashes = 1
    Gated = FALSE
    SlowSteps = FALSE
    TickInStart = FALSE
    MaxStops = 1
PROPERTIES
    KeepsPromise
    RunnableIsServed
    ApprovalTakesEffect
CHECK_DEADLOCK FALSE
