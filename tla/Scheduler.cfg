SPECIFICATION LoopSpec
CONSTANTS
    s1 = s1  s2 = s2
    NoOne = NoOne
    Schedule = {s1, s2}
    Instance = {i1, i2}
    PerDay = 2
    Week = 3
    Horizon = 4
    Hour <- MCHour
    Days <- MCDays
    MaxPerDay <- MCMaxPerDay
    Ceiling = 2
    Limit = 2
    MaxUpsets = 1
    asking = asking  plain = plain
    Flow = {asking, plain}
    Steps <- MCSteps
    Asks <- MCAsks
    MAX_RESUMED = 1
    MaxAttempts = 2
    STUCK = 1
    RESUMABLE = 4
    MaxCrashes = 1
INVARIANTS
    RunsBounded
PROPERTIES
    DueIsServed
    PickedUpOrCrowded
CHECK_DEADLOCK FALSE
