SPECIFICATION FairSpec
CONSTANTS
    Call = {1, 2}
    Key = {k1}
    MaxReconnects = 1
    MaxTurns = 3
    MaxEvents = 2
INVARIANTS
    AgreedOnce
    ReconnectsBounded
PROPERTIES
    YesIsTakenUp
CHECK_DEADLOCK FALSE
