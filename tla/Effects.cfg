SPECIFICATION BrowsingSpec
CONSTANTS
    Task = {t1, t2}
    Jobs = {"piece", "command", "page"}
    Runner = {r1, r2}
    Redirect = {b1}
    MaxAttempts = 3
    MaxEvents = 1
    Plan <- MCPlan
CONSTRAINT Alone
SYMMETRY Symmetry
INVARIANTS
    OnlyWhatHeApproved
    OncePerYes
    RecordsAreTrue
    NothingUnseen
    CanBeAnswered
CHECK_DEADLOCK FALSE
