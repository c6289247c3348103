SPECIFICATION SpendingSpec
CONSTANTS
    Call = {c1, c2, c3}
    Process = {p1}
    Request = {r1, r2}
    Primary = "gemini"
    Env <- MCEnv
    FallbackEnabled = TRUE
    Edited <- MCEdited
    MaxKeys = 2
    Runner = {c1, c2}
    Task = {t1, t2}
    Cheap = {t1}
    Risky = {t2}
    Allowed <- MCAllowed
    MaxAttempts = 3
    Budget = 2
    MaxPrice = 2
    Enough = 2
CONSTRAINT Apart
SYMMETRY Interchangeable
INVARIANTS
    CacheAgrees
    AnsweredAsAsked
    OverspendBounded
    BooksAreTrue
CHECK_DEADLOCK FALSE
