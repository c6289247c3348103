SPECIFICATION Spec
CONSTANTS
    Exchange <- Exchanges
    Thing = {a, b}
    Says <- MCSays
    Kinds <- MCKinds
    Work = {w1, w2}
    ToldAtMost = 1
    KnownAtMost = 1
    MaxMoves = 2
INVARIANTS
    ForgottenStaysForgotten
    NoTwins
    DeletedLeavesNoReference
    NewsReachesHim
SYMMETRY Alike
CHECK_DEADLOCK FALSE
