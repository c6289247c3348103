SPECIFICATION Spec
CONSTANTS
    Version = {1, 2}
    First = 1
    Perms <- MCPerms
    Call = {c1, c2}
    Worker = {"a", "b"}
    Takes <- MCTakes
    Enough = 1
    MaxTrials = 2
    MaxRuns = 1
    MaxEvents = 4
SYMMETRY Sym
INVARIANTS
    OneAnswers
    EvidenceKept
CHECK_DEADLOCK FALSE
