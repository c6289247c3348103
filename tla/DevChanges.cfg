SPECIFICATION Spec
CONSTANTS
    Build = {b1, b2}
    Level = {1, 3, 4}
    MaxEvents = 6
    Versions = 3
    KEEP = 2
    Nothing = Nothing
    Fresh = Fresh
SYMMETRY Sym
INVARIANTS
    ApprovedWithin
    BranchIsSound
    WayBack
    FirstAnswerStands
CHECK_DEADLOCK FALSE
