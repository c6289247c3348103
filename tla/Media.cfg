SPECIFICATION Spec
CONSTANTS
    Directors = 2
    MaxAttempts = 2
    MaxRevisions = 1
    MaxEvents = 1
INVARIANTS
    DeskIsSound
    ClosedMeansSettled
PROPERTIES
    AnswerIsFinal
CHECK_DEADLOCK FALSE
