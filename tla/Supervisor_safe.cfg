CONSTANTS
    Modules = {m1, m2}
    MaxRetries = 1
    PipesHeld = FALSE
SPECIFICATION Spec
CHECK_DEADLOCK FALSE
SYMMETRY MCSymmetry
INVARIANTS TypeOK StateIsBacked OneGeneration RetriesBounded NoProcessAfterStop
PROPERTY FailedIsFinal
