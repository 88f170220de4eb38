CONSTANTS
    Modules = {m1}
    MaxRetries = 2
    PipesHeld = FALSE
SPECIFICATION FairSpec
CHECK_DEADLOCK FALSE
PROPERTIES StartingEnds ExitIsNoticed StopReturns
