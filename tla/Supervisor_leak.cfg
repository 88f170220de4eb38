CONSTANTS
    Modules = {m1}
    MaxRetries = 1
    PipesHeld = FALSE
SPECIFICATION Spec
CHECK_DEADLOCK FALSE
PROPERTY StoppedStaysStopped
