CONSTANTS
    Turns = {t1, t2}
    Sessions = {s1}
    Iterations = 1
    TokensPerTurn = 1
    TokensPerDay = 1
    MaxMessages = 6
    CallCounts = {0, 2}
    MaxDelta = 1
    NoSession = NoSession
SPECIFICATION Spec
CHECK_DEADLOCK FALSE
INVARIANT TrimKeepsTurns
