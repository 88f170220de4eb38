CONSTANTS
    Turns = {t1, t2}
    Sessions = {s1}
    Iterations = 2
    TokensPerTurn = 1
    TokensPerDay = 1
    MaxMessages = 4
    CallCounts = {0, 2}
    MaxDelta = 1
    NoSession = NoSession
SPECIFICATION Spec
SYMMETRY Alike
CHECK_DEADLOCK FALSE
INVARIANTS TypeOK PromptFirst HistoryFits OffForTheDay
