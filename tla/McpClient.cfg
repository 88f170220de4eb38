CONSTANTS
    Callers = {c1, c2}
    MaxRequests = 2
    MaxLines = 2
SPECIFICATION FairSpec
CHECK_DEADLOCK FALSE
INVARIANTS NoCrossTalk WaitersOwned ClosedIsEmpty IInv
PROPERTIES ImplementsRpc RequestsEnd
