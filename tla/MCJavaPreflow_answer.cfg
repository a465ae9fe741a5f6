SPECIFICATION Spec
CONSTANTS
    T = 3
    MaxHeight = 8
    MaxExcess = 4
    N = 4
    M = 3
    EdgeU <- RowU
    EdgeV <- RowV
    Cap   <- EvenCap
    Adj   <- RowAdj
INVARIANTS
    AnswerIsMaxFlow
CHECK_DEADLOCK FALSE
