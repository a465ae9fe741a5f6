SPECIFICATION Spec
CONSTANTS
    T = 3
    MaxHeight = 8
    MaxExcess = 4
    N = 4
    M = 3
    EdgeU <- RowU
    EdgeV <- RowV
    Cap   <- WideCap
    Adj   <- RowAdj
INVARIANTS
    TypeOK
    OwnersAgree
    EdgeHasOnePusher
    ExcessIsQueued
    NobodyWaitsInARing
CHECK_DEADLOCK FALSE
