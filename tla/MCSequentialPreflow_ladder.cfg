SPECIFICATION Spec
CONSTANTS
    N = 8
    M = 10
    EdgeU <- LadderU
    EdgeV <- LadderV
    Cap   <- LadderCap
    Adj   <- LadderAdj
INVARIANTS
    ListHoldsTheExcess
PROPERTIES
    ImplementsPreflowPush
CHECK_DEADLOCK FALSE
