SPECIFICATION FairSpec
CONSTANTS
    T = 3
    N = 4
    M = 5
    EdgeU <- DiamondU
    EdgeV <- DiamondV
    Cap   <- DiamondCap
    Adj   <- DiamondAdj
INVARIANTS
    TypeOK
    ExcessHasOneKeeper
    PassedEdgesStayInadmissible
    ActiveCountIsExact
    NobodyLeavesEarly
    NobodyWaitsInARing
    AnswerIsMaxFlow
PROPERTIES
    ImplementsPreflowPush
    Termination
