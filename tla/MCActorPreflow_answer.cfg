SPECIFICATION Spec
CONSTANTS
    N = 4
    M = 5
    EdgeU <- DiamondU
    EdgeV <- DiamondV
    Cap   <- DiamondCap
    Adj   <- DiamondAdj
INVARIANTS
    AnswerIsMaxFlow
