SPECIFICATION Spec
CONSTANTS
    N = 4
    M = 4
    EdgeU <- ElbowU
    EdgeV <- ElbowV
    Cap   <- ElbowCap
    Adj   <- ElbowAdj
INVARIANTS
    AnswerIsFinal
