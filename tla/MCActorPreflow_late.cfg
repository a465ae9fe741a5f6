SPECIFICATION FairSpec
CONSTANTS
    N = 3
    M = 2
    EdgeU <- PathU
    EdgeV <- PathV
    Cap   <- PathCap
    Adj   <- PathAdj
PROPERTIES
    MainIsAnswered
