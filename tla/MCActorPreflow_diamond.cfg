SPECIFICATION FairSpec
CONSTANTS
    N = 4
    M = 5
    EdgeU <- DiamondU
    EdgeV <- DiamondV
    Cap   <- DiamondCap
    Adj   <- DiamondAdj
INVARIANTS
    TypeOK
    ExcessIsConserved
    RequestsAreCounted
    RequestHeightIsCurrent
PROPERTIES
    AskedInTimeIsAnswered
