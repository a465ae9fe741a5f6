SPECIFICATION FairSpec
CONSTANTS
    N = 5
    M = 7
    EdgeU <- LayersU
    EdgeV <- LayersV
    Cap   <- LayersCap
    Adj   <- LayersAdj
INVARIANTS
    TypeOK
    CapacityRespected
    ValidLabelling
    SaturatedCutExists
    AnswerIsMaxFlow
    HeightBound
PROPERTIES
    Termination
CHECK_DEADLOCK FALSE
