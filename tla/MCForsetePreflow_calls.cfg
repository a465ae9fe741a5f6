SPECIFICATION FairSpec
CONSTANTS
    Inputs <- SmallGraphs
    Calls = 2
    Links = 12
INVARIANTS
    TypeOK
    ListHoldsTheExcess
    MemoryIsReached
    AnswersAreMaxFlows
PROPERTIES
    EveryCallReturns
CHECK_DEADLOCK FALSE
