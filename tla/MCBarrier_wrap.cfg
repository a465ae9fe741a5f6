SPECIFICATION FairSpec
CONSTANTS
    T = 4
    PhaseMod = 2
    Rounds = 5
INVARIANTS
    BTypeOK
    NobodyPassesEarly
    OneSerialPerRound
PROPERTIES
    EverybodyGetsThrough
