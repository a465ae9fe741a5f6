SPECIFICATION Spec
CONSTANTS
    Thread  = {t1, t2, t3}
    Value   = {v1, v2}
    Cell    = {c1, c2, c3, c4}
    Null    = Null
    Nothing = Nothing
SYMMETRY Alike
INVARIANTS
    TypeOK
    NoUseAfterFree
PROPERTIES
    ImplementsFifo
