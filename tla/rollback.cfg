CONSTANTS
    ConfigKeys = {k1, k2}
    Workers = {w1, w2}
    Percents = {20, 100}
    Null = Null
    MaxRows = 3
SPECIFICATION Spec
SYMMETRY Symmetry
CHECK_DEADLOCK FALSE
INVARIANT TakenBackForGood
