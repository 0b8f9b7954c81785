CONSTANTS
    Texts = {a, b}
    Creations <- MCCreations
    Updates <- MCUpdates
    Workers = {w1, w2}
    Null = Null
    MaxProducts = 2
SPECIFICATION Spec
SYMMETRY Symmetry
CHECK_DEADLOCK FALSE
INVARIANT ShownIsSold
PROPERTIES UpdatesKeepApart WithdrawnNotSold
