CONSTANTS
    Orders = {o1}
    Workers = {w1, w2}
    Keys = {k1, k2}
    Prices = {0, 1, 2}
    Amounts = {0, 1, 2}
    Null = Null
    ExpiryAge = 1
    WindowAge = 2
    MaxClock = 3
    MaxCollected = 4
    MaxReturned = 1
SPECIFICATION Spec
SYMMETRY Symmetry
CHECK_DEADLOCK FALSE
INVARIANTS LedgerBalanced StatusMatchesPaid RefundCeiling PaidIsCollected NoEarlyVoid
PROPERTIES VoidIsFinal ImplementsLedger RefundOncePerKey
