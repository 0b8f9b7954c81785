CONSTANTS
    Orders = {o1}
    Workers = {w1, w2}
    Keys = {k1, k2}
    Prices = {2}
    Amounts = {1, 2}
    Null = Null
    ExpiryAge = 1
    WindowAge = 2
    MaxClock = 2
    MaxCollected = 4
    MaxReturned = 0
SPECIFICATION Spec
SYMMETRY Symmetry
CHECK_DEADLOCK FALSE
INVARIANT OverpaymentPrevented
