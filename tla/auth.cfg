CONSTANTS
    Users = {alice}
    Workers = {w1, w2}
    Null = Null
    MaxAttempts = 2
    LockTime = 1
    AccessTime = 1
    RefreshTime = 2
    MaxClock = 2
    MaxTokens = 3
    MaxFailures = 3
SPECIFICATION Spec
SYMMETRY Symmetry
CHECK_DEADLOCK FALSE
INVARIANTS Lineage LockedForCause OneLivePerLogin FailuresCounted SignedOutStaysOut
PROPERTIES LockStands ImplementsLogins
