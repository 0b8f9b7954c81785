CONSTANTS
    ConfigKeys = {k1, k2}
    Workers = {w1, w2}
    Percents = {20, 100}
    MaxRows = 3
    Features = {f}
    Ttls = {1, 2}
    Objects = {o}
    Origins <- MCOrigins
    Days = {d}
    Null = Null
    MaxClock = 3
    MaxValues = 3
SPECIFICATION MCSpec
SYMMETRY Symmetry
CHECK_DEADLOCK FALSE
INVARIANTS ChainDescends InForce MismatchMeansExpired CountedIsWindowed
PROPERTY ImplementsVersions
