CONSTANTS
    p = p
    q = q
    Products = {p, q}
    UnitPrice <- MCUnitPrice
    Rules <- MCRules
    Baskets <- MCBaskets
    OrderDiscounts = {0, 14, 25}
    Null = Null
    MaxRules = 2
SPECIFICATION Spec
CHECK_DEADLOCK FALSE
INVARIANTS TypeOK BreakdownAddsUp
PROPERTIES PriorityIrrelevant LimitSeesThroughSplits SplitNeverPays
