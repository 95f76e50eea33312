\* Three threads, one parse each of any of the three tokens, and at most one panic.
SPECIFICATION FairSpec
CONSTANTS
    t1 = t1
    t2 = t2
    t3 = t3
    Thread = {t1, t2, t3}
    Nobody = Nobody
    Pool <- MCPool
    Item <- MCItem
    Plan <- MCPlan
    MaxParses = 1
    MaxPanics = 1
INVARIANTS TypeOK Canonical LeakBound
PROPERTIES ParseEnds ImplementsInternSpec
CHECK_DEADLOCK FALSE
