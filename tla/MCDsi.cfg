CONSTANTS
    p1 = p1
    Edge = "edge"
    Dest = "dest"
    Nowhere = "nowhere"
    NUM_PACKETS = 5
    Pair <- OnePair
    Scenarios <- Balanced
SPECIFICATION Spec
CONSTRAINT Bounded
INVARIANT RoutesDistinct
INVARIANT BudgetConserved
INVARIANT RouteAvailable
INVARIANT FutureSettles
INVARIANT NothingMissing
PROPERTY AvoidsBrokenLink
CHECK_DEADLOCK FALSE
