SPECIFICATION Spec
CONSTANTS
    Callers = {c1, c2}
    Targets = {t1, t2}
    MaxAsked = 4
    Keys = {k1, k2}
    Requests = {r1, r2}
    XBins = 2
    Second = 2
    SaveWindow = 6
    Bounds <- MCBounds
INVARIANTS
    FlowsAreShown
    GraphIsTrue
PROPERTIES
    TargetsAreTraced
CHECK_DEADLOCK FALSE
