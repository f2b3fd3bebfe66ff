CONSTANTS
    h1 = h1
    h2 = h2
    Hash <- MCHash
    Dispersion <- MCDispersion
    clock_safety_margin = 0
    drop_timeout = 1
    dangling_timeout = 0
    Horizon = 2
    Infinity = 9
    MaxPackets = 2
    MaxSrcLinks = 2
    MaxDestLinks = 1
SPECIFICATION Spec
SYMMETRY MCSymmetry
INVARIANTS
    IndexMatchesBatches
PROPERTIES
    ImplementsLedger
CHECK_DEADLOCK FALSE
