CONSTANTS
    i1 = i1
    i2 = i2
    Ip <- MCIp
    MaxSessions = 3
SPECIFICATION Spec
INVARIANTS
    MutualUnlessTogether
    NoPhantoms
PROPERTIES
    EventuallyMutual
CHECK_DEADLOCK FALSE
