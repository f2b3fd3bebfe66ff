CONSTANTS
    a1 = a1
    a2 = a2
    b1 = b1
    m1 = m1
    Alice <- MCAlice
    Bob <- MCBob
    MTuple <- MCMTuple
    Id <- MCId
    MaxRecs = 3
    MaxFlows = 3
    NoRec = NoRec
    Ignored = Ignored
    Absent = Absent
SPECIFICATION Spec
PROPERTIES
    RemovesOwn
CHECK_DEADLOCK FALSE
