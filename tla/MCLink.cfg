CONSTANTS
    NoNumber = NoNumber
    Nobody = Nobody
    AliceSends = {"error-cont"}
    PingerSends = {"ping"}
    timeout_period = 1
    client_contact_period = 0
    MaxNumber = 2
    Horizon = 4
SPECIFICATION Spec
CHECK_DEADLOCK FALSE
INVARIANTS
    AnswersAreExpected
    NumbersInOrder
    OverdueAreNoticed
PROPERTIES
    PartingIsMutual
