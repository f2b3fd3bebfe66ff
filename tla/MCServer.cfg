CONSTANTS
    h1 = h1
    h2 = h2
    l1 = l1
    l2 = l2
    Hash <- MCHash
    Skews <- MCSkews
    drop_timeout = 2
    Horizon = 4
    Infinity = 9
    MaxPackets = 2
    MaxError = 1
    MaxDelay = 1
    MaxSends = 2
    MaxForgeries = 1
    Link <- MCLink
    Troubles = {"dangling flow"}
SPECIFICATION ServerSpec
SYMMETRY MCSymmetry
INVARIANTS
    Conservation
    NeverBothPending
    Chronological
    NoFalseForgery
    NoFalseDrop
    NoCircularWait
PROPERTIES
    PromptForgeries
    JudgementIsFinal
