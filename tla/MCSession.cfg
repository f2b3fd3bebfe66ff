SPECIFICATION SessionSpec
CONSTANTS
    PACKETS = 1
    MAX_PACKET_SIZE = 1600
    MaxRead = 1514
    Captured = 1
    Sizes <- MCSizes
    Modes <- MCModes
    Troublesome <- MCTroublesome
INVARIANTS
    NoPacketsLeft
    KernelIsRestored
PROPERTIES
    QuitEndsClient
    FailureIsNoticed
CHECK_DEADLOCK FALSE
