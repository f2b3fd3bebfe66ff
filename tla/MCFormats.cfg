SPECIFICATION FormatsSpec
CONSTANTS
    Messages <- MCMessages
    Datagrams <- MCDatagrams
    Alices <- MCAlices
    Bobs <- MCBobs
    Frames <- MCFrames
    Tampers <- MCTampers
    MaxTampers = 2
    PACKETS = 2
    MAX_PACKET_SIZE = 1600
    MaxRead = 1514
    Captured = 5
    Sizes <- MCSizes
INVARIANTS
    ReadsWhatWasWritten
    InnocentPacketsMatch
    TamperingShows
    ReportsAreExact
PROPERTIES
    ImplementsQueue
CHECK_DEADLOCK FALSE
