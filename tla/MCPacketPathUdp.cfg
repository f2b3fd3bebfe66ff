SPECIFICATION PathSpec
CONSTANTS
    Datagrams <- MCUdp
    Alices <- MCAlices
    Bobs <- MCBobs
    Frames <- MCFrames
    Tampers <- MCTampers
    MaxTampers = 0
INVARIANTS
    InnocentPacketsMatch
CHECK_DEADLOCK FALSE
