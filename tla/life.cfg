\* Three creations of a memory of three slots and two semaphores, five frames in
\* each life: a client can be a lap behind, and hold the tail of an earlier life.
\* The system rests when the last owner is gone and no client is left.
SPECIFICATION FairSpec
CONSTANTS
    N = 3
    Clients = {c1}
    NBsem = 2
    MaxLives = 3
    MaxFrames = 5
INVARIANTS
    QuietOpenIsComplete
    RacingOpenSeesDepth
    OwnerReachesClients
PROPERTIES
    ReaderCatchesUp
CHECK_DEADLOCK FALSE
