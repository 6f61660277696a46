SPECIFICATION FairSpec
CONSTANTS
    N = 2
    MaxFrames = 3
    Readers = {r1}
    Parts = {p1, p2}
PROPERTIES
    NextIsNewer
