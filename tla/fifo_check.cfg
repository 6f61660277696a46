SPECIFICATION FairSpec
CONSTANTS
    N = 1
    MaxFrames = 3
    Readers = {r1}
    Parts = {p1, p2}
INVARIANTS
    ApprovedCopyIsNotTorn
