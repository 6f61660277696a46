\* A ring of three slots and five frames: the publisher can come round to a slot
\* that is being copied.
SPECIFICATION FairSpec
CONSTANTS
    N = 3
    Parts = {p1, p2}
    MaxFrames = 5
INVARIANTS
    LoadIsWhole
    ConsumerUndisturbed
PROPERTIES
    LoadsInOrder
    CounterCatchesUp
