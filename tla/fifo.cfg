\* A ring of three slots, more than two laps, one reader: readers do not
\* change shared memory, so a second one adds no behaviour to the first.
SPECIFICATION FairSpec
CONSTANTS
    N = 3
    MaxFrames = 7
    Readers = {r1}
    Parts = {p1, p2}
INVARIANTS
    TypeOK
    HistoryWindow
    RetainsLastFrames
    TailOnTrack
    ApprovedCopyIsWhole
    SleeperHasNewest
    SpinBringsNewer
    HistoryItemIsRight
PROPERTIES
    HistorySpec
    NewerUnlessUnstamped
    WaitForNextReturns
    
