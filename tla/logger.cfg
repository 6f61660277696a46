\* Two calls from each of two threads, and a drain of two messages in the place
\* of ten: the backlog at the end can be longer than the drain.  The system ends
\* when the logger is closed.
SPECIFICATION FairSpec
CONSTANTS
    Producers = {p1, p2}
    Levels = {0, 1}
    INFO = 1
    MaxAttempts = 2
    MaxMessages = 2
INVARIANTS
    LogIsFaithful
    LossIsBounded
    CloseIsBounded
PROPERTIES
    QueuedIsHandled
    CloseReturns
CHECK_DEADLOCK FALSE
