\* Enough calls for Enable, Disable, Enable, Recover or Disable.  A Join that
\* never returns (run thread_join) stops the system, so deadlock is not checked.
SPECIFICATION FairSpec
CONSTANTS
    Zmq = zmq
    Rt = rt
    Free = Free
    MaxCalls = 9
INVARIANTS
    ThreadFollowsLast
    UpdatesOnlyWhenEnabled
PROPERTIES
    RequestAnswered
    EnableRuns
CHECK_DEADLOCK FALSE
