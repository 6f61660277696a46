SPECIFICATION FairSpec
CONSTANTS
    Zmq = zmq
    Rt = rt
    Free = Free
    MaxCalls = 5
INVARIANTS
    RefusedIsIgnored
CHECK_DEADLOCK FALSE
