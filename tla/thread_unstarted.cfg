SPECIFICATION FairSpec
CONSTANTS
    MaxCalls = 3
PROPERTIES
    UnstartedJoinReturns
CHECK_DEADLOCK FALSE
