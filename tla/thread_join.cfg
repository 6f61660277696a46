SPECIFICATION FairSpec
CONSTANTS
    MaxCalls = 3
PROPERTIES
    JoinReturns
CHECK_DEADLOCK FALSE
