\* A Join can wait for ever (runs thread_join, thread_unstarted), so a stop of the
\* system is not an error here.
SPECIFICATION FairSpec
CONSTANTS
    MaxCalls = 8
INVARIANTS
    TypeOK
    StopIsObeyed
    ExitLeavesNoStart
PROPERTIES
    ExitEndsRun
    
    StartRuns
CHECK_DEADLOCK FALSE
