\* The thread that answers commands, the thread that constructs the component
\* with autoRun, and a worker that reports a failure.
SPECIFICATION FairSpec
CONSTANTS
    Callers = {zmq, owner, worker}
    Free = Free
INVARIANTS
    TypeOK
    GuardIsHeld
    HooksSeeStartState
PROPERTIES
    LegalTransitions
    GuardIsReleased
