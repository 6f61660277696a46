-------------------------- MODULE ThreadBaseProofs --------------------------
(***************************************************************************)
(* The safety of a worker thread's life cycle, for any number of calls at  *)
(* any time: after Stop at most one more Body begins, Exit leaves no start *)
(* behind, and Spawn and Join never meet the wrong kind of thread.         *)
(***************************************************************************)
EXTENDS ThreadBase, TLAPS

\* Why StopIsObeyed is kept: m_stop is only cleared inside Start, and a worker
\* that has begun its late Body does not get past the test of m_stop again.
StopInv ==
    /\ ~wanted => stop /\ late <= 1 /\ (late = 0 \/ worker # "testRunning")
    /\ ctl \in {"startStop", "startSignal"} => wanted

\* Why ExitLeavesNoStart is kept: m_start_waiting is set exactly while the worker
\* is inside the wait, so Exit adds a start only where it will be taken, and the
\* worker takes it together with m_start_waiting.
WaitingIsVisible == startWaiting <=> worker = "waiting"

\* The inductive invariant.
ThreadInv == TypeOK /\ StopInv /\ WaitingIsVisible /\ ExitLeavesNoStart

\* The constructor of ThreadBase establishes it.
LEMMA InitThread == Init => ThreadInv
<1> SUFFICES ASSUME Init PROVE ThreadInv
    OBVIOUS
<1>1. calls \in 0 .. MaxCalls /\ late \in 0 .. 2 /\ late <= 1
    BY MaxCallsAssumption DEF Init
<1>2. TypeOK
    BY <1>1 DEF Init, TypeOK, WorkerAt, CtlAt
<1>3. StopInv /\ WaitingIsVisible /\ ExitLeavesNoStart
    BY <1>1 DEF Init, StopInv, WaitingIsVisible, ExitLeavesNoStart
<1> QED
    BY <1>2, <1>3 DEF ThreadInv

\* The store to m_stop keeps what StopIsObeyed counts.
LEMMA RaiseStopKeeps ==
    ASSUME ThreadInv, RaiseStop
    PROVE  /\ late' \in 0 .. 2 /\ late' <= 1
           /\ late' = 0 \/ worker' # "testRunning"
<1>1. CASE wanted
    BY <1>1 DEF RaiseStop
<1>2. CASE ~wanted
    BY <1>2 DEF RaiseStop, ThreadInv, TypeOK, StopInv
<1> QED
    BY <1>1, <1>2

\* The calls of the controller, and the steps inside them, keep it.
LEMMA ControllerKeeps ==
    ASSUME ThreadInv, ControllerCall \/ ControllerStep
    PROVE  ThreadInv'
<1> USE MaxCallsAssumption
    DEF ThreadInv, TypeOK, StopInv, WaitingIsVisible, ExitLeavesNoStart, WorkerAt, CtlAt,
        Joining, InLoop, Call, flags
<1>1. CASE Spawn
  <2>1. CASE spawned
      BY <1>1, <2>1 DEF Spawn
  <2>2. CASE ~spawned
      BY <1>1, <2>2 DEF Spawn
  <2> QED
      BY <2>1, <2>2
<1>2. CASE Start
    BY <1>2 DEF Start
<1>3. CASE Stop
  <2>1. late' \in 0 .. 2 /\ late' <= 1 /\ (late' = 0 \/ worker' # "testRunning")
      BY <1>3, RaiseStopKeeps DEF Stop
  <2>2. calls' \in 0 .. MaxCalls
      BY <1>3 DEF Stop
  <2>3. TypeOK'
      BY <1>3, <2>1, <2>2 DEF Stop, RaiseStop
  <2>4. StopInv' /\ WaitingIsVisible' /\ ExitLeavesNoStart'
      BY <1>3, <2>1 DEF Stop, RaiseStop
  <2> QED
      BY <2>3, <2>4
<1>4. CASE Exit
  <2>1. late' \in 0 .. 2 /\ late' <= 1 /\ (late' = 0 \/ worker' # "testRunning")
      BY <1>4, RaiseStopKeeps DEF Exit
  <2>2. calls' \in 0 .. MaxCalls
      BY <1>4 DEF Exit
  <2>3. TypeOK'
      BY <1>4, <2>1, <2>2 DEF Exit, RaiseStop
  <2>4. StopInv' /\ WaitingIsVisible' /\ ExitLeavesNoStart'
      BY <1>4, <2>1 DEF Exit, RaiseStop
  <2> QED
      BY <2>3, <2>4
<1>5. CASE Join
    BY <1>5 DEF Join
<1>6. CASE StartClearStop
    BY <1>6 DEF StartClearStop
<1>7. CASE StartSignal
    BY <1>7 DEF StartSignal
<1>8. CASE ExitClearRunning
    BY <1>8 DEF ExitClearRunning
<1>9. CASE ExitSignal
    BY <1>9 DEF ExitSignal
<1>10. CASE JoinReadStop
    BY <1>10 DEF JoinReadStop
<1>11. CASE JoinReadRunning
    BY <1>11 DEF JoinReadRunning
<1>12. CASE JoinExit
  <2>1. late' \in 0 .. 2 /\ late' <= 1 /\ (late' = 0 \/ worker' # "testRunning")
      BY <1>12, RaiseStopKeeps DEF JoinExit
  <2> QED
      BY <1>12, <2>1 DEF JoinExit, RaiseStop
<1>13. CASE Joined
    BY <1>13 DEF Joined
<1> QED
    BY <1>1, <1>2, <1>3, <1>4, <1>5, <1>6, <1>7, <1>8, <1>9, <1>10, <1>11, <1>12, <1>13
    DEF ControllerCall, ControllerStep

\* The steps of threadEntryPoint and internalThreadFunction keep it.
LEMMA WorkerKeeps ==
    ASSUME ThreadInv, WorkerStep
    PROVE  ThreadInv'
<1> USE DEF ThreadInv, TypeOK, StopInv, WaitingIsVisible, ExitLeavesNoStart, WorkerAt, CtlAt,
            Joining, InLoop, Go, ControllerFrame, WorkerFrame
<1>1. CASE OnceOnSpawn
    BY <1>1 DEF OnceOnSpawn
<1>2. CASE EnterWait
    BY <1>2 DEF EnterWait
<1>3. CASE LeaveWait
    BY <1>3 DEF LeaveWait
<1>4. CASE TestStop
    BY <1>4 DEF TestStop
<1>5. CASE TestRunning
    BY <1>5 DEF TestRunning
<1>6. CASE Body
    BY <1>6 DEF Body
<1>7. CASE LeaveLoop
    BY <1>7 DEF LeaveLoop
<1>8. CASE Decide
    BY <1>8 DEF Decide
<1>9. CASE OnceOnExit
    BY <1>9 DEF OnceOnExit
<1> QED
    BY <1>1, <1>2, <1>3, <1>4, <1>5, <1>6, <1>7, <1>8, <1>9 DEF WorkerStep

\* The inductive invariant holds in every reachable state.
THEOREM ThreadCorrect == Spec => []ThreadInv
<1>1. ASSUME ThreadInv, [Next]_vars PROVE ThreadInv'
  <2>1. CASE ControllerCall \/ ControllerStep
      BY <1>1, <2>1, ControllerKeeps
  <2>2. CASE WorkerStep
      BY <1>1, <2>2, WorkerKeeps
  <2>3. CASE Done \/ UNCHANGED vars
      BY <1>1, <2>3
      DEF Done, vars, flags, ThreadInv, TypeOK, StopInv, WaitingIsVisible, ExitLeavesNoStart
  <2> QED
      BY <1>1, <2>1, <2>2, <2>3 DEF Next
<1> QED
    BY InitThread, <1>1, PTL DEF Spec

\* m_spawned is true exactly while a thread exists, in every reachable state.
THEOREM ThreadTypes == Spec => []TypeOK
<1>1. ThreadInv => TypeOK
    BY DEF ThreadInv
<1> QED
    BY ThreadCorrect, <1>1, PTL

\* After Stop, Exit or Join at most one more Body begins before the next Start.
THEOREM StopObeyed == Spec => []StopIsObeyed
<1>1. ThreadInv => StopIsObeyed
    BY DEF ThreadInv, StopInv, StopIsObeyed
<1> QED
    BY ThreadCorrect, <1>1, PTL

\* Exit leaves no start behind for the next life of the thread.
THEOREM NoStartLeft == Spec => []ExitLeavesNoStart
<1>1. ThreadInv => ExitLeavesNoStart
    BY DEF ThreadInv
<1> QED
    BY ThreadCorrect, <1>1, PTL
=============================================================================
