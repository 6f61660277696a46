----------------------------- MODULE ThreadBase -----------------------------
(***************************************************************************)
(* The life cycle of a worker thread, include/daoThreadBase.hpp: one       *)
(* controlling thread calls Spawn, Start, Stop, Exit and Join, the worker  *)
(* runs threadEntryPoint and internalThreadFunction.                       *)
(*                                                                         *)
(* m_stop and m_running are volatile flags read and written without a      *)
(* lock: one action per access.  m_start and m_start_waiting are only      *)
(* touched under m_start_mutex; a critical section is one action, and a    *)
(* worker in m_start_condition.wait goes on when m_start is true (every    *)
(* store of true to m_start is followed by notify_one before the unlock,   *)
(* any other wake-up finds m_start false and waits again).                 *)
(***************************************************************************)
EXTENDS Naturals

CONSTANT MaxCalls       \* bound: how many calls the controller makes

ASSUME MaxCallsAssumption == MaxCalls \in Nat

VARIABLES start, running, spawned, stop, startWaiting,  \* the m_ flags
          worker,      \* where the worker thread is
          ctl, then,   \* where the controller is, and where Exit returns to
          calls,       \* calls left
          asked,       \* history: Start has signalled since the last wait
          wanted,      \* history: the last of Start / Stop / Exit called was Start
          late         \* history: Body runs begun since it was not, up to 2

flags == <<start, running, spawned, stop, startWaiting>>
vars == <<flags, worker, ctl, then, calls, asked, wanted, late>>

Init ==
    /\ start = FALSE /\ running = FALSE /\ spawned = FALSE
    /\ stop = TRUE /\ startWaiting = FALSE
    /\ worker = "none"
    /\ ctl = "idle" /\ then = "idle"
    /\ calls = MaxCalls
    /\ asked = FALSE /\ wanted = FALSE /\ late = 0

-----------------------------------------------------------------------------
(***************************************************************************)
(* The controller.                                                         *)
(***************************************************************************)

Call(to) ==
    /\ ctl = "idle"
    /\ calls > 0
    /\ calls' = calls - 1
    /\ ctl' = to
    /\ UNCHANGED asked

Spawn ==
    /\ Call("idle")
    /\ IF spawned
       THEN UNCHANGED <<spawned, worker>>
       ELSE spawned' = TRUE /\ worker' = "spawned"
    /\ UNCHANGED <<start, running, stop, startWaiting, then, wanted, late>>

Start ==
    /\ Call("startStop")
    /\ running' = TRUE
    /\ wanted' = TRUE
    /\ late' = 0
    /\ UNCHANGED <<start, spawned, stop, startWaiting, worker, then>>

\* Mutant: Start forgets to clear m_stop.
StartKeepsStop ==
    /\ ctl = "startStop"
    /\ ctl' = "startSignal"
    /\ UNCHANGED <<flags, worker, then, calls, asked, wanted, late>>

StartClearStop ==
    /\ ctl = "startStop"
    /\ stop' = FALSE
    /\ ctl' = "startSignal"
    /\ UNCHANGED <<start, running, spawned, startWaiting, worker, then, calls,
                   asked, wanted, late>>

StartSignal ==
    /\ ctl = "startSignal"
    /\ start' = TRUE
    /\ asked' = TRUE
    /\ ctl' = "idle"
    /\ UNCHANGED <<running, spawned, stop, startWaiting, worker, then, calls,
                   wanted, late>>

\* The store to m_stop that Stop, Exit and Join share.
RaiseStop ==
    /\ stop' = TRUE
    /\ wanted' = FALSE
    /\ late' = IF wanted THEN 0 ELSE late
    /\ UNCHANGED <<start, running, spawned, startWaiting, worker>>

Stop ==
    /\ Call("idle")
    /\ RaiseStop
    /\ UNCHANGED then

Exit ==
    /\ Call("exitRunning")
    /\ RaiseStop
    /\ then' = "idle"

ExitClearRunning ==
    /\ ctl = "exitRunning"
    /\ running' = FALSE
    /\ ctl' = "exitSignal"
    /\ UNCHANGED <<start, spawned, stop, startWaiting, worker, then, calls,
                   asked, wanted, late>>


ExitSignal ==
    /\ ctl = "exitSignal"
    /\ start' = (start \/ startWaiting)
    /\ ctl' = then
    /\ UNCHANGED <<running, spawned, stop, startWaiting, worker, then, calls,
                   asked, wanted, late>>

\* Join of a thread that is joinable.
Join ==
    /\ Call("joinStop")
    /\ spawned
    /\ UNCHANGED <<flags, worker, then, wanted, late>>

\* if (!m_stop || m_running), the two reads.
JoinReadStop ==
    /\ ctl = "joinStop"
    /\ ctl' = IF stop THEN "joinRunning" ELSE "joinExit"
    /\ UNCHANGED <<flags, worker, then, calls, asked, wanted, late>>

JoinReadRunning ==
    /\ ctl = "joinRunning"
    /\ ctl' = IF running THEN "joinExit" ELSE "joining"
    /\ UNCHANGED <<flags, worker, then, calls, asked, wanted, late>>

\* Stop() and the first store of Exit(), the same store twice.
JoinExit ==
    /\ ctl = "joinExit"
    /\ RaiseStop
    /\ ctl' = "exitRunning"
    /\ then' = "joining"
    /\ UNCHANGED <<calls, asked>>

\* Mutant: Join forgets that the thread is gone.
JoinedStillSpawned ==
    /\ ctl = "joining"
    /\ worker = "exited"
    /\ worker' = "none"
    /\ ctl' = "idle"
    /\ then' = "idle"
    /\ UNCHANGED <<flags, calls, asked, wanted, late>>

Joined ==
    /\ ctl = "joining"
    /\ worker = "exited"
    /\ worker' = "none"
    /\ spawned' = FALSE
    /\ ctl' = "idle"
    /\ then' = "idle"
    /\ UNCHANGED <<start, running, stop, startWaiting, calls, asked, wanted, late>>

ControllerCall == Spawn \/ Start \/ Stop \/ Exit \/ Join

ControllerStep ==
    \/ StartClearStop \/ StartSignal
    \/ ExitClearRunning \/ ExitSignal
    \/ JoinReadStop \/ JoinReadRunning \/ JoinExit \/ Joined

-----------------------------------------------------------------------------
(***************************************************************************)
(* The worker.                                                             *)
(***************************************************************************)
ControllerFrame == UNCHANGED <<spawned, ctl, then, calls, wanted>>

WorkerFrame == ControllerFrame /\ UNCHANGED asked

Go(from, to) == worker = from /\ worker' = to

\* OnceOnSpawn and SIGNAL_THREAD_READY.
OnceOnSpawn ==
    /\ Go("spawned", "enter")
    /\ UNCHANGED <<start, running, stop, startWaiting, late>>
    /\ WorkerFrame

\* Takes m_start_mutex and waits.
EnterWait ==
    /\ Go("enter", "waiting")
    /\ startWaiting' = TRUE
    /\ UNCHANGED <<start, running, stop, late>>
    /\ WorkerFrame

\* Mutant: m_start_waiting stays set after the wait.
LeaveWaitStillWaiting ==
    /\ Go("waiting", "testStop")
    /\ start
    /\ start' = FALSE /\ asked' = FALSE
    /\ UNCHANGED <<running, stop, startWaiting, late>>
    /\ ControllerFrame

\* The wait is over; then OnceOnStart.
LeaveWait ==
    /\ Go("waiting", "testStop")
    /\ start
    /\ start' = FALSE /\ asked' = FALSE
    /\ startWaiting' = FALSE
    /\ UNCHANGED <<running, stop, late>>
    /\ ControllerFrame

\* Mutant: the loop only looks at m_running.
TestStopSkipped ==
    /\ Go("testStop", "testRunning")
    /\ UNCHANGED <<start, running, stop, startWaiting, late>>
    /\ WorkerFrame

\* while ((m_stop == false) && (m_running == true)), the two reads.
TestStop ==
    /\ Go("testStop", IF stop THEN "leave" ELSE "testRunning")
    /\ UNCHANGED <<start, running, stop, startWaiting, late>>
    /\ WorkerFrame

TestRunning ==
    /\ Go("testRunning", IF running THEN "body" ELSE "leave")
    /\ late' = IF running /\ ~wanted /\ late < 2 THEN late + 1 ELSE late
    /\ UNCHANGED <<start, running, stop, startWaiting>>
    /\ WorkerFrame

Body ==
    /\ Go("body", "testStop")
    /\ UNCHANGED <<start, running, stop, startWaiting, late>>
    /\ WorkerFrame

\* m_stop = true after the loop; then OnceOnStop.
LeaveLoop ==
    /\ Go("leave", "decide")
    /\ stop' = TRUE
    /\ UNCHANGED <<start, running, startWaiting, late>>
    /\ WorkerFrame

\* Mutant: the outer loop has no condition.
DecideForever ==
    /\ Go("decide", "enter")
    /\ UNCHANGED <<start, running, stop, startWaiting, late>>
    /\ WorkerFrame

\* while (m_running == true).
Decide ==
    /\ Go("decide", IF running THEN "enter" ELSE "ending")
    /\ UNCHANGED <<start, running, stop, startWaiting, late>>
    /\ WorkerFrame

\* m_running = false, then OnceOnExit and the end of the thread.
OnceOnExit ==
    /\ Go("ending", "exited")
    /\ running' = FALSE
    /\ UNCHANGED <<start, stop, startWaiting, late>>
    /\ WorkerFrame

WorkerStep ==
    \/ OnceOnSpawn \/ EnterWait \/ LeaveWait \/ TestStop \/ TestRunning
    \/ Body \/ LeaveLoop \/ Decide \/ OnceOnExit

\* The worker waits for a start that nobody has signalled.
Parked == worker = "waiting" /\ ~start

\* The controller has made its calls and the worker has nothing to do.
Done ==
    /\ ctl = "idle" /\ calls = 0
    /\ worker \in {"none", "exited"} \/ Parked
    /\ UNCHANGED vars

Next == ControllerCall \/ ControllerStep \/ WorkerStep \/ Done

Spec == Init /\ [][Next]_vars

\* Body and the hooks return, and neither thread is starved; the controller is
\* free not to call.
Fairness == WF_vars(WorkerStep) /\ WF_vars(ControllerStep)

FairSpec == Spec /\ Fairness
-----------------------------------------------------------------------------
(***************************************************************************)
(* Properties.                                                             *)
(***************************************************************************)
InLoop == {"testStop", "testRunning", "body", "leave", "decide"}

WorkerAt == {"none", "spawned", "enter", "waiting", "ending", "exited"} \cup InLoop

Joining == {"joinStop", "joinRunning", "joinExit", "joining"}

CtlAt == {"idle", "startStop", "startSignal", "exitRunning", "exitSignal"} \cup Joining

\* The types of the flags and of the places of the two threads; m_spawned is
\* true exactly while a thread exists, so Spawn never assigns to a joinable
\* std::thread and Join never joins one that is not.
TypeOK ==
    /\ start \in BOOLEAN /\ running \in BOOLEAN /\ spawned \in BOOLEAN
    /\ stop \in BOOLEAN /\ startWaiting \in BOOLEAN
    /\ worker \in WorkerAt
    /\ ctl \in CtlAt
    /\ then \in {"idle", "joining"}
    /\ calls \in 0 .. MaxCalls
    /\ asked \in BOOLEAN
    /\ wanted \in BOOLEAN
    /\ late \in 0 .. 2
    /\ spawned <=> worker # "none"

\* Once Stop, Exit or Join has set m_stop, at most one more run of Body begins
\* (the one whose loop test had already read m_stop) until the next Start.
StopIsObeyed == ~wanted => stop /\ late <= 1

\* Exit leaves no start behind: a start that no Start has signalled is there only
\* while the worker waits for it, so it cannot end the next life of the thread
\* at once.
ExitLeavesNoStart == start /\ ~asked => worker = "waiting"

\* A worker that is past its wait when m_running is cleared leaves for good:
\* it does not go back to wait for a start.
ExitEndsRun ==
    ~running /\ worker \in InLoop ~> worker = "exited" \/ running

\* Join returns if it finds the worker settled: at its end, or waiting for a start
\* that nobody has signalled, as after the sleeps of test/test_threads.cpp.
\* Left out is a worker that was never started: Join does not call Exit then
\* (UnstartedJoinReturns).
NeverStarted == stop /\ ~running


\* A Start of a spawned thread is not lost: the worker runs Body or is stopped
\* before, unless the Start falls into the window in which it is overtaken. A
\* worker that has seen the old m_stop leaves its loop and stores m_stop over the
\* Start; a worker at its end has no more runs.
Overtaken ==
    \/ ctl # "startStop" /\ ~stop /\ worker = "leave"
    \/ worker \in {"ending", "exited"}

StartRuns ==
    ctl = "startStop" /\ spawned ~> worker = "body" \/ ~wanted \/ Overtaken

\* Join, having told the worker to exit, returns when the worker has ended
\* ("Join(): Waits for the thread to finish execution").
JoinReturns == ctl = "joinExit" ~> ctl = "idle"

\* Join of a worker that waits for a start returns, also of one that was never
\* started ("Join(): Waits for the thread to finish execution").
UnstartedJoinReturns == ctl = "joinStop" /\ Parked ~> ctl = "idle"
=============================================================================
