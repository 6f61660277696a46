----------------------------- MODULE Component -----------------------------
(***************************************************************************)
(* A component at work: include/daoComponent.hpp, daoComponentBase.hpp and *)
(* daoComponentZmqThread.hpp.  The ZeroMQ thread takes one request at a    *)
(* time, runs the method it names to its end and replies.  A method posts  *)
(* an event to the state machine; Enable, Disable and Recover then spawn   *)
(* or join the update thread, whatever became of the event.  A real-time   *)
(* thread of the component reports failures on its own.  With autoRun the  *)
(* constructor calls Init, Enable and Run itself, before the first request *)
(* comes; the owner destroys the component between two requests.           *)
(*                                                                         *)
(* Composes StateMachine (M) and, for the update thread, ThreadBase (U).   *)
(***************************************************************************)
EXTENDS Naturals, Sequences

CONSTANTS Zmq, Rt,      \* the two callers of postEvent
          Free,         \* see StateMachine
          MaxCalls      \* bound: see ThreadBase

ASSUME CallersAssumption == Zmq # Rt /\ Free \notin {Zmq, Rt}
ASSUME MaxCallsAssumption == MaxCalls \in Nat

VARIABLES state, guard, at, pending,
          start, running, spawned, stop, startWaiting, worker, ctl, then,
          calls, asked, wanted, late,
          phase,        \* where the ZeroMQ thread is in RestartableThread
          request,      \* the event that the request in hand stands for
          auto,         \* the events that the constructor has yet to post
          prog,         \* calls to the update thread that are left to make
          last,         \* the last Enable, Disable or Recover that was answered
          refused       \* some request was refused or dropped so far

M == INSTANCE StateMachine WITH Callers <- {Zmq, Rt}
U == INSTANCE ThreadBase

machine == <<state, guard, at, pending>>
update == <<start, running, spawned, stop, startWaiting, worker, ctl, then,
            calls, asked, wanted, late>>
server == <<phase, request, auto, prog, last, refused>>
vars == <<machine, update, server>>

None == "none"

Init ==
    /\ M!Init
    /\ U!Init
    /\ phase = "recv" /\ request = None /\ prog = <<>>
    /\ auto \in {<<>>, <<"Init", "Enable", "Run">>}
    /\ last = None /\ refused = FALSE

-----------------------------------------------------------------------------
(***************************************************************************)
(* The ZeroMQ thread.                                                      *)
(***************************************************************************)

\* The longest method makes LongestProg calls to the update thread.
LongestProg == 3

Call(e) ==
    /\ phase = "recv"
    /\ calls >= LongestProg
    /\ phase' = "post"
    /\ request' = e
    /\ UNCHANGED <<machine, update, prog, last, refused>>

\* The constructor with autoRun.
AutoRun == auto # <<>> /\ Call(Head(auto)) /\ auto' = Tail(auto)

\* zmq_recv delivers an EXEC command whose payload names event e.
Receive(e) == auto = <<>> /\ Call(e) /\ UNCHANGED auto

\* Any other command: PING, STATE, SET_LOG_LEVEL, OTHER, an unknown one, or an
\* EXEC with an unknown payload.  It is answered without a call to the component.
ReceiveQuery ==
    /\ phase = "recv" /\ auto = <<>>
    /\ phase' = "threads"
    /\ request' = "query"
    /\ UNCHANGED <<machine, update, auto, prog, last, refused>>

\* A message of no bytes, which is what a CommandMessage with nothing set becomes,
\* gets no reply; a REP socket that owes a reply receives nothing more.
ReceiveEmpty ==
    /\ phase = "recv" /\ auto = <<>>
    /\ phase' = "deaf"
    /\ UNCHANGED <<machine, update, request, auto, prog, last, refused>>

\* The method's postEvent.
Dispatch ==
    /\ phase = "post"
    /\ M!Post(Zmq, request)
    /\ phase' = "carry"
    /\ refused' = (refused \/ at'[Zmq] # "exit")
    /\ UNCHANGED <<update, request, auto, prog, last>>

PostEvent ==
    /\ phase = "carry"
    /\ M!Carry(Zmq)
    /\ UNCHANGED <<update, server>>

\* Mutant: the update thread is left waiting.
PostEnableNoStart == <<"Spawn">>

PostEnable == <<"Spawn", "Start">>

\* Mutant: the update thread is only stopped, not joined.
PostDisableStops == <<"StopIfRunning">>

PostDisable == <<"StopIfRunning", "EndIfSpawned">>

\* Mutant: Disable leaves the update thread alone.
AfterEventNoDisable(e) ==
    CASE e = "Enable" -> PostEnable
      [] e = "Recover" -> PostDisable
      [] OTHER -> <<>>

\* What Component's methods call after postEvent.
AfterEvent(e) ==
    CASE e = "Enable" -> PostEnable
      [] e \in {"Disable", "Recover"} -> PostDisable
      [] OTHER -> <<>>

Continue ==
    /\ phase = "carry"
    /\ M!Return(Zmq)
    /\ phase' = "threads"
    /\ prog' = AfterEvent(request)
    /\ UNCHANGED <<update, request, auto, last, refused>>

\* The next call to the update thread is op, made by action A.
Do(op, A, rest) ==
    /\ phase = "threads" /\ ctl = "idle"
    /\ prog # <<>> /\ Head(prog) = op
    /\ A
    /\ prog' = rest
    /\ UNCHANGED <<machine, phase, request, auto, last, refused>>

SpawnUpdate == Do("Spawn", U!Spawn, Tail(prog))

\* Mutant: Start waits until the thread is ready for it.
StartUpdateWhenWaiting == Do("Start", worker = "waiting" /\ U!Start, Tail(prog))

StartUpdate == Do("Start", U!Start, Tail(prog))

StopIfRunning ==
    Do("StopIfRunning", IF running THEN U!Stop ELSE UNCHANGED update, Tail(prog))

EndIfSpawned ==
    IF spawned THEN Do("EndIfSpawned", U!Exit, <<"Join">>)
               ELSE Do("EndIfSpawned", UNCHANGED update, <<>>)

JoinUpdate == Do("Join", U!Join, Tail(prog))

ThreadCall == SpawnUpdate \/ StartUpdate \/ StopIfRunning \/ EndIfSpawned \/ JoinUpdate

\* construct_reply and zmq_send; the constructor just goes on.
Reply ==
    /\ phase = "threads" /\ prog = <<>> /\ ctl = "idle"
    /\ phase' = "recv"
    /\ request' = None
    /\ last' = IF AfterEvent(request) = <<>> THEN last ELSE request
    /\ UNCHANGED <<machine, update, auto, prog, refused>>

ServerStep == AutoRun \/ Dispatch \/ PostEvent \/ Continue \/ ThreadCall \/ Reply

-----------------------------------------------------------------------------
\* ~ComponentBase: the ZeroMQ thread is joined and everything is destroyed.  If
\* the update thread still exists that ends the process: its std::thread is
\* joinable.
Destroy ==
    /\ phase \in {"recv", "deaf"} /\ auto = <<>>
    /\ phase' = "gone"
    /\ UNCHANGED <<machine, update, request, auto, prog, last, refused>>

Exists == phase # "gone"

\* The update thread, and the inside of the calls made to it.
WorkerStep == Exists /\ U!WorkerStep /\ UNCHANGED <<machine, server>>

ControllerStep == Exists /\ U!ControllerStep /\ UNCHANGED <<machine, server>>

\* OnFailure() called by the real-time thread.
ReportFailure == Exists /\ M!Post(Rt, "OnFailure") /\ UNCHANGED <<update, server>>

FailureStep == Exists /\ (M!Carry(Rt) \/ M!Return(Rt)) /\ UNCHANGED <<update, server>>

\* The bound on calls is reached.
Done ==
    /\ phase \in {"recv", "deaf", "gone"} /\ calls < LongestProg
    /\ UNCHANGED vars

Next ==
    \/ \E e \in M!Events : Receive(e)
    \/ ReceiveQuery
    \/ ReceiveEmpty
    \/ ServerStep
    \/ Destroy
    \/ WorkerStep
    \/ ControllerStep
    \/ ReportFailure
    \/ FailureStep
    \/ Done

Spec == Init /\ [][Next]_vars

\* Threads that can run do; requests and failures come when they come.
FairSpec ==
    /\ Spec
    /\ WF_vars(ServerStep)
    /\ WF_vars(WorkerStep)
    /\ WF_vars(ControllerStep)
    /\ WF_vars(FailureStep)
-----------------------------------------------------------------------------
(***************************************************************************)
(* Properties.                                                             *)
(***************************************************************************)

Between == {"recv", "deaf", "gone"}

\* Once Disable or Recover is answered the update thread is gone, and once
\* Enable is answered there is one, also when the event itself was refused,
\* dropped, or ended in Error.
ThreadFollowsLast ==
    phase \in Between =>
        /\ last = "Enable" => worker # "none"
        /\ last \in {"Disable", "Recover", None} => worker = "none"

\* If every request so far was permitted, no update thread exists between
\* requests in the states Off and Standby, so that is where a component can be
\* destroyed.
UpdatesOnlyWhenEnabled ==
    phase \in Between /\ ~refused /\ worker # "none"
        => state \in {"Idle", "Running", "Error"}

\* Requests that do not join the update thread are answered, whatever the
\* update thread and the failure reports do meanwhile.
RequestAnswered ==
    phase \notin Between /\ request \notin {"Disable", "Recover"} ~> phase \in Between

\* As long as every request was permitted, the update thread that Enable has
\* started runs its Body, unless it is disabled before.
EnableRuns ==
    phase = "recv" /\ last = "Enable" /\ ~refused
        ~> \/ worker = "body" \/ refused \/ phase = "gone"
           \/ last # "Enable" \/ request \in {"Disable", "Recover"}

\* "if the transition is not permitted, then the request is simply ignored":
\* no update thread between requests in the states Off and Standby.
RefusedIsIgnored ==
    phase = "recv" /\ worker # "none" => state \in {"Idle", "Running", "Error"}
=============================================================================
