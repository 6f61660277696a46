-------------------------- MODULE ComponentProofs --------------------------
(***************************************************************************)
(* Component is right for any number of requests: the update thread exists *)
(* between requests exactly when the last Enable, Disable or Recover was   *)
(* Enable, and as long as every request was permitted it only exists where *)
(* the state machine says so.  The proofs use the invariants of the state  *)
(* machine and of the update thread by instantiating their proofs.         *)
(***************************************************************************)
EXTENDS Component, TLAPS

MP == INSTANCE StateMachineProofs WITH Callers <- {Zmq, Rt}
UP == INSTANCE ThreadBaseProofs

ThreadRequests == {"Enable", "Disable", "Recover"}

\* The types of the ZeroMQ thread's own state.
ServerTypes ==
    /\ phase \in {"recv", "deaf", "gone", "post", "carry", "threads"}
    /\ phase \in {"post", "carry"} => request \in MP!Events
    /\ phase = "threads" => request \in MP!Events \cup {"query"}
    /\ auto \in Seq({"Init", "Enable", "Run"})
    /\ last \in ThreadRequests \cup {None}
    /\ refused \in BOOLEAN

\* The update thread is as the last answered request left it.
Followed == worker # "none" <=> last = "Enable"

\* How far the calls that follow a postEvent have come, and what that says of
\* the update thread.
EnableProgress ==
    \/ prog = PostEnable /\ ctl = "idle" /\ Followed
    \/ prog = <<"Start">> /\ ctl = "idle" /\ worker # "none"
    \/ prog = <<>> /\ ctl \in {"idle", "startStop", "startSignal"} /\ worker # "none"

DisableProgress ==
    \/ prog = PostDisable /\ ctl = "idle" /\ Followed
    \/ prog = <<"EndIfSpawned">> /\ ctl = "idle"
    \/ prog = <<"Join">> /\ ctl \in {"idle", "exitRunning", "exitSignal"} /\ then = "idle"
    \/ prog = <<>> /\ ctl = "idle" /\ worker = "none"
    \/ prog = <<>> /\ ctl \in UP!Joining
    \/ prog = <<>> /\ ctl \in {"exitRunning", "exitSignal"} /\ then = "joining"

NoProgress == prog = <<>> /\ ctl = "idle" /\ Followed

ThreadProgress ==
    IF phase # "threads" THEN NoProgress
    ELSE CASE request = "Enable" -> EnableProgress
           [] request \in {"Disable", "Recover"} -> DisableProgress
           [] OTHER -> NoProgress

\* The ZeroMQ thread is inside postEvent exactly in the phase carry, and the
\* real-time thread only ever asks for Error.
PostInv ==
    /\ at[Zmq] # "out" <=> phase = "carry"
    /\ at[Rt] \in MP!Hooks => pending[Rt].to = "Error"

EnabledStates == {"Idle", "Running", "Error"}

\* What the state machine is in while the update thread is there: before the
\* event of a request takes effect that depends on the last request answered,
\* and afterwards on this one too.
EnabledInv ==
    ~refused =>
        /\ phase = "carry" => pending[Zmq].event = request
        /\ phase \notin {"carry", "threads"} \/ (phase = "carry" /\ at[Zmq] \in MP!Hooks) =>
              (last = "Enable" => state \in EnabledStates)
        /\ phase = "threads" \/ (phase = "carry" /\ at[Zmq] \notin MP!Hooks) =>
              /\ request = "Enable" => state \in EnabledStates
              /\ request \notin ThreadRequests /\ last = "Enable" => state \in EnabledStates

ComponentInv ==
    /\ MP!SMInv
    /\ UP!ThreadInv
    /\ ServerTypes
    /\ ThreadProgress
    /\ PostInv
    /\ EnabledInv

-----------------------------------------------------------------------------
(***************************************************************************)
(* The instances that the proofs use are the ones that the module uses.    *)
(***************************************************************************)

\* The state machine.
LEMMA SameMachine ==
    /\ M!Init => MP!Init
    /\ \A c, e : M!Post(c, e) => MP!Post(c, e)
    /\ \A c : M!Carry(c) => MP!Carry(c)
    /\ \A c : M!Return(c) => MP!Return(c)
    /\ M!Events = MP!Events
<1>1. M!Init => MP!Init
  BY DEF M!Init, M!Step, MP!Init, MP!Step
<1>2. M!Transitions = MP!Transitions
  BY DEF M!Transitions, M!Step, MP!Transitions, MP!Step
<1>3. ASSUME NEW c, NEW e, M!Post(c, e)
      PROVE  MP!Post(c, e)
  BY <1>2, <1>3 DEF M!Post, M!PostEvent, M!PostEventRefused, M!PostEventDropped, M!Move,
     M!Enabled, MP!Post, MP!PostEvent, MP!PostEventRefused, MP!PostEventDropped, MP!Move,
     MP!Enabled
<1>4. ASSUME NEW c, M!Carry(c)
      PROVE  MP!Carry(c)
  BY <1>4 DEF M!Carry, M!ExitHook, M!TransitionHook, M!EntryHook, M!HookThrows, M!Unlock,
     M!Hooks, M!Move, MP!Carry, MP!ExitHook, MP!TransitionHook, MP!EntryHook,
     MP!HookThrows, MP!Unlock, MP!Hooks, MP!Move
<1>5. ASSUME NEW c, M!Return(c)
      PROVE  MP!Return(c)
  BY <1>5 DEF M!Return, M!Move, MP!Return, MP!Move
<1>6. M!Events = MP!Events
  BY DEF M!Events, MP!Events
<1>7. QED
  BY <1>1, <1>3, <1>4, <1>5, <1>6

\* The update thread.
LEMMA SameThread ==
    /\ U!Init => UP!Init
    /\ U!Spawn => UP!Spawn
    /\ U!Start => UP!Start
    /\ U!Stop => UP!Stop
    /\ U!Exit => UP!Exit
    /\ U!Join => UP!Join
    /\ U!ControllerStep => UP!ControllerStep
    /\ U!WorkerStep => UP!WorkerStep
<1>1. U!Init => UP!Init
  BY DEF U!Init, UP!Init
<1>2. /\ U!Spawn => UP!Spawn
      /\ U!Start => UP!Start
      /\ U!Stop => UP!Stop
      /\ U!Exit => UP!Exit
      /\ U!Join => UP!Join
  BY DEF U!Spawn, U!Start, U!Stop, U!Exit, U!Join, U!Call, U!RaiseStop, U!flags,
     UP!Spawn, UP!Start, UP!Stop, UP!Exit, UP!Join, UP!Call, UP!RaiseStop,
     UP!flags
<1>3. U!ControllerStep => UP!ControllerStep
  BY DEF U!ControllerStep, U!StartClearStop, U!StartSignal, U!ExitClearRunning,
     U!ExitSignal, U!JoinReadStop, U!JoinReadRunning, U!JoinExit, U!Joined, U!RaiseStop,
     U!flags, UP!ControllerStep, UP!StartClearStop, UP!StartSignal, UP!ExitClearRunning,
     UP!ExitSignal, UP!JoinReadStop, UP!JoinReadRunning, UP!JoinExit, UP!Joined,
     UP!RaiseStop, UP!flags
<1>4. U!WorkerStep => UP!WorkerStep
  BY DEF U!WorkerStep, U!OnceOnSpawn, U!EnterWait, U!LeaveWait, U!TestStop, U!TestRunning,
     U!Body, U!LeaveLoop, U!Decide, U!OnceOnExit, U!Go, U!ControllerFrame,
     U!WorkerFrame,
     UP!WorkerStep, UP!OnceOnSpawn, UP!EnterWait, UP!LeaveWait, UP!TestStop,
     UP!TestRunning, UP!Body, UP!LeaveLoop, UP!Decide, UP!OnceOnExit, UP!Go,
     UP!ControllerFrame, UP!WorkerFrame
<1>5. QED
  BY <1>1, <1>2, <1>3, <1>4

-----------------------------------------------------------------------------
(***************************************************************************)
(* What the steps of the parts do, seen from the component.                *)
(***************************************************************************)

\* The rows of the transition table, event by event.
LEMMA RowsByEvent ==
    ASSUME NEW t \in MP!Transitions
    PROVE  /\ t.event = "Enable" => t.to \in EnabledStates
           /\ t.event \notin ThreadRequests /\ t.from \in EnabledStates
                 => t.to \in EnabledStates
           /\ t.event = "OnFailure" => t.to = "Error"
BY DEF MP!Transitions, MP!Step, EnabledStates, ThreadRequests

\* Posting an event: the caller is in the hooks with a row for that event, or
\* was turned away; the state stays.
LEMMA PostEffect ==
    ASSUME MP!SMInv, NEW c \in {Zmq, Rt}, NEW e \in MP!Events, MP!Post(c, e)
    PROVE  /\ MP!SMInv' /\ state' = state
           /\ at[c] = "out" /\ at'[c] \in {"exit", "unlock", "returned"}
           /\ at'[c] = "exit" => pending'[c] \in MP!Transitions /\ pending'[c].event = e
           /\ \A d \in {Zmq, Rt} : d # c => at'[d] = at[d] /\ pending'[d] = pending[d]
<1>1. MP!SMInv' /\ state' = state
  BY MP!PostKeeps, CallersAssumption
<1>2. at \in [{Zmq, Rt} -> {"out", "unlock", "returned"} \cup MP!Hooks]
      /\ pending \in [{Zmq, Rt} -> MP!Transitions]
  BY DEF MP!SMInv, MP!TypeOK
<1>3. CASE MP!PostEvent(c, e)
  <2>1. PICK t \in MP!Enabled(e) : pending' = [pending EXCEPT ![c] = t]
    BY <1>3 DEF MP!PostEvent
  <2>2. t \in MP!Transitions /\ t.event = e
    BY <2>1 DEF MP!Enabled
  <2>3. QED
    BY <1>1, <1>2, <1>3, <2>1, <2>2 DEF MP!PostEvent, MP!Move
<1>4. CASE MP!PostEventRefused(c, e) \/ MP!PostEventDropped(c, e)
  BY <1>1, <1>2, <1>4 DEF MP!PostEventRefused, MP!PostEventDropped, MP!Move
<1>5. QED
  BY <1>3, <1>4 DEF MP!Post

\* A step inside postEvent: the state changes only on the way out of the hooks,
\* to the end of the row or to Error.
LEMMA CarryEffect ==
    ASSUME MP!SMInv, NEW c \in {Zmq, Rt}, MP!Carry(c)
    PROVE  /\ MP!SMInv' /\ pending' = pending
           /\ at[c] # "out" /\ at'[c] # "out"
           /\ \A d \in {Zmq, Rt} : d # c => at'[d] = at[d]
           /\ \/ state' = state /\ (at'[c] \in MP!Hooks <=> at[c] \in MP!Hooks)
              \/ /\ at[c] \in MP!Hooks /\ at'[c] \notin MP!Hooks
                 /\ state' \in {"Error", pending[c].to}
<1>1. MP!SMInv'
  BY MP!CarryKeeps, CallersAssumption
<1>2. at \in [{Zmq, Rt} -> {"out", "unlock", "returned"} \cup MP!Hooks]
  BY DEF MP!SMInv, MP!TypeOK
<1>3. QED
  BY <1>1, <1>2 DEF MP!Carry, MP!ExitHook, MP!TransitionHook, MP!EntryHook, MP!HookThrows,
     MP!Unlock, MP!Hooks, MP!Move

\* The return from postEvent.
LEMMA ReturnEffect ==
    ASSUME MP!SMInv, NEW c \in {Zmq, Rt}, MP!Return(c)
    PROVE  /\ MP!SMInv' /\ pending' = pending /\ state' = state
           /\ at[c] = "returned" /\ at'[c] = "out"
           /\ \A d \in {Zmq, Rt} : d # c => at'[d] = at[d]
<1>1. MP!SMInv'
  BY MP!CarryKeeps, CallersAssumption
<1>2. at \in [{Zmq, Rt} -> {"out", "unlock", "returned"} \cup MP!Hooks]
  BY DEF MP!SMInv, MP!TypeOK
<1>3. QED
  BY <1>1, <1>2 DEF MP!Return, MP!Move

\* A step of the worker neither makes nor ends the thread, and is no step of the
\* controller.
LEMMA WorkerEffect ==
    ASSUME UP!ThreadInv, UP!WorkerStep
    PROVE  /\ UP!ThreadInv' /\ UNCHANGED <<ctl, then>>
           /\ worker # "none" /\ worker' # "none"
<1>1. UP!ThreadInv'
  BY UP!WorkerKeeps, MaxCallsAssumption
<1>2. QED
  BY <1>1 DEF UP!WorkerStep, UP!OnceOnSpawn, UP!EnterWait, UP!LeaveWait, UP!TestStop,
     UP!TestRunning, UP!Body, UP!LeaveLoop, UP!Decide, UP!OnceOnExit, UP!Go,
     UP!ControllerFrame, UP!WorkerFrame

\* The steps inside Start, Exit and Join: only the end of Join ends the thread.
LEMMA ControllerEffect ==
    ASSUME UP!ThreadInv, UP!ControllerStep
    PROVE  /\ UP!ThreadInv' /\ ctl # "idle"
           /\ ctl \in {"startStop", "startSignal"} =>
                 ctl' \in {"idle", "startSignal"} /\ worker' = worker
           /\ ctl \in {"exitRunning", "exitSignal"} =>
                 ctl' \in {"exitSignal", then} /\ then' = then /\ worker' = worker
           /\ ctl \in UP!Joining =>
                 \/ ctl' \in UP!Joining
                 \/ ctl' = "exitRunning" /\ then' = "joining"
                 \/ ctl' = "idle" /\ worker' = "none"
<1>1. UP!ThreadInv'
  BY UP!ControllerKeeps, MaxCallsAssumption
<1>2. QED
  BY <1>1 DEF UP!ControllerStep, UP!StartClearStop, UP!StartSignal, UP!ExitClearRunning,
     UP!ExitSignal, UP!JoinReadStop, UP!JoinReadRunning, UP!JoinExit, UP!Joined,
     UP!RaiseStop, UP!flags, UP!Joining

\* What leaves a part alone keeps its invariant.
LEMMA PartsKept ==
    /\ MP!SMInv /\ UNCHANGED machine => MP!SMInv'
    /\ UP!ThreadInv /\ UNCHANGED update => UP!ThreadInv'
<1>1. ASSUME MP!SMInv, UNCHANGED machine
      PROVE  MP!SMInv'
  BY <1>1 DEF machine, MP!SMInv, MP!TypeOK, MP!GuardIsHeld, MP!HooksSeeStartState
<1>2. ASSUME UP!ThreadInv, UNCHANGED update
      PROVE  UP!ThreadInv'
  BY <1>2 DEF update, UP!ThreadInv, UP!TypeOK, UP!StopInv, UP!WaitingIsVisible,
     UP!ExitLeavesNoStart
<1>3. QED
  BY <1>1, <1>2

-----------------------------------------------------------------------------
(***************************************************************************)
(* The steps of the component.                                             *)
(***************************************************************************)

\* The constructor of the component establishes the invariant.
LEMMA InitComponent == Init => ComponentInv
<1> SUFFICES ASSUME Init
             PROVE  ComponentInv
  OBVIOUS
<1>1. MP!Init /\ UP!Init
  BY SameMachine, SameThread DEF Init
<1>2. MP!SMInv
  BY <1>1, MP!InitSM, CallersAssumption
<1>3. UP!ThreadInv
  BY <1>1, UP!InitThread, MaxCallsAssumption
<1>4. ServerTypes
  <2>1. auto \in Seq({"Init", "Enable", "Run"})
    <3>1. auto = <<>> \/ auto = <<"Init", "Enable", "Run">>
      BY DEF Init
    <3>2. <<>> \in Seq({"Init", "Enable", "Run"})
      OBVIOUS
    <3>3. <<"Init", "Enable", "Run">> \in Seq({"Init", "Enable", "Run"})
      OBVIOUS
    <3>4. QED
      BY <3>1, <3>2, <3>3
  <2>2. QED
    BY <2>1 DEF Init, ServerTypes
<1>5. ThreadProgress
  BY <1>1 DEF Init, ThreadProgress, NoProgress, Followed, None, UP!Init
<1>6. PostInv /\ EnabledInv
  BY <1>1 DEF Init, PostInv, EnabledInv, None, MP!Init, MP!Hooks
<1>7. QED
  BY <1>2, <1>3, <1>4, <1>5, <1>6 DEF ComponentInv

\* A request is taken, or the component is destroyed: neither part moves.
LEMMA RequestKeeps ==
    ASSUME ComponentInv,
           (\E e \in M!Events : Receive(e)) \/ AutoRun \/ ReceiveQuery \/ ReceiveEmpty
              \/ Destroy
    PROVE  ComponentInv'
<1>1. /\ UNCHANGED <<machine, update, prog, last, refused>>
      /\ phase \in {"recv", "deaf"} /\ phase' \in {"post", "threads", "deaf", "gone"}
      /\ phase' = "threads" => request' = "query"
  BY DEF Receive, AutoRun, Call, ReceiveQuery, ReceiveEmpty, Destroy
<1>2. MP!SMInv' /\ UP!ThreadInv'
  BY <1>1, PartsKept DEF ComponentInv
<1>3. ServerTypes'
  <2>1. CASE AutoRun
    <3>1. /\ Head(auto) \in {"Init", "Enable", "Run"}
          /\ Tail(auto) \in Seq({"Init", "Enable", "Run"})
      BY <2>1 DEF AutoRun, ComponentInv, ServerTypes
    <3>2. request' \in MP!Events
      BY <2>1, <3>1 DEF AutoRun, Call, MP!Events
    <3>3. QED
      BY <2>1, <3>1, <3>2, <1>1 DEF AutoRun, Call, ComponentInv, ServerTypes
  <2>2. CASE \E e \in M!Events : Receive(e)
    BY <1>1, <2>2, SameMachine DEF Receive, Call, ComponentInv, ServerTypes
  <2>3. CASE ReceiveQuery \/ ReceiveEmpty \/ Destroy
    BY <1>1, <2>3 DEF ReceiveQuery, ReceiveEmpty, Destroy, ComponentInv, ServerTypes
  <2>4. QED
    BY <2>1, <2>2, <2>3
<1>4. ThreadProgress'
  BY <1>1 DEF ComponentInv, ThreadProgress, NoProgress, Followed, update
<1>5. PostInv'
  BY <1>1 DEF ComponentInv, PostInv, machine
<1>6. EnabledInv'
  BY <1>1 DEF ComponentInv, EnabledInv, machine
<1>7. QED
  BY <1>2, <1>3, <1>4, <1>5, <1>6 DEF ComponentInv

\* The method posts its event: from here on the state machine knows the request,
\* or it counts as refused.
LEMMA DispatchKeeps ==
    ASSUME ComponentInv, Dispatch
    PROVE  ComponentInv'
<1>1. /\ phase = "post" /\ phase' = "carry" /\ MP!Post(Zmq, request)
      /\ refused' = (refused \/ at'[Zmq] # "exit")
      /\ UNCHANGED <<update, request, auto, prog, last>>
  BY SameMachine DEF Dispatch
<1>2. request \in MP!Events /\ MP!SMInv
  BY <1>1 DEF ComponentInv, ServerTypes
<1>3. /\ MP!SMInv' /\ state' = state /\ at'[Zmq] \in {"exit", "unlock", "returned"}
      /\ at'[Zmq] = "exit" => pending'[Zmq].event = request
      /\ at'[Rt] = at[Rt] /\ pending'[Rt] = pending[Rt]
  BY <1>1, <1>2, PostEffect, CallersAssumption
<1>4. UP!ThreadInv'
  BY <1>1, PartsKept DEF ComponentInv
<1>5. ServerTypes'
  BY <1>1, <1>2 DEF ComponentInv, ServerTypes
<1>6. ThreadProgress'
  BY <1>1 DEF ComponentInv, ThreadProgress, NoProgress, Followed, update
<1>7. PostInv'
  BY <1>1, <1>3 DEF ComponentInv, PostInv
<1>8. EnabledInv'
  BY <1>1, <1>3 DEF ComponentInv, EnabledInv, MP!Hooks
<1>9. QED
  BY <1>3, <1>4, <1>5, <1>6, <1>7, <1>8 DEF ComponentInv

\* The ZeroMQ thread goes through its postEvent: an event that was let in takes
\* the state where the request belongs.
LEMMA CarryOnKeeps ==
    ASSUME ComponentInv, PostEvent
    PROVE  ComponentInv'
<1>1. phase = "carry" /\ MP!Carry(Zmq) /\ UNCHANGED <<update, server>>
  BY SameMachine DEF PostEvent
<1>2. MP!SMInv
  BY DEF ComponentInv
<1>3. /\ MP!SMInv' /\ pending' = pending /\ at[Zmq] # "out" /\ at'[Zmq] # "out"
      /\ at'[Rt] = at[Rt]
      /\ \/ state' = state /\ (at'[Zmq] \in MP!Hooks <=> at[Zmq] \in MP!Hooks)
         \/ /\ at[Zmq] \in MP!Hooks /\ at'[Zmq] \notin MP!Hooks
            /\ state' \in {"Error", pending[Zmq].to}
  BY <1>1, <1>2, CarryEffect, CallersAssumption
<1>4. UP!ThreadInv' /\ ServerTypes' /\ ThreadProgress'
  <2>1. UP!ThreadInv'
    BY <1>1, PartsKept DEF ComponentInv
  <2>2. ServerTypes' /\ ThreadProgress'
    BY <1>1 DEF ComponentInv, ServerTypes, ThreadProgress, EnableProgress,
       DisableProgress, NoProgress, Followed, server, update
  <2>3. QED
    BY <2>1, <2>2
<1>5. PostInv'
  BY <1>1, <1>3 DEF ComponentInv, PostInv, server
<1>6. EnabledInv'
  <2>1. CASE state' = state /\ (at'[Zmq] \in MP!Hooks <=> at[Zmq] \in MP!Hooks)
    BY <1>1, <1>3, <2>1 DEF ComponentInv, EnabledInv, server
  <2>2. CASE at[Zmq] \in MP!Hooks /\ at'[Zmq] \notin MP!Hooks
                /\ state' \in {"Error", pending[Zmq].to}
    <3>1. pending[Zmq] \in MP!Transitions /\ pending[Zmq].from = state
      BY <1>2, <2>2 DEF MP!SMInv, MP!TypeOK, MP!HooksSeeStartState
    <3>2. "Error" \in EnabledStates
      BY DEF EnabledStates
    <3>3. ASSUME ~refused
          PROVE  /\ request = "Enable" => state' \in EnabledStates
                 /\ request \notin ThreadRequests /\ last = "Enable" => state' \in EnabledStates
      <4>1. pending[Zmq].event = request /\ (last = "Enable" => state \in EnabledStates)
        BY <1>1, <2>2, <3>3 DEF ComponentInv, EnabledInv
      <4>2. QED
        BY <2>2, <3>1, <3>2, <4>1, RowsByEvent
    <3>4. QED
      BY <1>1, <1>3, <2>2, <3>3 DEF ComponentInv, EnabledInv, server
  <2>3. QED
    BY <1>3, <2>1, <2>2
<1>7. QED
  BY <1>3, <1>4, <1>5, <1>6 DEF ComponentInv

\* postEvent has returned, and the method goes on to the update thread.
LEMMA ContinueKeeps ==
    ASSUME ComponentInv, Continue
    PROVE  ComponentInv'
<1>1. /\ phase = "carry" /\ phase' = "threads" /\ MP!Return(Zmq)
      /\ prog' = AfterEvent(request)
      /\ UNCHANGED <<update, request, auto, last, refused>>
  BY SameMachine DEF Continue
<1>2. MP!SMInv
  BY DEF ComponentInv
<1>3. /\ MP!SMInv' /\ pending' = pending /\ state' = state
      /\ at[Zmq] = "returned" /\ at'[Zmq] = "out" /\ at'[Rt] = at[Rt]
  BY <1>1, <1>2, ReturnEffect, CallersAssumption
<1>4. UP!ThreadInv'
  BY <1>1, PartsKept DEF ComponentInv
<1>5. ServerTypes'
  BY <1>1 DEF ComponentInv, ServerTypes
<1>6. ThreadProgress'
  <2>1. ctl' = "idle" /\ Followed'
    BY <1>1 DEF ComponentInv, ThreadProgress, NoProgress, Followed, update
  <2>2. CASE request = "Enable"
    BY <1>1, <2>1, <2>2 DEF ThreadProgress, EnableProgress, AfterEvent
  <2>3. CASE request \in {"Disable", "Recover"}
    BY <1>1, <2>1, <2>3 DEF ThreadProgress, DisableProgress, AfterEvent
  <2>4. CASE request \notin {"Enable", "Disable", "Recover"}
    BY <1>1, <2>1, <2>4 DEF ThreadProgress, NoProgress, AfterEvent
  <2>5. QED
    BY <2>2, <2>3, <2>4
<1>7. PostInv'
  BY <1>1, <1>3 DEF ComponentInv, PostInv
<1>8. EnabledInv'
  BY <1>1, <1>3 DEF ComponentInv, EnabledInv, MP!Hooks
<1>9. QED
  BY <1>3, <1>4, <1>5, <1>6, <1>7, <1>8 DEF ComponentInv

\* What a call to the update thread has to show: the state machine is left alone.
LEMMA ThreadCallFrame ==
    ASSUME ComponentInv, phase = "threads",
           UNCHANGED <<machine, phase, request, auto, last, refused>>,
           UP!ThreadInv', ThreadProgress'
    PROVE  ComponentInv'
<1>1. MP!SMInv'
  BY PartsKept DEF ComponentInv
<1>2. ServerTypes' /\ PostInv' /\ EnabledInv'
  BY DEF ComponentInv, ServerTypes, PostInv, EnabledInv, machine
<1>3. QED
  BY <1>1, <1>2 DEF ComponentInv

\* Where the calls are when the next one is due.
LEMMA NextCall ==
    ASSUME ComponentInv, phase = "threads", ctl = "idle", prog # <<>>
    PROVE  \/ /\ request = "Enable"
              /\ \/ prog = <<"Spawn", "Start">> /\ Followed
                 \/ prog = <<"Start">> /\ worker # "none"
           \/ /\ request \in {"Disable", "Recover"}
              /\ \/ prog = <<"StopIfRunning", "EndIfSpawned">>
                 \/ prog = <<"EndIfSpawned">>
                 \/ prog = <<"Join">> /\ then = "idle"
BY DEF ComponentInv, ThreadProgress, EnableProgress, DisableProgress, NoProgress,
   PostEnable, PostDisable

\* Spawn, Start, Stop, Exit and Join of the update thread, in the order in which
\* PostEnable and PostDisable call them.
LEMMA ThreadCallKeeps ==
    ASSUME ComponentInv, ThreadCall
    PROVE  ComponentInv'
<1>1. UP!ThreadInv
  BY DEF ComponentInv
<1>2. ASSUME UP!ControllerCall
      PROVE  UP!ThreadInv'
  BY <1>1, <1>2, UP!ControllerKeeps, MaxCallsAssumption
<1>3. CASE SpawnUpdate
  <2>1. /\ phase = "threads" /\ ctl = "idle" /\ prog # <<>> /\ Head(prog) = "Spawn"
        /\ UP!Spawn /\ prog' = Tail(prog)
        /\ UNCHANGED <<machine, phase, request, auto, last, refused>>
    BY <1>3, SameThread DEF SpawnUpdate, Do
  <2>2. request = "Enable" /\ prog = <<"Spawn", "Start">>
    BY <2>1, NextCall
  <2>3. prog' = <<"Start">>
    BY <2>1, <2>2
  <2>4. UP!ThreadInv'
    BY <1>2, <2>1 DEF UP!ControllerCall
  <2>5. ctl' = "idle" /\ worker' # "none"
    BY <1>1, <2>1 DEF UP!Spawn, UP!Call, UP!ThreadInv, UP!TypeOK
  <2>6. ThreadProgress'
    BY <2>1, <2>2, <2>3, <2>5 DEF ThreadProgress, EnableProgress
  <2>7. QED
    BY <2>1, <2>4, <2>6, ThreadCallFrame
<1>4. CASE StartUpdate
  <2>1. /\ phase = "threads" /\ ctl = "idle" /\ prog # <<>> /\ Head(prog) = "Start"
        /\ UP!Start /\ prog' = Tail(prog)
        /\ UNCHANGED <<machine, phase, request, auto, last, refused>>
    BY <1>4, SameThread DEF StartUpdate, Do
  <2>2. request = "Enable" /\ prog = <<"Start">> /\ worker # "none"
    BY <2>1, NextCall
  <2>3. prog' = <<>>
    BY <2>1, <2>2
  <2>4. UP!ThreadInv'
    BY <1>2, <2>1 DEF UP!ControllerCall
  <2>5. ctl' = "startStop" /\ worker' = worker
    BY <2>1 DEF UP!Start, UP!Call
  <2>6. ThreadProgress'
    BY <2>1, <2>2, <2>3, <2>5 DEF ThreadProgress, EnableProgress
  <2>7. QED
    BY <2>1, <2>4, <2>6, ThreadCallFrame
<1>5. CASE StopIfRunning
  <2>1. /\ phase = "threads" /\ ctl = "idle" /\ prog # <<>> /\ Head(prog) = "StopIfRunning"
        /\ UP!Stop \/ UNCHANGED update
        /\ prog' = Tail(prog)
        /\ UNCHANGED <<machine, phase, request, auto, last, refused>>
    BY <1>5, SameThread DEF StopIfRunning, Do
  <2>2. request \in {"Disable", "Recover"} /\ prog = <<"StopIfRunning", "EndIfSpawned">>
    BY <2>1, NextCall
  <2>3. prog' = <<"EndIfSpawned">>
    BY <2>1, <2>2
  <2>4. UP!ThreadInv'
    BY <1>1, <1>2, <2>1, PartsKept DEF UP!ControllerCall
  <2>5. ctl' = "idle"
    BY <2>1 DEF UP!Stop, UP!Call, update
  <2>6. ThreadProgress'
    BY <2>1, <2>2, <2>3, <2>5 DEF ThreadProgress, DisableProgress
  <2>7. QED
    BY <2>1, <2>4, <2>6, ThreadCallFrame
<1>6. CASE EndIfSpawned
  <2>1. /\ phase = "threads" /\ ctl = "idle" /\ prog # <<>> /\ Head(prog) = "EndIfSpawned"
        /\ \/ UP!Exit /\ prog' = <<"Join">>
           \/ ~spawned /\ UNCHANGED update /\ prog' = <<>>
        /\ UNCHANGED <<machine, phase, request, auto, last, refused>>
    BY <1>6, SameThread DEF EndIfSpawned, Do
  <2>2. request \in {"Disable", "Recover"}
    BY <2>1, NextCall
  <2>3. UP!ThreadInv'
    BY <1>1, <1>2, <2>1, PartsKept DEF UP!ControllerCall
  <2>4. CASE UP!Exit /\ prog' = <<"Join">>
    <3>1. ctl' = "exitRunning" /\ then' = "idle"
      BY <2>4 DEF UP!Exit, UP!Call
    <3>2. ThreadProgress'
      BY <2>1, <2>2, <2>4, <3>1 DEF ThreadProgress, DisableProgress
    <3>3. QED
      BY <2>1, <2>3, <3>2, ThreadCallFrame
  <2>5. CASE ~spawned /\ UNCHANGED update /\ prog' = <<>>
    <3>1. ctl' = "idle" /\ worker' = "none"
      BY <1>1, <2>1, <2>5 DEF UP!ThreadInv, UP!TypeOK, update
    <3>2. ThreadProgress'
      BY <2>1, <2>2, <2>5, <3>1 DEF ThreadProgress, DisableProgress
    <3>3. QED
      BY <2>1, <2>3, <3>2, ThreadCallFrame
  <2>6. QED
    BY <2>1, <2>4, <2>5
<1>7. CASE JoinUpdate
  <2>1. /\ phase = "threads" /\ ctl = "idle" /\ prog # <<>> /\ Head(prog) = "Join"
        /\ UP!Join /\ prog' = Tail(prog)
        /\ UNCHANGED <<machine, phase, request, auto, last, refused>>
    BY <1>7, SameThread DEF JoinUpdate, Do
  <2>2. request \in {"Disable", "Recover"} /\ prog = <<"Join">>
    BY <2>1, NextCall
  <2>3. prog' = <<>>
    BY <2>1, <2>2
  <2>4. UP!ThreadInv'
    BY <1>2, <2>1 DEF UP!ControllerCall
  <2>5. ctl' \in UP!Joining
    BY <2>1 DEF UP!Join, UP!Call, UP!Joining
  <2>6. ThreadProgress'
    BY <2>1, <2>2, <2>3, <2>5 DEF ThreadProgress, DisableProgress, UP!Joining
  <2>7. QED
    BY <2>1, <2>4, <2>6, ThreadCallFrame
<1>8. QED
  BY <1>3, <1>4, <1>5, <1>6, <1>7 DEF ThreadCall

\* The answer: the update thread is as the request asked for.
LEMMA ReplyKeeps ==
    ASSUME ComponentInv, Reply
    PROVE  ComponentInv'
<1>1. /\ phase = "threads" /\ phase' = "recv" /\ prog = <<>> /\ ctl = "idle"
      /\ last' = IF AfterEvent(request) = <<>> THEN last ELSE request
      /\ UNCHANGED <<machine, update, auto, prog, refused>>
  BY DEF Reply
<1>2. AfterEvent(request) = <<>> <=> request \notin ThreadRequests
  BY DEF AfterEvent, PostEnable, PostDisable, ThreadRequests
<1>3. last' = IF request \in ThreadRequests THEN request ELSE last
  BY <1>1, <1>2
<1>4. MP!SMInv' /\ UP!ThreadInv'
  BY <1>1, PartsKept DEF ComponentInv
<1>5. ServerTypes'
  BY <1>1, <1>3 DEF ComponentInv, ServerTypes
<1>6. ThreadProgress'
  <2>1. Followed'
    <3>1. CASE request = "Enable"
      BY <1>1, <1>3, <3>1 DEF ComponentInv, ThreadProgress, EnableProgress, PostEnable,
         Followed, update, ThreadRequests
    <3>2. CASE request \in {"Disable", "Recover"}
      BY <1>1, <1>3, <3>2 DEF ComponentInv, ThreadProgress, DisableProgress, PostDisable,
         Followed, update, ThreadRequests, UP!Joining
    <3>3. CASE request \notin {"Enable", "Disable", "Recover"}
      BY <1>1, <1>3, <3>3 DEF ComponentInv, ThreadProgress, NoProgress, Followed, update,
         ThreadRequests
    <3>4. QED
      BY <3>1, <3>2, <3>3
  <2>2. QED
    BY <1>1, <2>1 DEF ThreadProgress, NoProgress, update
<1>7. PostInv'
  BY <1>1 DEF ComponentInv, PostInv, machine
<1>8. EnabledInv'
  BY <1>1, <1>3 DEF ComponentInv, EnabledInv, machine, ThreadRequests
<1>9. QED
  BY <1>4, <1>5, <1>6, <1>7, <1>8 DEF ComponentInv

\* A step of the update thread itself.
LEMMA WorkerStepKeeps ==
    ASSUME ComponentInv, WorkerStep
    PROVE  ComponentInv'
<1>1. UP!WorkerStep /\ UNCHANGED <<machine, server>> /\ UP!ThreadInv /\ MP!SMInv
  BY SameThread DEF WorkerStep, ComponentInv
<1>2. UP!ThreadInv' /\ UNCHANGED <<ctl, then>> /\ worker # "none" /\ worker' # "none"
  BY <1>1, WorkerEffect
<1>3. MP!SMInv'
  BY <1>1, PartsKept
<1>4. ServerTypes' /\ PostInv' /\ EnabledInv'
  BY <1>1 DEF ComponentInv, ServerTypes, PostInv, EnabledInv, machine, server
<1>5. ThreadProgress'
  BY <1>1, <1>2 DEF ComponentInv, ThreadProgress, EnableProgress, DisableProgress,
     NoProgress, Followed, server
<1>6. QED
  BY <1>2, <1>3, <1>4, <1>5 DEF ComponentInv

\* A step inside Start, Exit or Join of the update thread.
LEMMA ControllerStepKeeps ==
    ASSUME ComponentInv, ControllerStep
    PROVE  ComponentInv'
<1>1. UP!ControllerStep /\ UNCHANGED <<machine, server>> /\ UP!ThreadInv /\ MP!SMInv
  BY SameThread DEF ControllerStep, ComponentInv
<1>2. /\ UP!ThreadInv' /\ ctl # "idle"
      /\ ctl \in {"startStop", "startSignal"} =>
            ctl' \in {"idle", "startSignal"} /\ worker' = worker
      /\ ctl \in {"exitRunning", "exitSignal"} =>
            ctl' \in {"exitSignal", then} /\ then' = then /\ worker' = worker
      /\ ctl \in UP!Joining =>
            \/ ctl' \in UP!Joining
            \/ ctl' = "exitRunning" /\ then' = "joining"
            \/ ctl' = "idle" /\ worker' = "none"
  BY <1>1, ControllerEffect
<1>3. MP!SMInv'
  BY <1>1, PartsKept
<1>4. ServerTypes' /\ PostInv' /\ EnabledInv'
  BY <1>1 DEF ComponentInv, ServerTypes, PostInv, EnabledInv, machine, server
<1>5. /\ phase = "threads"
      /\ request = "Enable" => EnableProgress
      /\ request \in {"Disable", "Recover"} => DisableProgress
      /\ request \in {"Enable", "Disable", "Recover"}
  <2>1. phase = "threads"
    BY <1>2 DEF ComponentInv, ThreadProgress, NoProgress
  <2>2. request = "Enable" => EnableProgress
    BY <2>1 DEF ComponentInv, ThreadProgress
  <2>3. request \in {"Disable", "Recover"} => DisableProgress
    BY <2>1 DEF ComponentInv, ThreadProgress
  <2>4. request \notin {"Enable", "Disable", "Recover"} => NoProgress
    BY <2>1 DEF ComponentInv, ThreadProgress
  <2>5. QED
    BY <1>2, <2>1, <2>2, <2>3, <2>4 DEF NoProgress
<1>6. CASE request = "Enable"
  <2>1. prog = <<>> /\ ctl \in {"startStop", "startSignal"} /\ worker # "none"
    BY <1>2, <1>5, <1>6 DEF EnableProgress
  <2>2. ctl' \in {"idle", "startSignal"} /\ worker' # "none" /\ prog' = <<>>
        /\ phase' = phase /\ request' = request
    BY <1>1, <1>2, <2>1 DEF server
  <2>3. ThreadProgress'
    BY <1>5, <1>6, <2>2 DEF ThreadProgress, EnableProgress
  <2>4. QED
    BY <1>2, <1>3, <1>4, <2>3 DEF ComponentInv
<1>7. CASE request \in {"Disable", "Recover"}
  <2>1. phase' = phase /\ request' = request /\ prog' = prog
    BY <1>1 DEF server
  <2>2. \/ prog = <<"Join">> /\ ctl \in {"exitRunning", "exitSignal"} /\ then = "idle"
        \/ prog = <<>> /\ ctl \in UP!Joining
        \/ prog = <<>> /\ ctl \in {"exitRunning", "exitSignal"} /\ then = "joining"
    BY <1>2, <1>5, <1>7 DEF DisableProgress
  <2>3. \/ prog = <<"Join">> /\ ctl' \in {"idle", "exitSignal"} /\ then' = "idle"
        \/ prog = <<>> /\ ctl' \in UP!Joining
        \/ prog = <<>> /\ ctl' = "exitRunning" /\ then' = "joining"
        \/ prog = <<>> /\ ctl' = "idle" /\ worker' = "none"
        \/ prog = <<>> /\ ctl' \in {"exitSignal", "joining"} /\ then' = "joining"
    BY <1>2, <2>2
  <2>4. "joining" \in UP!Joining
    BY DEF UP!Joining
  <2>5. DisableProgress'
    BY <2>1, <2>3, <2>4 DEF DisableProgress, UP!Joining
  <2>6. ThreadProgress'
    BY <1>5, <1>7, <2>1, <2>5 DEF ThreadProgress
  <2>7. QED
    BY <1>2, <1>3, <1>4, <2>6 DEF ComponentInv
<1>8. QED
  BY <1>5, <1>6, <1>7

\* A failure reported by the real-time thread: at any moment, and never to a
\* state in which the update thread should be gone.
LEMMA FailureKeeps ==
    ASSUME ComponentInv, ReportFailure \/ FailureStep
    PROVE  ComponentInv'
<1>1. UNCHANGED <<update, server>> /\ MP!SMInv
      /\ (MP!Post(Rt, "OnFailure") \/ MP!Carry(Rt) \/ MP!Return(Rt))
  BY SameMachine DEF ReportFailure, FailureStep, ComponentInv
<1>2. "OnFailure" \in MP!Events /\ "Error" \in EnabledStates
  BY DEF MP!Events, EnabledStates
<1>3. /\ MP!SMInv' /\ at'[Zmq] = at[Zmq] /\ pending'[Zmq] = pending[Zmq]
      /\ state' \in {state, "Error"}
      /\ at'[Rt] \in MP!Hooks => pending'[Rt].to = "Error"
  <2>1. CASE MP!Post(Rt, "OnFailure")
    <3>1. /\ MP!SMInv' /\ state' = state /\ at'[Rt] \in {"exit", "unlock", "returned"}
          /\ at'[Rt] = "exit" =>
                pending'[Rt] \in MP!Transitions /\ pending'[Rt].event = "OnFailure"
          /\ at'[Zmq] = at[Zmq] /\ pending'[Zmq] = pending[Zmq]
      BY <1>1, <1>2, <2>1, PostEffect, CallersAssumption
    <3>2. at'[Rt] \in MP!Hooks => pending'[Rt].to = "Error"
      BY <3>1, RowsByEvent DEF MP!Hooks
    <3>3. QED
      BY <3>1, <3>2
  <2>2. CASE MP!Carry(Rt)
    <3>1. /\ MP!SMInv' /\ pending' = pending /\ at'[Zmq] = at[Zmq]
          /\ \/ state' = state /\ (at'[Rt] \in MP!Hooks <=> at[Rt] \in MP!Hooks)
             \/ /\ at[Rt] \in MP!Hooks /\ at'[Rt] \notin MP!Hooks
                /\ state' \in {"Error", pending[Rt].to}
      BY <1>1, <2>2, CarryEffect, CallersAssumption
    <3>2. at[Rt] \in MP!Hooks => pending[Rt].to = "Error"
      BY DEF ComponentInv, PostInv
    <3>3. QED
      BY <3>1, <3>2
  <2>3. CASE MP!Return(Rt)
    <3>1. /\ MP!SMInv' /\ pending' = pending /\ state' = state
          /\ at'[Rt] = "out" /\ at'[Zmq] = at[Zmq]
      BY <1>1, <2>3, ReturnEffect, CallersAssumption
    <3>2. QED
      BY <3>1 DEF MP!Hooks
  <2>4. QED
    BY <1>1, <2>1, <2>2, <2>3
<1>4. UP!ThreadInv' /\ ServerTypes' /\ ThreadProgress'
  <2>1. UP!ThreadInv'
    BY <1>1, PartsKept DEF ComponentInv
  <2>2. ServerTypes' /\ ThreadProgress'
    BY <1>1 DEF ComponentInv, ServerTypes, ThreadProgress, EnableProgress,
       DisableProgress, NoProgress, Followed, server, update
  <2>3. QED
    BY <2>1, <2>2
<1>5. PostInv'
  BY <1>1, <1>3 DEF ComponentInv, PostInv, server
<1>6. EnabledInv'
  BY <1>1, <1>2, <1>3 DEF ComponentInv, EnabledInv, server
<1>7. QED
  BY <1>3, <1>4, <1>5, <1>6 DEF ComponentInv

-----------------------------------------------------------------------------
(***************************************************************************)
(* Theorems.                                                               *)
(***************************************************************************)

\* The invariant of the ZeroMQ thread, the state machine, the update thread and
\* the real-time thread that reports failures.
THEOREM ComponentCorrect == Spec => []ComponentInv
<1>1. ComponentInv /\ [Next]_vars => ComponentInv'
  <2>1. ASSUME ComponentInv, UNCHANGED vars
        PROVE  ComponentInv'
    <3>1. MP!SMInv' /\ UP!ThreadInv'
      BY <2>1, PartsKept DEF ComponentInv, vars
    <3>2. QED
      BY <2>1, <3>1 DEF ComponentInv, ServerTypes, ThreadProgress, EnableProgress,
         DisableProgress, NoProgress, Followed, PostInv, EnabledInv,
         vars, machine, update, server
  <2>2. ASSUME ComponentInv, Next
        PROVE  ComponentInv'
    <3>1. CASE (\E e \in M!Events : Receive(e)) \/ ReceiveQuery \/ ReceiveEmpty \/ Destroy
      BY <2>2, <3>1, RequestKeeps
    <3>2. CASE ServerStep
      BY <2>2, <3>2, RequestKeeps, DispatchKeeps, CarryOnKeeps, ContinueKeeps,
         ThreadCallKeeps, ReplyKeeps DEF ServerStep
    <3>3. CASE WorkerStep \/ ControllerStep
      BY <2>2, <3>3, WorkerStepKeeps, ControllerStepKeeps
    <3>4. CASE ReportFailure \/ FailureStep
      BY <2>2, <3>4, FailureKeeps
    <3>5. CASE Done
      BY <2>1, <2>2, <3>5 DEF Done
    <3>6. QED
      BY <2>2, <3>1, <3>2, <3>3, <3>4, <3>5 DEF Next
  <2>3. QED
    BY <2>1, <2>2
<1>2. QED
  BY <1>1, InitComponent, PTL DEF Spec

\* PostEnable and PostDisable: between requests the update thread is there exactly
\* when the last answered Enable, Disable or Recover was Enable, also when its
\* event was refused, dropped or ended in Error.
THEOREM ThreadFollows == Spec => []ThreadFollowsLast
<1>1. ComponentInv => ThreadFollowsLast
  BY DEF ComponentInv, ThreadProgress, NoProgress, Followed, ThreadFollowsLast, Between, None
<1>2. QED
  BY <1>1, ComponentCorrect, PTL

\* postEvent and the methods of the component: as long as every request was
\* permitted no update thread is left in Off and Standby, whatever failures are
\* reported and whatever hooks throw.
THEOREM UpdatesEnabled == Spec => []UpdatesOnlyWhenEnabled
<1>1. ComponentInv => UpdatesOnlyWhenEnabled
  <2> SUFFICES ASSUME ComponentInv, phase \in Between, ~refused, worker # "none"
               PROVE  state \in {"Idle", "Running", "Error"}
    BY DEF UpdatesOnlyWhenEnabled
  <2>1. last = "Enable"
    BY DEF ComponentInv, ThreadProgress, NoProgress, Followed, Between
  <2>2. QED
    BY <2>1 DEF ComponentInv, EnabledInv, EnabledStates, Between
<1>2. QED
  BY <1>1, ComponentCorrect, PTL

-----------------------------------------------------------------------------
(***************************************************************************)
(* The parts inside the component: what is proved of each holds here too.  *)
(***************************************************************************)

\* postEvent as the component uses it: the ZeroMQ thread and the real-time thread
\* post events of the table, one at a time each, and nothing else touches the
\* state machine.
THEOREM RefinesStateMachine == Spec => MP!Spec
<1>1. Init => MP!Init
  BY SameMachine DEF Init
<1>2. ComponentInv /\ [Next]_vars => [MP!Next]_MP!smVars
  <2> SUFFICES ASSUME ComponentInv, [Next]_vars
               PROVE  MP!Next \/ UNCHANGED MP!smVars
    OBVIOUS
  <2>1. ASSUME UNCHANGED machine
        PROVE  UNCHANGED MP!smVars
    BY <2>1 DEF machine, MP!smVars
  <2>2. CASE Dispatch
    <3>1. MP!Post(Zmq, request) /\ request \in MP!Events
      BY <2>2, SameMachine DEF Dispatch, ComponentInv, ServerTypes
    <3>2. QED
      BY <3>1 DEF MP!Next
  <2>3. CASE PostEvent \/ Continue
    BY <2>3, SameMachine DEF PostEvent, Continue, MP!Next
  <2>4. CASE ReportFailure
    <3>1. MP!Post(Rt, "OnFailure") /\ "OnFailure" \in MP!Events
      BY <2>4, SameMachine DEF ReportFailure, MP!Events
    <3>2. QED
      BY <3>1 DEF MP!Next
  <2>5. CASE FailureStep
    BY <2>5, SameMachine DEF FailureStep, MP!Next
  <2>6. CASE AutoRun \/ (\E e \in M!Events : Receive(e)) \/ ReceiveQuery \/ ReceiveEmpty
                \/ Destroy \/ Reply \/ WorkerStep \/ ControllerStep
    BY <2>1, <2>6 DEF AutoRun, Receive, Call, ReceiveQuery, ReceiveEmpty, Destroy, Reply,
       WorkerStep, ControllerStep
  <2>7. CASE ThreadCall
    BY <2>1, <2>7 DEF ThreadCall, SpawnUpdate, StartUpdate, StopIfRunning, EndIfSpawned,
       JoinUpdate, Do
  <2>8. CASE Done \/ UNCHANGED vars
    BY <2>1, <2>8 DEF Done, vars
  <2>9. QED
    BY <2>2, <2>3, <2>4, <2>5, <2>6, <2>7, <2>8 DEF Next, ServerStep
<1>3. QED
  BY <1>1, <1>2, ComponentCorrect, PTL DEF Spec, MP!Spec

\* PostEnable and PostDisable as a controller of ThreadBase: one that calls at any
\* time, and nothing else touches the update thread.
THEOREM RefinesThreadBase == Spec => UP!Spec
<1>1. Init => UP!Init
  BY SameThread DEF Init
<1>2. [Next]_vars => [UP!Next]_UP!vars
  <2> SUFFICES ASSUME [Next]_vars
               PROVE  UP!Next \/ UNCHANGED UP!vars
    OBVIOUS
  <2>1. ASSUME UNCHANGED update
        PROVE  UNCHANGED UP!vars
    BY <2>1 DEF update, UP!vars, UP!flags
  <2>2. CASE ThreadCall
    <3>1. U!Spawn \/ U!Start \/ U!Stop \/ U!Exit \/ U!Join \/ UNCHANGED update
      BY <2>2 DEF ThreadCall, SpawnUpdate, StartUpdate, StopIfRunning, EndIfSpawned,
         JoinUpdate, Do
    <3>2. QED
      BY <2>1, <3>1, SameThread DEF UP!Next, UP!ControllerCall
  <2>3. CASE WorkerStep \/ ControllerStep
    BY <2>3, SameThread DEF WorkerStep, ControllerStep, UP!Next
  <2>4. CASE AutoRun \/ (\E e \in M!Events : Receive(e)) \/ ReceiveQuery \/ ReceiveEmpty
                \/ Destroy \/ Reply \/ Dispatch \/ PostEvent \/ Continue
                \/ ReportFailure \/ FailureStep
    BY <2>1, <2>4 DEF AutoRun, Receive, Call, ReceiveQuery, ReceiveEmpty, Destroy, Reply,
       Dispatch, PostEvent, Continue, ReportFailure, FailureStep
  <2>5. CASE Done \/ UNCHANGED vars
    BY <2>1, <2>5 DEF Done, vars
  <2>6. QED
    BY <2>2, <2>3, <2>4, <2>5 DEF Next, ServerStep
<1>3. QED
  BY <1>1, <1>2, PTL DEF Spec, UP!Spec

\* The state of a component only moves along the table or to Error, whatever its
\* threads are at.
THEOREM ComponentTransitions == Spec => MP!LegalTransitions
BY RefinesStateMachine, MP!TransitionsAreLegal, CallersAssumption

\* Once Disable or Recover has stopped the update thread at most one more Body
\* begins, and between requests a thread is there exactly while m_spawned is set.
THEOREM ComponentStops == Spec => [](UP!TypeOK /\ UP!StopIsObeyed)
<1>1. ComponentInv => UP!TypeOK /\ UP!StopIsObeyed
  BY DEF ComponentInv, UP!ThreadInv, UP!StopInv, UP!StopIsObeyed
<1>2. QED
  BY <1>1, ComponentCorrect, PTL
=============================================================================
