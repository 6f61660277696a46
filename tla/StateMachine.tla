---------------------------- MODULE StateMachine ----------------------------
(***************************************************************************)
(* The state machine of a component, include/daoComponentStateMachine.hpp. *)
(* Any thread may call postEvent: the threads that answer commands, the    *)
(* one that constructs the component, the workers that report a failure.   *)
(* The guard is only tried, never waited for: an event that finds it taken *)
(* is dropped.  The hooks are user code, run with the guard held; each may *)
(* throw.                                                                  *)
(***************************************************************************)
CONSTANTS Callers,      \* the threads that post events
          Free          \* not a caller: nobody holds m_state_change_guard

ASSUME FreeAssumption == Free \notin Callers

VARIABLES state,        \* m_state
          guard,        \* who holds m_state_change_guard
          at,           \* where each caller is in postEvent
          pending       \* the transition each caller is carrying out

smVars == <<state, guard, at, pending>>

State == {"Error", "Off", "Standby", "Idle", "Running"}

Events == {"Init", "Stop", "Enable", "Disable", "Run", "Idle", "OnFailure", "Recover"}

Step(e, s, t) == [event |-> e, from |-> s, to |-> t]

\* m_event_state_transitions.
Transitions ==
    { Step("Init",      "Off",     "Standby"),
      Step("Stop",      "Standby", "Off"),
      Step("Enable",    "Standby", "Idle"),
      Step("Disable",   "Idle",    "Standby"),
      Step("Run",       "Idle",    "Running"),
      Step("Idle",      "Running", "Idle"),
      Step("OnFailure", "Idle",    "Error"),
      Step("OnFailure", "Running", "Error"),
      Step("Recover",   "Error",   "Idle") }

\* The rows of the table that a lookup of event e finds.
Enabled(e) == {t \in Transitions : t.event = e /\ t.from = state}

Hooks == {"exit", "transition", "entry"}

Init ==
    /\ state = "Off"
    /\ guard = Free
    /\ at = [c \in Callers |-> "out"]
    /\ pending = [c \in Callers |-> Step("Init", "Off", "Standby")]

Move(c, from, to) == at[c] = from /\ at' = [at EXCEPT ![c] = to]

-----------------------------------------------------------------------------
\* Mutant: the guard is not looked at.
PostEventUnguarded(c, e) ==
    /\ Move(c, "out", "exit")
    /\ guard' = c
    /\ \E t \in Enabled(e) : pending' = [pending EXCEPT ![c] = t]
    /\ UNCHANGED state

\* try_lock succeeds and the table has a row for the event in this state.
PostEvent(c, e) ==
    /\ Move(c, "out", "exit")
    /\ guard = Free
    /\ guard' = c
    /\ \E t \in Enabled(e) : pending' = [pending EXCEPT ![c] = t]
    /\ UNCHANGED state

\* "Could not change state."
PostEventRefused(c, e) ==
    /\ Move(c, "out", "unlock")
    /\ guard = Free
    /\ guard' = c
    /\ Enabled(e) = {}
    /\ UNCHANGED <<state, pending>>

\* "Unable to get mutex for event".
PostEventDropped(c, e) ==
    /\ Move(c, "out", "returned")
    /\ guard # Free
    /\ UNCHANGED <<state, guard, pending>>

\* changeState: exit hook, transition function, entry hook, store.
ExitHook(c) == Move(c, "exit", "transition") /\ UNCHANGED <<state, guard, pending>>

TransitionHook(c) == Move(c, "transition", "entry") /\ UNCHANGED <<state, guard, pending>>

EntryHook(c) ==
    /\ Move(c, "entry", "unlock")
    /\ state' = pending[c].to
    /\ UNCHANGED <<guard, pending>>

\* Mutant: an exception leaves postEvent with the guard still locked.
HookThrowsLocked(c) ==
    /\ at[c] \in Hooks
    /\ at' = [at EXCEPT ![c] = "returned"]
    /\ state' = "Error"
    /\ UNCHANGED <<guard, pending>>

\* Mutant: an exception leaves the zero value of the enumeration.
HookThrowsNone(c) ==
    /\ at[c] \in Hooks
    /\ at' = [at EXCEPT ![c] = "unlock"]
    /\ state' = "None_"
    /\ UNCHANGED <<guard, pending>>

\* A hook throws a std::exception: the state is Error whatever was asked.
HookThrows(c) ==
    /\ at[c] \in Hooks
    /\ at' = [at EXCEPT ![c] = "unlock"]
    /\ state' = "Error"
    /\ UNCHANGED <<guard, pending>>

Unlock(c) ==
    /\ Move(c, "unlock", "returned")
    /\ guard' = Free
    /\ UNCHANGED <<state, pending>>

Return(c) == Move(c, "returned", "out") /\ UNCHANGED <<state, guard, pending>>

Post(c, e) == PostEvent(c, e) \/ PostEventRefused(c, e) \/ PostEventDropped(c, e)

\* The steps of a postEvent that has started; the hooks return.
Carry(c) ==
    \/ ExitHook(c) \/ TransitionHook(c) \/ EntryHook(c)
    \/ HookThrows(c)
    \/ Unlock(c)

Next ==
    \E c \in Callers :
        \/ \E e \in Events : Post(c, e)
        \/ Carry(c)
        \/ Return(c)

Spec == Init /\ [][Next]_smVars

FairSpec == Spec /\ \A c \in Callers : WF_smVars(Carry(c)) /\ WF_smVars(Return(c))
-----------------------------------------------------------------------------
(***************************************************************************)
(* Properties.                                                             *)
(***************************************************************************)
\* The types of the state, the guard and the callers' places.
TypeOK ==
    /\ state \in State
    /\ guard \in Callers \cup {Free}
    /\ at \in [Callers -> {"out", "unlock", "returned"} \cup Hooks]
    /\ pending \in [Callers -> Transitions]

\* m_state_change_guard is held by exactly the caller that is between its
\* try_lock and its unlock.
GuardIsHeld == \A c \in Callers : at[c] \in Hooks \cup {"unlock"} <=> guard = c

\* While a caller runs the hooks of a transition the state is still the one
\* the transition starts from: no other event, and no failure reported from
\* another thread, takes effect under it.
HooksSeeStartState ==
    \A c \in Callers : at[c] \in Hooks => state = pending[c].from

\* The state only changes along a row of the table, or to Error.
LegalTransitions ==
    [][state' # state =>
          state' = "Error" \/ \E t \in Transitions : t.from = state /\ t.to = state']_smVars

\* A caller that was not turned away by the guard is carried through: it gets
\* out of the hooks and gives the guard back, also when a hook throws.
GuardIsReleased == \A c \in Callers : guard = c ~> guard = Free
=============================================================================
