------------------------- MODULE StateMachineProofs -------------------------
(***************************************************************************)
(* StateMachine is right for any number of callers: the guard is exclusive *)
(* although it is only tried, the state does not change under the hooks of *)
(* a transition, and it only moves along the table or to Error.            *)
(***************************************************************************)
EXTENDS StateMachine, TLAPS

\* The inductive invariant: the types, who holds the guard, and that a pending
\* transition starts from the present state.
SMInv == TypeOK /\ GuardIsHeld /\ HooksSeeStartState

\* Every row of the transition table leads from a state to a state.
LEMMA RowsLemma == \A t \in Transitions : t.from \in State /\ t.to \in State
BY DEF Transitions, State, Step

\* The constructor leaves the machine in Off with the guard free.
LEMMA InitSM == Init => SMInv
<1> SUFFICES ASSUME Init PROVE SMInv
    OBVIOUS
<1>1. Step("Init", "Off", "Standby") \in Transitions
    BY DEF Transitions
<1>2. TypeOK
    BY <1>1 DEF Init, TypeOK, State
<1>3. GuardIsHeld /\ HooksSeeStartState
    BY FreeAssumption DEF Init, GuardIsHeld, HooksSeeStartState, Hooks
<1> QED
    BY <1>2, <1>3 DEF SMInv

\* Posting an event keeps the invariant: only a caller that finds the guard
\* free enters the hooks, with a row that starts from the present state.
LEMMA PostKeeps ==
    ASSUME SMInv, NEW c \in Callers, NEW e \in Events, Post(c, e)
    PROVE  SMInv' /\ state' = state
<1> USE DEF SMInv, TypeOK, GuardIsHeld, HooksSeeStartState, Hooks, Move
<1>1. CASE PostEvent(c, e)
  <2>1. PICK t \in Enabled(e) : pending' = [pending EXCEPT ![c] = t]
      BY <1>1 DEF PostEvent
  <2>2. t \in Transitions /\ t.from = state
      BY <2>1 DEF Enabled
  <2>3. TypeOK' /\ state' = state
      BY <1>1, <2>1, <2>2 DEF PostEvent
  <2>4. GuardIsHeld'
      BY <1>1, FreeAssumption DEF PostEvent
  <2>5. HooksSeeStartState'
      BY <1>1, <2>1, <2>2, FreeAssumption DEF PostEvent
  <2> QED
      BY <2>3, <2>4, <2>5
<1>2. CASE PostEventRefused(c, e)
    BY <1>2, FreeAssumption DEF PostEventRefused
<1>3. CASE PostEventDropped(c, e)
    BY <1>3, FreeAssumption DEF PostEventDropped
<1> QED
    BY <1>1, <1>2, <1>3 DEF Post

\* A step of a postEvent keeps the invariant, and changes the state only as
\* the table allows, or to Error.
LEMMA CarryKeeps ==
    ASSUME SMInv, NEW c \in Callers, Carry(c) \/ Return(c)
    PROVE  /\ SMInv'
           /\ state' # state =>
                 state' = "Error" \/ \E t \in Transitions : t.from = state /\ t.to = state'
<1> USE DEF SMInv, TypeOK, GuardIsHeld, HooksSeeStartState, Hooks, Move
<1>1. CASE ExitHook(c) \/ TransitionHook(c) \/ Return(c)
    BY <1>1, FreeAssumption DEF ExitHook, TransitionHook, Return
<1>2. CASE EntryHook(c)
  <2>1. pending[c] \in Transitions /\ pending[c].from = state
      BY <1>2 DEF EntryHook
  <2>2. state' = pending[c].to /\ state' \in State
      BY <1>2, <2>1, RowsLemma DEF EntryHook
  <2>3. TypeOK' /\ GuardIsHeld'
      BY <1>2, <2>2, FreeAssumption DEF EntryHook
  <2>4. HooksSeeStartState'
      BY <1>2, FreeAssumption DEF EntryHook
  <2> QED
      BY <2>1, <2>2, <2>3, <2>4
<1>3. CASE HookThrows(c)
    BY <1>3, FreeAssumption DEF HookThrows, State
<1>4. CASE Unlock(c)
    BY <1>4, FreeAssumption DEF Unlock
<1> QED
    BY <1>1, <1>2, <1>3, <1>4 DEF Carry

\* What one step, or a stutter, does.
LEMMA NextKeeps ==
    ASSUME SMInv, [Next]_smVars
    PROVE  /\ SMInv'
           /\ state' # state =>
                 state' = "Error" \/ \E t \in Transitions : t.from = state /\ t.to = state'
<1>1. CASE Next
  <2>1. PICK c \in Callers : (\E e \in Events : Post(c, e)) \/ Carry(c) \/ Return(c)
      BY <1>1 DEF Next
  <2>2. CASE \E e \in Events : Post(c, e)
      BY <2>2, PostKeeps
  <2>3. CASE Carry(c) \/ Return(c)
      BY <2>3, CarryKeeps
  <2> QED
      BY <2>1, <2>2, <2>3
<1>2. CASE UNCHANGED smVars
    BY <1>2 DEF smVars, SMInv, TypeOK, GuardIsHeld, HooksSeeStartState
<1> QED
    BY <1>1, <1>2

\* The inductive invariant holds in every reachable state.
THEOREM SMCorrect == Spec => []SMInv
<1>1. SMInv /\ [Next]_smVars => SMInv'
    BY NextKeeps
<1> QED
    BY InitSM, <1>1, PTL DEF Spec

\* The types, for any number of threads that post events: the state is one of
\* the table's five, also after a hook throws.
THEOREM SMTypes == Spec => []TypeOK
<1>1. SMInv => TypeOK
    BY DEF SMInv
<1> QED
    BY SMCorrect, <1>1, PTL

\* m_state_change_guard is held by exactly the caller between its try_lock and
\* its unlock, so at most one caller is there, and a hook that throws does not
\* leave it locked.
THEOREM GuardIsExclusive == Spec => []GuardIsHeld
<1>1. SMInv => GuardIsHeld
    BY DEF SMInv
<1> QED
    BY SMCorrect, <1>1, PTL

\* While hooks run, the state is the one their transition starts from, for any
\* number of threads that post events.
THEOREM HooksAreSerial == Spec => [](GuardIsHeld /\ HooksSeeStartState)
<1>1. SMInv => GuardIsHeld /\ HooksSeeStartState
    BY DEF SMInv
<1> QED
    BY SMCorrect, <1>1, PTL

\* The state only moves along the transition table or to Error, for any number
\* of threads that post events.
THEOREM TransitionsAreLegal == Spec => LegalTransitions
<1>1. SMInv /\ [Next]_smVars =>
        [state' # state =>
           state' = "Error" \/ \E t \in Transitions : t.from = state /\ t.to = state']_smVars
    BY NextKeeps
<1>2. Spec => [][Next]_smVars
    BY DEF Spec
<1> QED
    BY SMCorrect, <1>1, <1>2, PTL DEF LegalTransitions
=============================================================================
