----------------------------- MODULE UsmProofs -----------------------------
(***************************************************************************)
(* The safety properties of Usm for any threads, states and table, and the *)
(* proof that the engine implements UsmAtomic.                             *)
(***************************************************************************)
EXTENDS Usm, TLAPS

\* A USM_TABLE answers with a state of the machine whatever it is asked: an
\* entry's state, or the error state when the entry is missing.
LEMMA ChooseNextStateType ==
  ASSUME NEW s \in StateEnum, NEW t \in Transition
  PROVE  ChooseNextState(s, t) \in StateEnum
BY StatesAssumption, TableAssumption DEF ChooseNextState

-----------------------------------------------------------------------------
(* The inductive invariant.                                                *)

LEMMA InitIInv == Init => IInv
BY StatesAssumption, ThreadsAssumption
DEF Init, IInv, TypeOK, LockInv, HandlerStateStable, EmptyFrame, NoOutcome,
    Transition, Waiting, Iterating, Holding

\* A thread that enters a function touches nothing shared.
LEMMA CallIInv ==
  ASSUME IInv, NEW th \in Threads, Call(th)
  PROVE  IInv'
BY DEF IInv, TypeOK, LockInv, HandlerStateStable, Call, Goto, Waiting, Iterating, Holding

\* Taking the mutex: only one thread is then inside the engine.
LEMMA LockIInv ==
  ASSUME IInv, NEW th \in Threads, Lock(th)
  PROVE  IInv'
<1>1. PICK from \in Waiting, to \in {"run", "read", "locked"} : Acquire(th, from, to)
  BY DEF Lock, IterateLock, GetLock, StateLock, Waiting
<1>2. TypeOK'
  BY <1>1 DEF IInv, TypeOK, Acquire, Goto, Waiting, Iterating, Holding
<1>3. LockInv'
  BY <1>1, ThreadsAssumption DEF IInv, TypeOK, LockInv, Acquire, Goto, Waiting, Iterating, Holding
<1>4. HandlerStateStable'
  BY <1>1 DEF IInv, TypeOK, HandlerStateStable, Acquire, Goto
<1> QED
  BY <1>2, <1>3, <1>4 DEF IInv

\* Steps of the thread that holds the mutex and keeps it.
LEMMA HolderKeepsIInv ==
  ASSUME IInv, NEW th \in Threads,
         Run(th) \/ Choose(th) \/ Commit(th) \/ PrintStay(th) \/ GetRead(th)
  PROVE  IInv'
<1> USE DEF IInv, Goto
<1>0. state_mutex = th /\ \A o \in Threads \ {th} : pc[o] \notin Holding
  BY DEF LockInv, TypeOK, Run, Choose, Commit, PrintStay, GetRead, Holding, Iterating
<1>1. CASE Run(th)
  <2>1. PICK t \in Transition :
          /\ pc' = [pc EXCEPT ![th] = IF t # "T_REPEAT" THEN "choose"
                                      ELSE IF PrintRepeat THEN "print_repeat" ELSE "unlock"]
          /\ frame' = [frame EXCEPT ![th] = [@ EXCEPT !.ran = current_state, !.t = t]]
          /\ UNCHANGED <<state_mutex, current_state, outcome>>
    BY <1>1 DEF Run
  <2>2. pc[th] = "run"
    BY <1>1 DEF Run
  <2>3. frame'[th].ran = current_state /\ frame'[th].t = t
        /\ frame'[th].new_state = frame[th].new_state
    <3>1. frame'[th] = [frame[th] EXCEPT !.ran = current_state, !.t = t]
      BY <2>1 DEF TypeOK
    <3>2. frame[th] \in [ran : StateEnum \cup {NoState}, t : Transition,
                         new_state : StateEnum \cup {NoState}]
      BY DEF TypeOK
    <3> QED
      BY <3>1, <3>2
  <2>4. TypeOK'
    BY <2>1 DEF TypeOK, Waiting, Iterating, Holding
  <2>5. LockInv'
    BY <2>1, <2>2 DEF TypeOK, LockInv, Waiting, Iterating, Holding
  <2>6. HandlerStateStable'
    BY <2>1, <2>3, <1>0 DEF TypeOK, HandlerStateStable, Holding, Iterating
  <2> QED
    BY <2>4, <2>5, <2>6
<1>2. CASE Choose(th)
  <2>1. ChooseNextState(current_state, frame[th].t) \in StateEnum
    BY ChooseNextStateType DEF TypeOK
  <2>2. TypeOK'
    BY <1>2, <2>1 DEF Choose, TypeOK, Waiting, Iterating, Holding
  <2>3. LockInv'
    BY <1>2 DEF Choose, TypeOK, LockInv, Waiting, Iterating, Holding
  <2>4. HandlerStateStable'
    BY <1>2, <1>0 DEF Choose, TypeOK, HandlerStateStable, Holding, Iterating
  <2> QED
    BY <2>2, <2>3, <2>4
<1>3. CASE Commit(th)
  <2>1. frame[th].new_state \in StateEnum
    BY <1>3, ChooseNextStateType DEF Commit, HandlerStateStable, TypeOK
  <2>2. TypeOK'
    BY <1>3, <2>1 DEF Commit, TypeOK, Waiting, Iterating, Holding
  <2>3. LockInv'
    BY <1>3 DEF Commit, TypeOK, LockInv, Waiting, Iterating, Holding
  <2>4. HandlerStateStable'
    BY <1>3, <1>0 DEF Commit, TypeOK, HandlerStateStable, Holding, Iterating
  <2> QED
    BY <2>2, <2>3, <2>4
<1>4. CASE PrintStay(th)
  BY <1>4 DEF PrintStay, TypeOK, LockInv, HandlerStateStable, Waiting, Iterating, Holding
<1>5. CASE GetRead(th)
  <2>1. TypeOK'
    BY <1>5 DEF GetRead, TypeOK, Waiting, Iterating, Holding
  <2>2. LockInv'
    BY <1>5 DEF GetRead, TypeOK, LockInv, Waiting, Iterating, Holding
  <2>3. HandlerStateStable'
    BY <1>5, <1>0 DEF GetRead, TypeOK, HandlerStateStable, Holding, Iterating
  <2> QED
    BY <2>1, <2>2, <2>3
<1> QED
  BY <1>1, <1>2, <1>3, <1>4, <1>5

\* A call that ends releases the mutex, whichever way it ends.
LEMMA LeaveIInv ==
  ASSUME IInv, NEW th \in Threads, NEW from \in Holding, NEW result,
         Leave(th, from, result),
         result \in [kind : {"none", "moved", "repeated", "threw", "read"},
                     from : StateEnum, to : StateEnum]
  PROVE  IInv'
<1> USE DEF IInv, Leave, Goto
<1>1. TypeOK'
  BY DEF TypeOK, EmptyFrame, Transition, Waiting, Iterating, Holding
<1>2. LockInv'
  BY ThreadsAssumption DEF TypeOK, LockInv, Waiting, Iterating, Holding
<1>3. HandlerStateStable'
  BY DEF TypeOK, HandlerStateStable
<1> QED
  BY <1>1, <1>2, <1>3

LEMMA HolderLeavesIInv ==
  ASSUME IInv, NEW th \in Threads,
         IterateReturn(th) \/ Throw(th) \/ GetReturn(th) \/ StateUnlock(th)
  PROVE  IInv'
<1> USE DEF IInv, Holding, Iterating
<1>1. CASE IterateReturn(th)
  <2>1. frame[th].ran \in StateEnum
    BY <1>1 DEF IterateReturn, Leave, Goto, HandlerStateStable
  <2> QED
    BY <1>1, <2>1, LeaveIInv DEF IterateReturn, TypeOK
<1>2. CASE Throw(th)
  BY <1>2, LeaveIInv DEF Throw, TypeOK
<1>3. CASE GetReturn(th)
  <2>1. frame[th].ran \in StateEnum
    BY <1>3 DEF GetReturn, Leave, Goto, HandlerStateStable, TypeOK
  <2> QED
    BY <1>3, <2>1, LeaveIInv DEF GetReturn, TypeOK
<1>4. CASE StateUnlock(th)
  BY <1>4, LeaveIInv DEF StateUnlock, TypeOK
<1> QED
  BY <1>1, <1>2, <1>3, <1>4

LEMMA NextIInv == IInv /\ [Next]_vars => IInv'
<1> SUFFICES ASSUME IInv, [Next]_vars PROVE IInv'
  OBVIOUS
<1>1. CASE UNCHANGED vars
  BY <1>1 DEF vars, IInv, TypeOK, LockInv, HandlerStateStable, Waiting, Iterating, Holding
<1>2. CASE Next
  BY <1>2, CallIInv, LockIInv, HolderKeepsIInv, HolderLeavesIInv DEF Next, Holder
<1> QED
  BY <1>1, <1>2

\* The inductive invariant holds in every reachable state.
THEOREM Invariance == Spec => []IInv
BY InitIInv, NextIInv, PTL DEF Spec

\* Every variable keeps its type; no uninitialised StateEnum is ever committed
\* to _current_state or returned (usm.h:64-86).
THEOREM TypeCorrect == Spec => []TypeOK
BY Invariance, PTL DEF IInv

\* Only the owner of _state_mutex is inside iterate_once, get_state or a
\* state_lock() bracket, and whoever is outside does not own it.
THEOREM MutualExclusion == Spec => []LockInv
BY Invariance, PTL DEF IInv

\* The state a handler ran in is the state its transition is taken from, for
\* any number of threads, any handler and any table.
THEOREM StableState == Spec => []HandlerStateStable
BY Invariance, PTL DEF IInv

-----------------------------------------------------------------------------
(* What a thread inside the engine may rely on.                            *)

\* A step that changes something of the engine is a step of the thread inside
\* it, or is taken while nobody is inside.
LEMMA NextFrozen ==
  ASSUME IInv, [Next]_vars, NEW th \in Threads, pc[th] \in Holding, pc'[th] = pc[th]
  PROVE  UNCHANGED <<state_mutex, current_state, frame, outcome>>
<1> USE DEF Goto
<1>1. state_mutex = th
  BY DEF IInv, LockInv
<1>2. CASE UNCHANGED vars
  BY <1>2 DEF vars
<1>3. ASSUME NEW u \in Threads, Call(u)
      PROVE  UNCHANGED <<state_mutex, current_state, frame, outcome>>
  BY <1>3 DEF Call
<1>4. ASSUME NEW u \in Threads, Lock(u)
      PROVE  FALSE
  BY <1>1, <1>4, ThreadsAssumption DEF Lock, IterateLock, GetLock, StateLock, Acquire
<1>5. ASSUME NEW u \in Threads, Holder(u)
      PROVE  FALSE
  <2>1. pc[u] \in Holding
    BY <1>5 DEF Holder, Run, Choose, Commit, PrintStay, IterateReturn, Throw, GetRead,
                GetReturn, StateUnlock, Leave, Holding, Iterating
  <2>2. u = th
    BY <1>1, <2>1 DEF IInv, LockInv
  <2>3. pc'[u] # pc[u]
    <3>1. CASE Run(u)
      BY <3>1 DEF Run, IInv, TypeOK
    <3>2. CASE Choose(u) \/ Commit(u) \/ PrintStay(u) \/ GetRead(u)
      BY <3>2 DEF Choose, Commit, PrintStay, GetRead, IInv, TypeOK
    <3>3. CASE IterateReturn(u) \/ Throw(u) \/ GetReturn(u) \/ StateUnlock(u)
      BY <3>3 DEF IterateReturn, Throw, GetReturn, StateUnlock, Leave, IInv, TypeOK
    <3> QED
      BY <1>5, <3>1, <3>2, <3>3 DEF Holder
  <2> QED
    BY <2>2, <2>3
<1> QED
  BY <1>2, <1>3, <1>4, <1>5 DEF Next

\* Nothing of the engine changes under a thread that is inside it, for any
\* number of threads: what the bracket of state_lock() and state_unlock() is for.
THEOREM FrozenEngine == Spec => EngineFrozen
<1>1. IInv /\ [Next]_vars =>
        [\A th \in Threads :
           pc[th] \in Holding /\ pc'[th] = pc[th] =>
             UNCHANGED <<state_mutex, current_state, frame, outcome>>]_vars
  BY NextFrozen
<1> QED
  BY <1>1, Invariance, PTL DEF Spec, EngineFrozen

-----------------------------------------------------------------------------
(* Which states a table can lead to.                                       *)

\* A set of states that the table, its error state included, never leads out of.
Closed(R) ==
  /\ StartingState \in R
  /\ \A s \in R, t \in Transition \ {"T_REPEAT"} : ChooseNextState(s, t) \in R

\* The machine, what it is about to become and what get_state is about to
\* return are all in R.
StaysIn(R) ==
  /\ current_state \in R
  /\ \A th \in Threads :
       /\ pc[th] = "print" => frame[th].new_state \in R
       /\ pc[th] = "got" => frame[th].ran \in R

LEMMA NextStaysIn ==
  ASSUME NEW R \in SUBSET StateEnum, Closed(R), IInv, IInv', StaysIn(R), [Next]_vars
  PROVE  StaysIn(R)'
<1> USE DEF Goto
<1>1. current_state' \in R
  <2>1. CASE UNCHANGED current_state
    BY <2>1 DEF StaysIn
  <2>2. CASE \E th \in Threads : Commit(th)
    BY <2>2 DEF Commit, StaysIn
  <2> QED
    BY <2>1, <2>2 DEF Next, Call, Lock, IterateLock, GetLock, StateLock, Acquire, Holder, Run,
          Choose, PrintStay, IterateReturn, Throw, GetRead, GetReturn, StateUnlock, Leave, vars
<1>2. ASSUME NEW th \in Threads, pc'[th] = "print"
      PROVE  frame'[th].new_state \in R
  <2>1. /\ frame'[th].ran = current_state' /\ frame'[th].t \in Transition \ {"T_REPEAT"}
        /\ frame'[th].new_state = ChooseNextState(frame'[th].ran, frame'[th].t)
    BY <1>2 DEF IInv, TypeOK, HandlerStateStable
  <2> QED
    BY <1>1, <2>1 DEF Closed
<1>3. ASSUME NEW th \in Threads, pc'[th] = "got"
      PROVE  frame'[th].ran \in R
  BY <1>1, <1>3 DEF IInv, HandlerStateStable
<1> QED
  BY <1>1, <1>2, <1>3 DEF StaysIn

\* The machine is never in a state its table does not lead to from the starting
\* state: a set that contains the starting state and that no entry of the table
\* and no missing entry (the error state of USM_TABLE, usm.h:113-129) leads out
\* of is never left, however many threads iterate and whatever handlers return
\* or throw.  get_state returns members of that set only.
THEOREM ClosedStates ==
  ASSUME NEW R \in SUBSET StateEnum, Closed(R)
  PROVE  Spec => []StaysIn(R)
<1>1. Init => StaysIn(R)
  BY DEF Init, StaysIn, Closed
<1>2. IInv /\ IInv' /\ StaysIn(R) /\ [Next]_vars => StaysIn(R)'
  BY NextStaysIn
<1> QED
  BY <1>1, <1>2, Invariance, PTL DEF Spec

-----------------------------------------------------------------------------
(* Refinement: a call takes effect when its lock_guard is destroyed.       *)

LEMMA InitAtomic == Init => Atomic!Init
BY DEF Init, Atomic!Init, VisibleState, NoOutcome, Atomic!NoOutcome

\* While a thread has committed or repeated and not yet released the mutex,
\* callers still see the state its handler ran in.
LEMMA VisibleOfOwner ==
  ASSUME IInv, NEW th \in Threads, state_mutex = th
  PROVE  VisibleState = IF pc[th] = "unlock" THEN frame[th].ran ELSE current_state
BY DEF IInv, LockInv, Holding, Iterating, VisibleState

LEMMA VisibleOfFree ==
  ASSUME IInv, state_mutex = NoThread
  PROVE  VisibleState = current_state
BY ThreadsAssumption DEF IInv, LockInv, Holding, Iterating, VisibleState

\* Every step of the engine is a step of UsmAtomic, or leaves what callers can
\* observe alone.
LEMMA NextAtomic ==
  ASSUME IInv, IInv', [Next]_vars
  PROVE  [Atomic!Next]_Atomic!vars
<1> USE DEF Goto, Atomic!vars
<1>0. CASE UNCHANGED vars
  BY <1>0 DEF vars, VisibleState
<1>1. ASSUME NEW th \in Threads, Call(th)
      PROVE  UNCHANGED Atomic!vars
  <2>1. \A o \in Threads : pc'[o] = "unlock" <=> pc[o] = "unlock"
    BY <1>1 DEF Call, IInv, TypeOK
  <2> QED
    BY <1>1, <2>1 DEF Call, VisibleState
<1>2. ASSUME NEW th \in Threads, Lock(th)
      PROVE  UNCHANGED Atomic!vars
  <2>1. \A o \in Threads : pc[o] # "unlock" /\ pc'[o] # "unlock"
    BY <1>2, ThreadsAssumption
    DEF Lock, IterateLock, GetLock, StateLock, Acquire, IInv, TypeOK, LockInv, Holding, Iterating
  <2> QED
    BY <1>2, <2>1 DEF Lock, IterateLock, GetLock, StateLock, Acquire, VisibleState
<1>3. ASSUME NEW th \in Threads,
             Run(th) \/ Choose(th) \/ Commit(th) \/ PrintStay(th) \/ GetRead(th)
      PROVE  UNCHANGED Atomic!vars
  <2>1. state_mutex = th /\ state_mutex' = th
    BY <1>3 DEF Run, Choose, Commit, PrintStay, GetRead, IInv, LockInv, Holding, Iterating
  <2>2. VisibleState = current_state
    BY <1>3, <2>1, VisibleOfOwner DEF Run, Choose, Commit, PrintStay, GetRead
  <2>3. VisibleState' = IF pc'[th] = "unlock" THEN frame'[th].ran ELSE current_state'
    BY <2>1 DEF IInv, LockInv, Holding, Iterating, VisibleState
  <2>4. VisibleState' = current_state
    <3>1. CASE Run(th)
      BY <3>1, <2>3 DEF Run, IInv, TypeOK
    <3>2. CASE Choose(th)
      BY <3>2, <2>3 DEF Choose, IInv, TypeOK
    <3>3. CASE Commit(th)
      BY <3>3, <2>3 DEF Commit, IInv, TypeOK, HandlerStateStable
    <3>4. CASE PrintStay(th)
      BY <3>4, <2>3 DEF PrintStay, IInv, TypeOK, HandlerStateStable
    <3>5. CASE GetRead(th)
      BY <3>5, <2>3 DEF GetRead, IInv, TypeOK
    <3> QED
      BY <1>3, <3>1, <3>2, <3>3, <3>4, <3>5
  <2>5. outcome' = outcome
    BY <1>3 DEF Run, Choose, Commit, PrintStay, GetRead
  <2> QED
    BY <2>2, <2>4, <2>5
<1>4. ASSUME NEW th \in Threads, NEW from \in Holding, NEW result, Leave(th, from, result)
      PROVE  /\ VisibleState = IF from = "unlock" THEN frame[th].ran ELSE current_state
             /\ VisibleState' = current_state
             /\ outcome' = [outcome EXCEPT ![th] = result]
  <2>1. VisibleState = IF from = "unlock" THEN frame[th].ran ELSE current_state
    BY <1>4, VisibleOfOwner DEF Leave, IInv, LockInv
  <2>2. \A o \in Threads : pc'[o] # "unlock"
    BY <1>4, ThreadsAssumption DEF Leave, IInv, LockInv, Holding, Iterating
  <2> QED
    BY <1>4, <2>1, <2>2 DEF Leave, VisibleState
<1>5. ASSUME NEW th \in Threads, IterateReturn(th)
      PROVE  Atomic!Next
  <2>1. /\ VisibleState = frame[th].ran
        /\ VisibleState' = current_state
        /\ outcome' = [outcome EXCEPT ![th] =
             [kind |-> IF frame[th].t = "T_REPEAT" THEN "repeated" ELSE "moved",
              from |-> frame[th].ran, to |-> current_state]]
    BY <1>5, <1>4 DEF IterateReturn, Holding, Iterating
  <2>2. pc[th] = "unlock" /\ frame[th].t \in Transition
    BY <1>5 DEF IterateReturn, Leave, IInv, TypeOK
  <2>3. CASE frame[th].t = "T_REPEAT"
    <3>1. Atomic!Finish(th, "repeated", VisibleState)
      BY <2>1, <2>2, <2>3 DEF Atomic!Finish, IInv, HandlerStateStable
    <3> QED
      BY <3>1 DEF Atomic!Next, Atomic!Stay
  <2>4. CASE frame[th].t # "T_REPEAT"
    <3>1. current_state = Atomic!ChooseNextState(VisibleState, frame[th].t)
      BY <2>1, <2>2, <2>4
      DEF IInv, HandlerStateStable, ChooseNextState, Atomic!ChooseNextState
    <3>2. Atomic!Finish(th, "moved", Atomic!ChooseNextState(VisibleState, frame[th].t))
      BY <2>1, <2>4, <3>1 DEF Atomic!Finish
    <3> QED
      BY <3>2, <2>2, <2>4 DEF Atomic!Next, Atomic!Move, Transition, Atomic!Transition
  <2> QED
    BY <2>3, <2>4
<1>6. ASSUME NEW th \in Threads, Throw(th)
      PROVE  Atomic!Next
  <2>1. PICK at \in {"run", "choose", "print", "print_repeat"} :
          Leave(th, at, [kind |-> "threw", from |-> current_state, to |-> current_state])
    BY <1>6 DEF Throw
  <2>2. Atomic!Finish(th, "threw", VisibleState)
    BY <2>1, <1>4 DEF Atomic!Finish, Holding, Iterating
  <2> QED
    BY <2>2 DEF Atomic!Next, Atomic!Stay
<1>7. ASSUME NEW th \in Threads, GetReturn(th)
      PROVE  Atomic!Next
  <2>1. frame[th].ran = current_state
    BY <1>7 DEF GetReturn, Leave, IInv, HandlerStateStable
  <2>2. Atomic!Finish(th, "read", VisibleState)
    BY <1>7, <2>1, <1>4 DEF GetReturn, Atomic!Finish, Holding
  <2> QED
    BY <2>2 DEF Atomic!Next, Atomic!Stay
<1>8. ASSUME NEW th \in Threads, StateUnlock(th)
      PROVE  UNCHANGED Atomic!vars
  <2>1. VisibleState' = VisibleState
    BY <1>8, <1>4 DEF StateUnlock, Holding
  <2>2. outcome' = outcome
    BY <1>8 DEF StateUnlock, Leave, IInv, TypeOK
  <2> QED
    BY <2>1, <2>2
<1> QED
  BY <1>0, <1>1, <1>2, <1>3, <1>5, <1>6, <1>7, <1>8 DEF Next, Holder

\* The engine implements the lock-free specification UsmAtomic: each call of
\* iterate_once and get_state is atomic to its callers.
THEOREM Implements == Spec => AtomicSpec
<1>1. IInv /\ IInv' /\ [Next]_vars => [Atomic!Next]_Atomic!vars
  BY NextAtomic
<1> QED
  BY <1>1, Invariance, InitAtomic, PTL DEF Spec, AtomicSpec, Atomic!Spec

=============================================================================
