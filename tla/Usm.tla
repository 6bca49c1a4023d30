-------------------------------- MODULE Usm --------------------------------
(***************************************************************************)
(* The state machine engine of usm.h: a current state guarded by a         *)
(* std::mutex, iterate_once() that runs the handler of the current state   *)
(* and takes a transition, get_state(), and the state_lock() and           *)
(* state_unlock() pair that derived classes bracket their own code with.   *)
(*                                                                         *)
(* Any number of threads call the engine.  The handler                     *)
(* (run_current_state), choose_next_state and print_transition are         *)
(* virtual: the handler may return any Transition, and each of the three   *)
(* may throw, in which case the lock_guard releases the mutex while the    *)
(* exception unwinds.  choose_next_state is what USM_TABLE expands to.     *)
(***************************************************************************)
EXTENDS UsmTable

CONSTANTS
  Threads,        \* threads that call the engine
  NoThread,       \* owner of a free mutex
  NoState,        \* value of a StateEnum local before it is initialised
  PrintRepeat     \* _print_repeat_transition

ASSUME ThreadsAssumption == NoThread \notin Threads
ASSUME NoStateAssumption == NoState \notin StateEnum
ASSUME PrintAssumption == PrintRepeat \in BOOLEAN

VARIABLES
  state_mutex,    \* _state_mutex: the thread holding it, or NoThread
  current_state,  \* _current_state
  pc,             \* where each thread is in its call
  frame,          \* per thread, the locals of the call it is in
  outcome         \* per thread, what its last finished call did (history)

vars == <<state_mutex, current_state, pc, frame, outcome>>

\* ran: the argument run_current_state was called with; t: what it returned;
\* new_state: the local of iterate_once.
EmptyFrame == [ran |-> NoState, t |-> "T_REPEAT", new_state |-> NoState]

NoOutcome == [kind |-> "none", from |-> StartingState, to |-> StartingState]

Init ==
  /\ state_mutex = NoThread
  /\ current_state = StartingState
  /\ pc = [th \in Threads |-> "idle"]
  /\ frame = [th \in Threads |-> EmptyFrame]
  /\ outcome = [th \in Threads |-> NoOutcome]

Goto(th, from, to) ==
  /\ pc[th] = from
  /\ pc' = [pc EXCEPT ![th] = to]

-----------------------------------------------------------------------------
(* A thread enters one of the four functions and then takes the mutex.     *)

Call(th) ==
  /\ \E to \in {"iterate_once", "get_state", "state_lock"} : Goto(th, "idle", to)
  /\ UNCHANGED <<state_mutex, current_state, frame, outcome>>

\* Mutant: the lock_guard is left out.
Acquire_Unlocked(th, from, to) ==
  /\ Goto(th, from, to)
  /\ state_mutex' = th
  /\ UNCHANGED <<current_state, frame, outcome>>

Acquire(th, from, to) ==
  /\ state_mutex = NoThread
  /\ Goto(th, from, to)
  /\ state_mutex' = th
  /\ UNCHANGED <<current_state, frame, outcome>>

IterateLock(th) == Acquire(th, "iterate_once", "run")
GetLock(th) == Acquire(th, "get_state", "read")
StateLock(th) == Acquire(th, "state_lock", "locked")

-----------------------------------------------------------------------------
(* iterate_once.                                                           *)

\* Mutant: the new state is used without asking the table for it.
Run_SkipsTable(th) ==
  \E t \in Transition :
    /\ Goto(th, "run", IF t # "T_REPEAT" THEN "print" ELSE "unlock")
    /\ frame' = [frame EXCEPT ![th] = [@ EXCEPT !.ran = current_state, !.t = t]]
    /\ UNCHANGED <<state_mutex, current_state, outcome>>

\* Mutant: a repeat asks the table for a state too.
Run_RepeatMoves(th) ==
  \E t \in Transition :
    /\ Goto(th, "run", "choose")
    /\ frame' = [frame EXCEPT ![th] = [@ EXCEPT !.ran = current_state, !.t = t]]
    /\ UNCHANGED <<state_mutex, current_state, outcome>>

\* Transition t = run_current_state(_current_state); if it repeats, only the
\* optional print is left to do.
Run(th) ==
  \E t \in Transition :
    /\ Goto(th, "run", IF t # "T_REPEAT" THEN "choose"
                       ELSE IF PrintRepeat THEN "print_repeat" ELSE "unlock")
    /\ frame' = [frame EXCEPT ![th] = [@ EXCEPT !.ran = current_state, !.t = t]]
    /\ UNCHANGED <<state_mutex, current_state, outcome>>

\* Mutant: the assignment comes before print_transition, which may throw.
Choose_AssignsFirst(th) ==
  /\ Goto(th, "choose", "print")
  /\ frame' = [frame EXCEPT ![th].new_state = ChooseNextState(current_state, frame[th].t)]
  /\ current_state' = ChooseNextState(current_state, frame[th].t)
  /\ UNCHANGED <<state_mutex, outcome>>

\* new_state = choose_next_state(_current_state, t)
Choose(th) ==
  /\ Goto(th, "choose", "print")
  /\ frame' = [frame EXCEPT ![th].new_state = ChooseNextState(current_state, frame[th].t)]
  /\ UNCHANGED <<state_mutex, current_state, outcome>>

\* print_transition(_current_state, new_state, t) returns; _current_state = new_state
Commit(th) ==
  /\ Goto(th, "print", "unlock")
  /\ current_state' = frame[th].new_state
  /\ UNCHANGED <<state_mutex, frame, outcome>>

\* print_transition(_current_state, _current_state, t)
PrintStay(th) ==
  /\ Goto(th, "print_repeat", "unlock")
  /\ UNCHANGED <<state_mutex, current_state, frame, outcome>>

\* The call ends: its locals go out of scope, the lock_guard first.
Leave(th, from, result) ==
  /\ Goto(th, from, "idle")
  /\ state_mutex' = NoThread
  /\ frame' = [frame EXCEPT ![th] = EmptyFrame]
  /\ outcome' = [outcome EXCEPT ![th] = result]
  /\ UNCHANGED current_state

\* return true after a transition, false after a repeat
IterateReturn(th) ==
  Leave(th, "unlock",
        [kind |-> IF frame[th].t = "T_REPEAT" THEN "repeated" ELSE "moved",
         from |-> frame[th].ran, to |-> current_state])

\* Mutant: lock() and unlock() in place of the lock_guard.
Throw_KeepsMutex(th) ==
  \E at \in {"run", "choose", "print", "print_repeat"} :
    /\ Goto(th, at, "idle")
    /\ frame' = [frame EXCEPT ![th] = EmptyFrame]
    /\ UNCHANGED <<state_mutex, current_state, outcome>>

\* An exception leaves run_current_state, choose_next_state or print_transition.
Throw(th) ==
  \E at \in {"run", "choose", "print", "print_repeat"} :
    Leave(th, at, [kind |-> "threw", from |-> current_state, to |-> current_state])

-----------------------------------------------------------------------------
(* get_state, and the code a derived class runs between state_lock() and   *)
(* state_unlock(): it cannot touch _current_state, which is private.       *)

\* return _current_state: the copy is made before the lock_guard is destroyed
GetRead(th) ==
  /\ Goto(th, "read", "got")
  /\ frame' = [frame EXCEPT ![th].ran = current_state]
  /\ UNCHANGED <<state_mutex, current_state, outcome>>

GetReturn(th) ==
  Leave(th, "got", [kind |-> "read", from |-> frame[th].ran, to |-> frame[th].ran])

StateUnlock(th) ==
  Leave(th, "locked", outcome[th])

-----------------------------------------------------------------------------

Lock(th) == IterateLock(th) \/ GetLock(th) \/ StateLock(th)

Holder(th) ==
  \/ Run(th) \/ Choose(th) \/ Commit(th) \/ PrintStay(th)
  \/ IterateReturn(th) \/ Throw(th)
  \/ GetRead(th) \/ GetReturn(th) \/ StateUnlock(th)

Next == \E th \in Threads : Call(th) \/ Lock(th) \/ Holder(th)

\* Handlers and bracketed code return or throw, and a free mutex that threads
\* wait for is given to one of them.  std::mutex promises no more than that: a
\* particular thread may wait for ever.
Fairness ==
  /\ \A th \in Threads : WF_vars(Holder(th))
  /\ WF_vars(\E th \in Threads : Lock(th))

Spec == Init /\ [][Next]_vars /\ Fairness

-----------------------------------------------------------------------------
(* Properties.                                                             *)

Waiting == {"iterate_once", "get_state", "state_lock"}
Iterating == {"run", "choose", "print", "print_repeat", "unlock"}
Holding == Iterating \cup {"read", "got", "locked"}

\* Types of every variable.
TypeOK ==
  /\ state_mutex \in Threads \cup {NoThread}
  /\ current_state \in StateEnum
  /\ pc \in [Threads -> {"idle"} \cup Waiting \cup Holding]
  /\ frame \in [Threads -> [ran : StateEnum \cup {NoState}, t : Transition,
                            new_state : StateEnum \cup {NoState}]]
  /\ outcome \in [Threads -> [kind : {"none", "moved", "repeated", "threw", "read"},
                              from : StateEnum, to : StateEnum]]

\* The mutex belongs to exactly the thread that is inside the engine.
LockInv ==
  \A th \in Threads : pc[th] \in Holding <=> state_mutex = th

\* While a thread is inside the engine and does not move itself, no other thread
\* changes anything the engine keeps: a derived class may rely on the state
\* staying what it is from state_lock() to state_unlock(), which are two calls
\* and not a scope (usm.h:46-50), and a handler on it from line 66 to 78.
EngineFrozen ==
  [][\A th \in Threads :
       pc[th] \in Holding /\ pc'[th] = pc[th] =>
         UNCHANGED <<state_mutex, current_state, frame, outcome>>]_vars

\* From the moment a handler ran until its transition is committed, the
\* machine is still in the state the handler ran in, and the state about to be
\* committed is the table's answer for that state and the handler's transition:
\* no other thread slips a transition in between (usm.h:66-71 reads
\* _current_state once for the handler, again for the table, again to print).
\* After the commit the machine is in the state the table gave, until the
\* mutex is released; get_state's copy is current for as long.
HandlerStateStable ==
  \A th \in Threads :
    /\ pc[th] \in {"choose", "print", "print_repeat", "got"} =>
         frame[th].ran = current_state
    /\ pc[th] \in {"choose", "print"} => frame[th].t # "T_REPEAT"
    /\ pc[th] = "print_repeat" => frame[th].t = "T_REPEAT"
    /\ pc[th] = "print" =>
         frame[th].new_state = ChooseNextState(frame[th].ran, frame[th].t)
    /\ pc[th] = "unlock" =>
         /\ frame[th].ran \in StateEnum
         /\ current_state = IF frame[th].t = "T_REPEAT" THEN frame[th].ran
                            ELSE ChooseNextState(frame[th].ran, frame[th].t)

\* The inductive invariant: the lock keeps the locals of a call in step with
\* the shared state, and that is what keeps an uninitialised local from ever
\* being committed or returned, so the types depend on it as well.
IInv == TypeOK /\ LockInv /\ HandlerStateStable

\* The state another caller could observe: a transition is observable only
\* when the lock_guard of the iterate_once that took it is gone.
VisibleState ==
  IF \E th \in Threads : pc[th] = "unlock"
  THEN frame[state_mutex].ran ELSE current_state

\* Every call is atomic: the engine implements UsmAtomic, each call taking
\* effect at the instant its lock_guard releases the mutex.
Atomic == INSTANCE UsmAtomic WITH state <- VisibleState
AtomicSpec == Atomic!Spec

\* A thread inside the engine always gets out of it, whatever the handler
\* returns or throws, and none keeps the mutex: whoever is inside, or owns it,
\* is later outside without it (the lock_guard of usm.h:66 on every path).
MutexReleased ==
  \A th \in Threads :
    (pc[th] \in Holding \/ state_mutex = th) ~> (pc[th] = "idle" /\ state_mutex # th)

\* As long as some thread waits for the engine, some thread gets into it: no
\* call ever leaves without its mutex.
WaitersProgress ==
  (\E th \in Threads : pc[th] \in Waiting) ~> (\E th \in Threads : pc[th] \in Holding)

=============================================================================
