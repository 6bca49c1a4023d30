----------------------------- MODULE UsmAtomic -----------------------------
(***************************************************************************)
(* What usm::StateMachine promises its callers: every call happens at one  *)
(* instant.  A call of iterate_once either takes one transition of the     *)
(* table, or repeats, or fails and leaves the state alone; get_state       *)
(* returns the state of that instant.  Nothing is said of locks.           *)
(***************************************************************************)
EXTENDS UsmTable

CONSTANT Threads

VARIABLES
  state,    \* the state a caller can observe
  outcome   \* per thread, what its last finished call did

vars == <<state, outcome>>

Outcome == [kind : {"none", "moved", "repeated", "threw", "read"},
            from : StateEnum, to : StateEnum]

NoOutcome == [kind |-> "none", from |-> StartingState, to |-> StartingState]

Init ==
  /\ state = StartingState
  /\ outcome = [th \in Threads |-> NoOutcome]

\* The call ends with the machine in state next.
Finish(th, kind, next) ==
  /\ state' = next
  /\ outcome' = [outcome EXCEPT ![th] = [kind |-> kind, from |-> state, to |-> next]]

\* iterate_once returns true.
Move(th) ==
  \E t \in Transition \ {"T_REPEAT"} : Finish(th, "moved", ChooseNextState(state, t))

\* iterate_once returns false, lets an exception out, or get_state returns.
Stay(th) ==
  \E kind \in {"repeated", "threw", "read"} : Finish(th, kind, state)

Next == \E th \in Threads : Move(th) \/ Stay(th)

Spec == Init /\ [][Next]_vars

=============================================================================
