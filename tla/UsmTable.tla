------------------------------ MODULE UsmTable ------------------------------
(***************************************************************************)
(* The data of a machine built with usm.h: its states, the transitions a   *)
(* handler may return, and the transition table that a derived class       *)
(* writes with the USM_TABLE / USM_STATE / USM_MAP macros.                 *)
(***************************************************************************)

CONSTANTS
  StateEnum,      \* template parameter StateEnum
  StartingState,  \* constructor argument startingState
  ErrorState,     \* argument "error" of USM_TABLE
  Table           \* the USM_MAP entries, a function <<state, transition>> -> state

Transition == {"T_REPEAT", "T_NEXT1", "T_NEXT2", "T_NEXT3", "T_NEXT4", "T_ERROR"}

ASSUME StatesAssumption ==
  /\ StartingState \in StateEnum
  /\ ErrorState \in StateEnum

\* Every USM_MAP entry takes a state and a transition to a state.
ASSUME TableAssumption ==
  /\ DOMAIN Table \subseteq StateEnum \X Transition
  /\ \A entry \in DOMAIN Table : Table[entry] \in StateEnum

\* The nested switches of USM_TABLE: an entry's case returns, every other case
\* breaks out to "return error".
ChooseNextState(state, t) ==
  IF <<state, t>> \in DOMAIN Table THEN Table[<<state, t>>] ELSE ErrorState

=============================================================================
