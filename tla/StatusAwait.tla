---------------------------- MODULE StatusAwait -----------------------------
(***************************************************************************)
(* What a sequence of status waits promises (StatusWait has the locks and  *)
(* the condition variable behind it): statuses are reported in any order,  *)
(* and the test passes its waits one after the other, each at some time    *)
(* after the status it is for was reported.                                *)
(***************************************************************************)
EXTENDS Naturals, Sequences

CONSTANTS
  Codes,  \* the statuses there are
  Script  \* those the test waits for, in order

VARIABLES
  reported,  \* the statuses reported so far
  passed     \* how many waits of Script the test has passed

vars == <<reported, passed>>

Init ==
  /\ reported = {}
  /\ passed = 0

Report ==
  /\ \E c \in Codes : reported' = reported \cup {c}
  /\ UNCHANGED passed

Pass ==
  /\ passed < Len(Script)
  /\ Script[passed + 1] \in reported
  /\ passed' = passed + 1
  /\ UNCHANGED reported

Next == Report \/ Pass

SafeSpec == Init /\ [][Next]_vars

\* The test does not sleep through a status that was reported.
Spec == SafeSpec /\ WF_vars(Pass)

=============================================================================
