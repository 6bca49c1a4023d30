-------------------------- MODULE StatusWaitProofs --------------------------
(***************************************************************************)
(* The safety properties of StatusWait for any number of manager threads,  *)
(* any statuses, any script and any number of reports.                     *)
(***************************************************************************)
EXTENDS StatusWait, TLAPS

LEMMA InitIInv == Init => IInv
BY ScriptAssumption, ThreadsAssumption, BoundAssumption
DEF Init, IInv, TypeOK, ListGuarded, NoLostWakeup, PassedWasReported, MainHolds, Gone

-----------------------------------------------------------------------------
(* Type correctness, one lemma per party.                                  *)

\* A step of a callback thread.
CbStep(th) == Report(th) \/ CbLock(th) \/ CbPush(th) \/ CbNotify(th) \/ CbLost(th)

\* A step of Main inside a wait, and one outside.
WaitStep == Waiting \/ Timeout \/ SpuriousWakeup
OuterStep == NextWait \/ Destroy

LEMMA NextSteps == Next <=> (\E th \in Threads : CbStep(th)) \/ WaitStep \/ OuterStep
BY DEF Next, CbStep, Callback, WaitStep, OuterStep

LEMMA CbTypeOK ==
  ASSUME TypeOK, NEW th \in Threads, CbStep(th)
  PROVE  TypeOK'
<1> USE DEF TypeOK, CbGoto, mainVars
<1>1. CASE Report(th)
  BY <1>1, BoundAssumption DEF Report
<1>2. CASE CbLock(th)
  BY <1>2 DEF CbLock
<1>3. CASE CbPush(th)
  BY <1>3 DEF CbPush
<1>4. CASE CbNotify(th)
  BY <1>4 DEF CbNotify
<1>5. CASE CbLost(th)
  BY <1>5 DEF CbLost
<1> QED
  BY <1>1, <1>2, <1>3, <1>4, <1>5 DEF CbStep

LEMMA MainTypeOK ==
  ASSUME TypeOK, WaitStep \/ OuterStep
  PROVE  TypeOK'
BY ScriptAssumption
DEF TypeOK, WaitStep, Waiting, Enter, Reacquire, Acquire, Found, Block, GoRound, Timeout,
    SpuriousWakeup, OuterStep, NextWait, Destroy, Return, DestroyLocals, DestroyManager,
    DestroyNext, cbVars

-----------------------------------------------------------------------------
(* The list is used under its mutex.                                       *)

LEMMA CbListGuarded ==
  ASSUME IInv, NEW th \in Threads, CbStep(th)
  PROVE  ListGuarded'
<1> USE ThreadsAssumption DEF IInv, TypeOK, ListGuarded, MainHolds, Gone, CbGoto, mainVars
<1>1. CASE Report(th)
  BY <1>1 DEF Report
<1>2. CASE CbLock(th)
  BY <1>2 DEF CbLock
<1>3. CASE CbPush(th)
  BY <1>3 DEF CbPush
<1>4. CASE CbNotify(th)
  BY <1>4 DEF CbNotify
<1>5. CASE CbLost(th)
  BY <1>5 DEF CbLost
<1> QED
  BY <1>1, <1>2, <1>3, <1>4, <1>5 DEF CbStep

LEMMA MainListGuarded ==
  ASSUME IInv, WaitStep \/ OuterStep
  PROVE  ListGuarded'
<1> USE ThreadsAssumption DEF IInv, TypeOK, ListGuarded, MainHolds, Gone, cbVars
<1>1. CASE Enter \/ Reacquire
  BY <1>1 DEF Enter, Reacquire, Acquire
<1>2. CASE Found \/ Block \/ GoRound
  BY <1>2 DEF Found, Block, GoRound
<1>3. CASE Timeout \/ SpuriousWakeup
  BY <1>3 DEF Timeout, SpuriousWakeup
<1>4. CASE OuterStep
  BY <1>4 DEF OuterStep, NextWait, Destroy, Return, DestroyLocals, DestroyManager, DestroyNext
<1> QED
  BY <1>1, <1>2, <1>3, <1>4 DEF WaitStep, Waiting

-----------------------------------------------------------------------------
(* No wakeup is lost.                                                      *)

\* A push leaves its own thread about to notify; a notification wakes Main.
LEMMA CbNoLostWakeup ==
  ASSUME IInv, NEW th \in Threads, CbStep(th)
  PROVE  NoLostWakeup'
<1> USE DEF IInv, TypeOK, NoLostWakeup, Awaited, CbGoto, mainVars
<1>1. CASE Report(th)
  BY <1>1 DEF Report
<1>2. CASE CbLock(th)
  BY <1>2 DEF CbLock
<1>3. CASE CbPush(th)
  BY <1>3 DEF CbPush
<1>4. CASE CbNotify(th)
  BY <1>4 DEF CbNotify
<1>5. CASE CbLost(th)
  <2>1. pc # "blocked"
    BY <1>5 DEF CbLost, Gone
  <2> QED
    BY <1>5, <2>1 DEF CbLost
<1> QED
  BY <1>1, <1>2, <1>3, <1>4, <1>5 DEF CbStep

\* Main only falls asleep with the mutex held and the status not yet there.
LEMMA MainNoLostWakeup ==
  ASSUME IInv, WaitStep \/ OuterStep
  PROVE  NoLostWakeup'
<1> USE DEF IInv, TypeOK, NoLostWakeup, Awaited, cbVars
<1>1. CASE Block
  BY <1>1 DEF Block
<1>2. CASE WaitStep /\ ~Block
  <2>1. pc' # "blocked"
    BY <1>2 DEF WaitStep, Waiting, Enter, Reacquire, Acquire, Found, GoRound, Timeout,
       SpuriousWakeup
  <2> QED
    BY <2>1
<1>3. CASE OuterStep
  <2>1. pc' # "blocked"
    BY <1>3 DEF OuterStep, NextWait, Destroy, Return, DestroyLocals, DestroyManager, DestroyNext
  <2> QED
    BY <2>1
<1> QED
  BY <1>1, <1>2, <1>3

-----------------------------------------------------------------------------
(* What Main passed was reported.                                          *)

\* The list only grows, and no callback moves Main past a wait.
LEMMA CbPassedWasReported ==
  ASSUME IInv, NEW th \in Threads, CbStep(th)
  PROVE  PassedWasReported'
<1> USE DEF IInv, TypeOK, PassedWasReported, Gone, CbGoto, mainVars
<1>1. CASE Report(th)
  BY <1>1 DEF Report
<1>2. CASE CbLock(th)
  BY <1>2 DEF CbLock
<1>3. CASE CbPush(th)
  BY <1>3 DEF CbPush
<1>4. CASE CbNotify(th)
  BY <1>4 DEF CbNotify
<1>5. CASE CbLost(th)
  BY <1>5 DEF CbLost
<1> QED
  BY <1>1, <1>2, <1>3, <1>4, <1>5 DEF CbStep

LEMMA MainPassedWasReported ==
  ASSUME IInv, WaitStep \/ OuterStep
  PROVE  PassedWasReported'
<1> USE ScriptAssumption DEF IInv, TypeOK, PassedWasReported, Gone, cbVars
<1>1. CASE Enter \/ Reacquire
  BY <1>1 DEF Enter, Reacquire, Acquire
<1>2. CASE Found
  BY <1>2 DEF Found, Awaited
<1>3. CASE Block \/ GoRound \/ Timeout \/ SpuriousWakeup
  BY <1>3 DEF Block, GoRound, Timeout, SpuriousWakeup
<1>4. CASE NextWait
  BY <1>4 DEF NextWait
<1>5. CASE Destroy
  BY <1>5 DEF Destroy, Return, DestroyLocals, DestroyManager, DestroyNext
<1> QED
  BY <1>1, <1>2, <1>3, <1>4, <1>5 DEF WaitStep, Waiting, OuterStep

-----------------------------------------------------------------------------

LEMMA NextIInv == IInv /\ [Next]_vars => IInv'
<1> SUFFICES ASSUME IInv, [Next]_vars PROVE IInv'
  OBVIOUS
<1>1. CASE UNCHANGED vars
  BY <1>1 DEF vars, IInv, TypeOK, ListGuarded, NoLostWakeup, PassedWasReported, MainHolds,
     Gone, Awaited
<1>2. ASSUME NEW th \in Threads, CbStep(th) PROVE IInv'
  BY <1>2, CbTypeOK, CbListGuarded, CbNoLostWakeup, CbPassedWasReported DEF IInv
<1>3. CASE WaitStep \/ OuterStep
  BY <1>3, MainTypeOK, MainListGuarded, MainNoLostWakeup, MainPassedWasReported DEF IInv
<1> QED
  BY <1>1, <1>2, <1>3, NextSteps

\* The inductive invariant holds in every reachable state.
THEOREM Invariance == Spec => []IInv
BY InitIInv, NextIInv, PTL DEF Spec

\* Every variable keeps its type.
THEOREM TypeCorrect == Spec => []TypeOK
BY Invariance, PTL DEF IInv

\* The callback's push_back and the predicate's scan of status_list never
\* overlap, however many threads report (cm_master_test.cpp:95, 122).
THEOREM Guarded == Spec => []ListGuarded
BY Invariance, PTL DEF IInv

\* The test never sleeps on a status that is already in the list with nobody
\* left to wake it, although notify_one is called without the mutex
\* (cm_master_test.cpp:93-99).
THEOREM NoWakeupIsLost == Spec => []NoLostWakeup
BY Invariance, PTL DEF IInv

\* The test never gets past a status that was not reported.
THEOREM Sound == Spec => []PassedWasReported
BY Invariance, PTL DEF IInv

-----------------------------------------------------------------------------
(* StatusWait implements StatusAwait.                                      *)

LEMMA InitAwait == Init => Await!Init
BY DEF Init, Await!Init, PassedWaits, Gone

\* A push reports a status; whatever else a callback does cannot be seen.
LEMMA CbAwait ==
  ASSUME IInv, NEW th \in Threads, CbStep(th)
  PROVE  Await!Report \/ UNCHANGED Await!vars
<1> USE DEF IInv, TypeOK, PassedWaits, Gone, CbGoto, mainVars, Await!Report, Await!vars
<1>1. CASE Report(th)
  BY <1>1 DEF Report
<1>2. CASE CbLock(th)
  BY <1>2 DEF CbLock
<1>3. CASE CbPush(th)
  BY <1>3 DEF CbPush
<1>4. CASE CbNotify(th)
  BY <1>4 DEF CbNotify
<1>5. CASE CbLost(th)
  BY <1>5 DEF CbLost
<1> QED
  BY <1>1, <1>2, <1>3, <1>4, <1>5 DEF CbStep

\* Finding the status passes a wait, going on to the next one does not.
LEMMA MainAwait ==
  ASSUME IInv, WaitStep \/ OuterStep
  PROVE  Await!Pass \/ UNCHANGED Await!vars
<1> USE ScriptAssumption DEF IInv, TypeOK, PassedWaits, Gone, cbVars, Await!vars
<1>1. CASE Enter \/ Reacquire
  BY <1>1 DEF Enter, Reacquire, Acquire
<1>2. CASE Found
  <2>1. PassedWaits = step - 1 /\ PassedWaits' = step /\ Script[step] \in status_list
    BY <1>2 DEF Found, Awaited
  <2>2. step - 1 < Len(Script) /\ (step - 1) + 1 = step
    OBVIOUS
  <2> QED
    BY <1>2, <2>1, <2>2 DEF Found, Await!Pass
<1>3. CASE Block \/ GoRound \/ Timeout \/ SpuriousWakeup
  BY <1>3 DEF Block, GoRound, Timeout, SpuriousWakeup
<1>4. CASE NextWait
  BY <1>4 DEF NextWait
<1>5. CASE Destroy
  BY <1>5 DEF Destroy, Return, DestroyLocals, DestroyManager, DestroyNext
<1> QED
  BY <1>1, <1>2, <1>3, <1>4, <1>5 DEF WaitStep, Waiting, OuterStep

LEMMA NextAwait == IInv /\ [Next]_vars => [Await!Next]_Await!vars
<1> SUFFICES ASSUME IInv, [Next]_vars PROVE Await!Next \/ UNCHANGED Await!vars
  OBVIOUS
<1>1. CASE UNCHANGED vars
  BY <1>1 DEF vars, PassedWaits, Gone, Await!vars
<1>2. ASSUME NEW th \in Threads, CbStep(th) PROVE Await!Next \/ UNCHANGED Await!vars
  BY <1>2, CbAwait DEF Await!Next
<1>3. CASE WaitStep \/ OuterStep
  BY <1>3, MainAwait DEF Await!Next
<1> QED
  BY <1>1, <1>2, <1>3, NextSteps

\* To the test, waiting with the mutex and the condition variable is waiting
\* for one status after the other: PairingTests may take a wait for one step.
THEOREM Implements == Spec => Await!SafeSpec
BY InitAwait, NextAwait, Invariance, PTL DEF Spec, Await!SafeSpec

=============================================================================
