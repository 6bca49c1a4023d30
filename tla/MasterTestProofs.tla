-------------------------- MODULE MasterTestProofs --------------------------
(***************************************************************************)
(* The safety of MasterTest for any number of manager threads, vehicles,   *)
(* reports and list changes: what StatusWaitProofs shows of the waits      *)
(* carries over, the pairing wait is sound, and, when one thread changes   *)
(* the list, no callback is stuck on the mutex that Main keeps.            *)
(***************************************************************************)
EXTENDS MasterTest, StatusWaitProofs

-----------------------------------------------------------------------------
(* The test is a StatusWait: every step is one of its steps, or changes    *)
(* none of its variables.                                                  *)

\* A step of a thread of the manager, and a step of Main, in the pairing part.
PcbStep(th) ==
  \/ th \in PairingThreads /\ PairingChange(th)
  \/ FlagCallback(th) \/ FlagLost(th)

PpcStep == Pairing \/ PairingSpuriousWakeup \/ Unwind \/ DestroyPairing

LEMMA PcbStepKeepsStatus == \A th \in Threads : PcbStep(th) => UNCHANGED vars
BY DEF PcbStep, PairingChange, FlagCallback, FlagTest, FlagLock, FlagSet, FlagNotify, FlagLost,
   PcbGoto

LEMMA PpcStepKeepsStatus == PpcStep => UNCHANGED vars
BY DEF PpcStep, Pairing, PairingSpuriousWakeup, Unwind, DestroyPairing, EnterPairingMode,
   LockPairing, PairingCalled, PairingBlock, GetPairingList, PairTo, PpcGoto

\* A step of StatusWait, which leaves the pairing part alone.
StatusStep == Next /\ UNCHANGED pairingVars

LEMMA TestNextSteps ==
  TestNext => \/ StatusStep
              \/ \E th \in Threads : PcbStep(th)
              \/ PpcStep
<1> SUFFICES ASSUME TestNext
             PROVE  StatusStep \/ (\E th \in Threads : PcbStep(th)) \/ PpcStep
  OBVIOUS
<1>1. ASSUME NEW th \in PairingThreads, PairingChange(th) PROVE PcbStep(th) /\ th \in Threads
  BY <1>1, PairingAssumption DEF PcbStep
<1>2. ASSUME NEW th \in Threads,
             \/ TestReport(th)
             \/ Callback(th) /\ UNCHANGED pairingVars
             \/ CbLost(th) /\ UNCHANGED pairingVars
             \/ FlagCallback(th) \/ FlagLost(th)
      PROVE  StatusStep \/ PcbStep(th)
  BY <1>2 DEF StatusStep, PcbStep, TestReport, Next
<1>3. CASE TestWaiting \/ ((Timeout \/ SpuriousWakeup) /\ UNCHANGED pairingVars)
  BY <1>3 DEF TestWaiting, StatusStep, Next
<1>4. CASE Pairing \/ PairingSpuriousWakeup
  BY <1>4 DEF PpcStep
<1>5. CASE TestEnd
  BY <1>5 DEF TestEnd, TestNextWait, TestReturn, TestDestroy, TestDestroyManager, PpcStep,
     StatusStep, Next, Destroy
<1> QED
  BY <1>1, <1>2, <1>3, <1>4, <1>5 DEF TestNext

LEMMA StepMapsToStatusWait == [TestNext]_testVars => [Next]_vars
<1> SUFFICES ASSUME [TestNext]_testVars PROVE [Next]_vars
  OBVIOUS
<1>1. CASE TestNext
  BY <1>1, TestNextSteps, PcbStepKeepsStatus, PpcStepKeepsStatus DEF StatusStep
<1>2. CASE UNCHANGED testVars
  BY <1>2 DEF testVars
<1> QED
  BY <1>1, <1>2

\* The waits of the test behave as StatusWait describes them.
THEOREM TestImplementsWait == TestSpec => Init /\ [][Next]_vars
<1>1. TestInit => Init
  BY DEF TestInit
<1> QED
  BY <1>1, StepMapsToStatusWait, PTL DEF TestSpec, TestSafetySpec

\* What was proved of the waits holds in the test.
THEOREM WaitInvariance == TestSpec => []IInv
BY TestImplementsWait, InitIInv, NextIInv, PTL

\* So the pairing test, too, only passes a wait for a status that was reported,
\* one wait after the other, whatever it does between them.
THEOREM TestImplementsAwait == TestSpec => Await!SafeSpec
BY TestImplementsWait, WaitInvariance, InitAwait, NextAwait, PTL DEF Await!SafeSpec

-----------------------------------------------------------------------------
(* The invariant of the pairing part.                                      *)

\* Up to pair_to Main is in its first wait, and from get_pairing_list on, and not
\* before, it has a vehicle: what makes WaitsForAVehicle inductive.
PairingStage ==
  /\ ppc \in {"before", "lock", "check", "blocked", "woken", "list", "unwind"} =>
       vehicle = NoVehicle
  /\ ppc \in {"before", "lock", "check", "blocked", "woken", "list", "got", "unwind"} => step = 1
  /\ ppc \in {"got", "paired"} => vehicle \in Vehicles
  /\ step > 1 => vehicle \in Vehicles

TestIInv == IInv /\ TestTypeOK /\ PairingGuarded /\ NoLostPairing /\ PairingStage

LEMMA StageImpliesVehicle == TestIInv => WaitsForAVehicle
BY DEF TestIInv, PairingStage, WaitsForAVehicle, IInv, TypeOK

LEMMA TestInitIInv == TestInit => TestIInv
<1> SUFFICES ASSUME TestInit PROVE TestIInv
  OBVIOUS
<1>1. IInv
  BY InitIInv DEF TestInit
<1>2. TestTypeOK
  <2>1. TypeOK
    BY <1>1 DEF IInv
  <2>2. changes \in 0..MaxChanges
    BY PairingAssumption DEF TestInit
  <2> QED
    BY <2>1, <2>2 DEF TestInit, TestTypeOK, HoldsPairing
<1>3. PairingGuarded /\ NoLostPairing /\ PairingStage
  BY ThreadsAssumption, PairingAssumption
  DEF TestInit, Init, PairingGuarded, NoLostPairing, PairingStage, PairingGone, HoldsPairing
<1> QED
  BY <1>1, <1>2, <1>3 DEF TestIInv

\* A step of the waits: only TestNextWait needs the stage.
LEMMA StatusStepIInv ==
  ASSUME TestIInv, TestNext, StatusStep
  PROVE  TestIInv'
<1>1. IInv'
  BY NextIInv DEF TestIInv, StatusStep
<1>2. TestTypeOK'
  BY <1>1 DEF TestIInv, IInv, TestTypeOK, StatusStep, pairingVars
<1>3. PairingGuarded' /\ NoLostPairing'
  BY DEF TestIInv, PairingGuarded, NoLostPairing, PairingGone, StatusStep, pairingVars
<1>4. PairingStage'
  <2>1. step' = step \/ ppc = "paired"
    <3>1. CASE TestEnd
      BY <3>1 DEF TestEnd, TestNextWait, Unwind, TestReturn, Return, TestDestroy, DestroyLocals,
         DestroyNext, DestroyPairing, TestDestroyManager, DestroyManager, PpcGoto, vars
    <3>2. CASE TestWaiting \/ ((Timeout \/ SpuriousWakeup) /\ UNCHANGED pairingVars)
      BY <3>2 DEF TestWaiting, Waiting, Enter, Reacquire, Acquire, Found, Block, GoRound,
         Timeout, SpuriousWakeup
    <3>3. CASE Pairing \/ PairingSpuriousWakeup
      BY <3>3, PpcStepKeepsStatus DEF PpcStep, vars
    <3>4. ASSUME NEW th \in Threads, CbStep(th) PROVE step' = step
      BY <3>4 DEF CbStep, Report, CbLock, CbPush, CbNotify, CbLost, mainVars
    <3>5. ASSUME NEW th \in Threads, PcbStep(th) PROVE step' = step
      BY <3>5, PcbStepKeepsStatus DEF vars
    <3> QED
      BY <3>1, <3>2, <3>3, <3>4, <3>5, PairingAssumption
      DEF TestNext, CbStep, PcbStep, Callback, TestReport
  <2> QED
    BY <2>1 DEF TestIInv, PairingStage, StatusStep, pairingVars
<1> QED
  BY <1>1, <1>2, <1>3, <1>4 DEF TestIInv

\* A step of the pairing callback.
LEMMA PcbStepIInv ==
  ASSUME TestIInv, NEW th \in Threads, PcbStep(th)
  PROVE  TestIInv'
<1>1. IInv' /\ UNCHANGED vars
  BY PcbStepKeepsStatus, NextIInv DEF TestIInv
<1>2. TypeOK' /\ step' = step
  BY <1>1 DEF IInv, vars
<1> USE PairingAssumption, ThreadsAssumption
    DEF TestIInv, TestTypeOK, PairingGuarded, NoLostPairing, PairingStage, PairingGone, PcbGoto
<1>3. CASE PairingChange(th)
  BY <1>1, <1>2, <1>3 DEF PairingChange
<1>4. CASE FlagTest(th)
  BY <1>1, <1>2, <1>4 DEF FlagTest
<1>5. CASE FlagLock(th)
  BY <1>1, <1>2, <1>5 DEF FlagLock, HoldsPairing
<1>6. CASE FlagSet(th)
  BY <1>1, <1>2, <1>6 DEF FlagSet
<1>7. CASE FlagNotify(th)
  BY <1>1, <1>2, <1>7 DEF FlagNotify, HoldsPairing
<1>8. CASE FlagLost(th)
  BY <1>1, <1>2, <1>8 DEF FlagLost
<1> QED
  BY <1>3, <1>4, <1>5, <1>6, <1>7, <1>8 DEF PcbStep, FlagCallback

\* A step of Main in the pairing part.
LEMMA PpcStepIInv ==
  ASSUME TestIInv, PpcStep
  PROVE  TestIInv'
<1>1. IInv' /\ UNCHANGED vars
  BY PpcStepKeepsStatus, NextIInv DEF TestIInv
<1>2. TypeOK' /\ step' = step
  BY <1>1 DEF IInv, vars
<1> USE PairingAssumption, ThreadsAssumption
    DEF TestIInv, TestTypeOK, PairingGuarded, NoLostPairing, PairingStage, PairingGone,
        HoldsPairing, PpcGoto
<1>3. CASE EnterPairingMode
  BY <1>1, <1>2, <1>3 DEF EnterPairingMode
<1>4. CASE LockPairing
  BY <1>1, <1>2, <1>4 DEF LockPairing
<1>5. CASE PairingCalled
  BY <1>1, <1>2, <1>5 DEF PairingCalled
<1>6. CASE PairingBlock
  BY <1>1, <1>2, <1>6 DEF PairingBlock
<1>7. CASE GetPairingList
  BY <1>1, <1>2, <1>7 DEF GetPairingList
<1>8. CASE PairTo
  BY <1>1, <1>2, <1>8 DEF PairTo
<1>9. CASE PairingSpuriousWakeup
  BY <1>1, <1>2, <1>9 DEF PairingSpuriousWakeup
<1>10. CASE Unwind
  BY <1>1, <1>2, <1>10 DEF Unwind
<1>11. CASE DestroyPairing
  BY <1>1, <1>2, <1>11 DEF DestroyPairing
<1> QED
  BY <1>3, <1>4, <1>5, <1>6, <1>7, <1>8, <1>9, <1>10, <1>11 DEF PpcStep, Pairing

LEMMA TestNextIInv == TestIInv /\ [TestNext]_testVars => TestIInv'
<1> SUFFICES ASSUME TestIInv, [TestNext]_testVars PROVE TestIInv'
  OBVIOUS
<1>1. CASE TestNext
  BY <1>1, TestNextSteps, StatusStepIInv, PcbStepIInv, PpcStepIInv
<1>2. CASE UNCHANGED testVars
  <2>1. IInv'
    BY <1>2, NextIInv DEF TestIInv, testVars
  <2> QED
    BY <1>2, <2>1 DEF testVars, vars, pairingVars, TestIInv, IInv, TestTypeOK, PairingGuarded,
       NoLostPairing, PairingStage, PairingGone
<1> QED
  BY <1>1, <1>2

\* The inductive invariant holds in every reachable state.
THEOREM TestInvariance == TestSpec => []TestIInv
BY TestInitIInv, TestNextIInv, PTL DEF TestSpec, TestSafetySpec

\* Every variable keeps its type.
THEOREM TestTypeCorrect == TestSpec => []TestTypeOK
BY TestInvariance, PTL DEF TestIInv

\* pairing_list_mutex guards the flag's assignment, although the callback reads
\* the flag without it and Main keeps it (cm_master_test.cpp:103, 107, 141).
THEOREM PairingLockCorrect == TestSpec => []PairingGuarded
BY TestInvariance, PTL DEF TestIInv

\* The untimed wait for the pairing list never sleeps through the callback, for
\* any number of threads that change the list (cm_master_test.cpp:102-111, 142).
THEOREM NoPairingWakeupIsLost == TestSpec => []NoLostPairing
BY TestInvariance, PTL DEF TestIInv

\* The waits after pair_to are entered with a vehicle only.
THEOREM NoWaitWithoutVehicle == TestSpec => []WaitsForAVehicle
BY TestInvariance, StageImpliesVehicle, PTL

-----------------------------------------------------------------------------
(* What the manager sees of it.                                            *)

LEMMA InitDialogue == TestInit => Dialogue!Init
BY DEF TestInit, Init, Dialogue!Init, Asked, AfterReturn

\* A step of the waits is an answer, the call of reconfigure after CONNECTED, or
\* nothing the manager can see.
LEMMA StatusStepDialogue ==
  ASSUME TestIInv, TestIInv', TestNext, StatusStep
  PROVE  [Dialogue!Next]_(Dialogue!vars)
<1>1. UNCHANGED <<ppc, vehicle, pairing_list>>
  BY DEF StatusStep, pairingVars
<1>2. /\ status_list' \in SUBSET Codes /\ pairing_list \in SUBSET Vehicles
      /\ step \in Nat
  BY DEF TestIInv, IInv, TypeOK, TestTypeOK
<1>3. CASE TestNextWait
  <2>1. pc = "passed" /\ ppc = "paired" /\ step' = step + 1 /\ UNCHANGED status_list
    BY <1>3 DEF TestNextWait, NextWait
  <2>2. step = 2 => "CONNECTED" \in status_list
    BY <2>1, PairingAssumption, ScriptAssumption DEF TestIInv, IInv, PassedWasReported
  <2>3. CASE step = 2
    <3>1. Asked = "pair_to" /\ Asked' = "reconfigure"
      BY <1>1, <2>1, <2>3 DEF Asked, AfterReturn
    <3> QED
      BY <1>1, <2>1, <2>2, <2>3, <3>1 DEF Dialogue!Next, Dialogue!Reconfigure
  <2>4. CASE step # 2
    <3>1. Asked' = Asked
      BY <1>1, <1>2, <2>1, <2>4 DEF Asked, AfterReturn
    <3> QED
      BY <1>1, <2>1, <3>1 DEF Dialogue!vars
  <2> QED
    BY <2>3, <2>4
<1>4. CASE step' = step /\ status_list \subseteq status_list'
  <2>1. Asked' = Asked
    BY <1>1, <1>4 DEF Asked
  <2> QED
    BY <1>1, <1>2, <1>4, <2>1 DEF Dialogue!Next, Dialogue!Answer
<1>5. TestNextWait \/ (step' = step /\ status_list \subseteq status_list')
  <2>1. CASE TestEnd
    BY <2>1 DEF TestEnd, Unwind, TestReturn, Return, TestDestroy, DestroyLocals, DestroyNext,
       DestroyPairing, TestDestroyManager, DestroyManager, PpcGoto, vars
  <2>2. CASE TestWaiting \/ ((Timeout \/ SpuriousWakeup) /\ UNCHANGED pairingVars)
    BY <2>2 DEF TestWaiting, Waiting, Enter, Reacquire, Acquire, Found, Block, GoRound,
       Timeout, SpuriousWakeup
  <2>3. CASE Pairing \/ PairingSpuriousWakeup
    BY <2>3, PpcStepKeepsStatus DEF PpcStep, vars
  <2>4. ASSUME NEW th \in Threads, CbStep(th)
        PROVE  step' = step /\ status_list \subseteq status_list'
    BY <2>4 DEF CbStep, Report, CbLock, CbPush, CbNotify, CbLost, mainVars
  <2>5. ASSUME NEW th \in Threads, PcbStep(th)
        PROVE  step' = step /\ status_list \subseteq status_list'
    BY <2>5, PcbStepKeepsStatus DEF vars
  <2> QED
    BY <2>1, <2>2, <2>3, <2>4, <2>5, PairingAssumption
    DEF TestNext, CbStep, PcbStep, Callback, TestReport
<1> QED
  BY <1>3, <1>4, <1>5

\* The callback changes nothing of the dialogue but the list it is called for.
LEMMA PcbStepDialogue ==
  ASSUME TestIInv, TestIInv', NEW th \in Threads, PcbStep(th)
  PROVE  [Dialogue!Next]_(Dialogue!vars)
<1>1. UNCHANGED <<status_list, step>>
  BY PcbStepKeepsStatus DEF vars
<1>2. UNCHANGED vehicle /\ (ppc' = ppc \/ (ppc = "blocked" /\ ppc' = "woken"))
  BY DEF PcbStep, PairingChange, FlagCallback, FlagTest, FlagLock, FlagSet, FlagNotify, FlagLost
<1>3. Asked' = Asked
  BY <1>1, <1>2 DEF Asked, AfterReturn
<1>4. status_list \in SUBSET Codes /\ pairing_list' \in SUBSET Vehicles
  BY DEF TestIInv, IInv, TypeOK, TestTypeOK
<1> QED
  BY <1>1, <1>2, <1>3, <1>4 DEF Dialogue!Next, Dialogue!Answer

\* Main's steps in the pairing part are the commands and the choice of the vehicle.
LEMMA PpcStepDialogue ==
  ASSUME TestIInv, PpcStep
  PROVE  [Dialogue!Next]_(Dialogue!vars)
<1>1. UNCHANGED <<status_list, step, pc>>
  BY PpcStepKeepsStatus DEF vars
<1> USE PairingAssumption DEF PpcGoto, TestIInv, PairingStage, Asked, AfterReturn, Dialogue!vars
<1>2. CASE EnterPairingMode
  <2>1. "DRIVER_CONNECTED" \in status_list
    BY <1>2, ScriptAssumption DEF EnterPairingMode, IInv, PassedWasReported
  <2> QED
    BY <1>1, <1>2, <2>1 DEF EnterPairingMode, Dialogue!Next, Dialogue!EnterPairingMode
<1>3. CASE LockPairing \/ PairingCalled \/ PairingBlock \/ PairingSpuriousWakeup
  BY <1>1, <1>3 DEF LockPairing, PairingCalled, PairingBlock, PairingSpuriousWakeup
<1>4. CASE GetPairingList
  BY <1>1, <1>4 DEF GetPairingList, Dialogue!Next, Dialogue!GetPairingList
<1>5. CASE PairTo
  BY <1>1, <1>5 DEF PairTo, Dialogue!Next, Dialogue!PairTo
<1>6. CASE Unwind \/ DestroyPairing
  BY <1>1, <1>6 DEF Unwind, DestroyPairing
<1> QED
  BY <1>2, <1>3, <1>4, <1>5, <1>6 DEF PpcStep, Pairing

\* With any number of threads that report and change the list at any time, every
\* command follows the answer it needs, and pair_to is called at most once, with a
\* vehicle of the list that was read.
THEOREM TestImplementsDialogue == TestSpec => Dialogue!SafeSpec
<1>1. TestIInv /\ TestIInv' /\ [TestNext]_testVars => [Dialogue!Next]_(Dialogue!vars)
  <2> SUFFICES ASSUME TestIInv, TestIInv', [TestNext]_testVars
               PROVE  [Dialogue!Next]_(Dialogue!vars)
    OBVIOUS
  <2>1. CASE UNCHANGED testVars
    BY <2>1 DEF testVars, vars, pairingVars, Asked, Dialogue!vars
  <2>2. CASE TestNext
    BY <2>2, TestNextSteps, StatusStepDialogue, PcbStepDialogue, PpcStepDialogue
  <2> QED
    BY <2>1, <2>2
<1> QED
  BY <1>1, InitDialogue, TestInvariance, PTL DEF TestSpec, TestSafetySpec, Dialogue!SafeSpec

-----------------------------------------------------------------------------
(* The order of the two mutexes, for any threads that change the list.     *)

\* Main has left its first wait and is not in its second yet.
BetweenWaits == {"lock", "check", "blocked", "woken", "list", "got", "unwind"}

\* A thread is in one callback at a time and owns status_mutex only in the status
\* callback; only the threads that change the list call the other one; Main is in
\* no status wait while it deals with the pairing list; and it is past that only
\* with the flag set.
OrderInv ==
  /\ \A th \in Threads :
       /\ cb[th] = "idle" \/ pcb[th] = "idle"
       /\ status_mutex = th => cb[th] \in {"push", "lost"}
       /\ pcb[th] # "idle" => th \in PairingThreads
  /\ ppc \in BetweenWaits => pc = "passed"
  /\ ppc \in {"list", "got", "paired"} => pairing_list_callback_called

LEMMA InitOrderInv == TestInit => OrderInv
BY ThreadsAssumption DEF TestInit, Init, OrderInv, BetweenWaits

\* A step of the status callback.
LEMMA CbStepOrder ==
  ASSUME TestIInv, OrderInv, NEW th \in Threads, UNCHANGED pairingVars,
         (pcb[th] = "idle" /\ Report(th)) \/ Callback(th) \/ CbLost(th)
  PROVE  OrderInv'
<1> USE ThreadsAssumption DEF OrderInv, pairingVars, TestIInv, TestTypeOK, TypeOK, CbGoto, mainVars
<1>1. CASE pcb[th] = "idle" /\ Report(th)
  BY <1>1 DEF Report
<1>2. CASE CbLock(th)
  BY <1>2 DEF CbLock
<1>3. CASE CbPush(th)
  BY <1>3 DEF CbPush
<1>4. CASE CbNotify(th)
  <2>1. /\ cb[th] = "notify" /\ cb' = [cb EXCEPT ![th] = "idle"] /\ UNCHANGED status_mutex
        /\ pc = "passed" => pc' = "passed"
    BY <1>4 DEF CbNotify
  <2> QED
    BY <2>1
<1>5. CASE CbLost(th)
  <2>1. cb[th] # "idle"
    BY <1>5 DEF CbLost, Uses
  <2>2. cb' = [cb EXCEPT ![th] = "lost"] /\ UNCHANGED <<status_mutex, pc>>
    BY <1>5 DEF CbLost
  <2> QED
    BY <2>1, <2>2
<1> QED
  BY <1>1, <1>2, <1>3, <1>4, <1>5 DEF Callback

\* A step of the pairing callback.
LEMMA PcbStepOrder ==
  ASSUME TestIInv, OrderInv, NEW th \in Threads, PcbStep(th)
  PROVE  OrderInv'
<1>1. UNCHANGED <<status_mutex, cb, pc>>
  BY PcbStepKeepsStatus DEF vars
<1>2. \A u \in Threads \ {th} : pcb'[u] = pcb[u]
  BY DEF TestIInv, TestTypeOK, PcbStep, PairingChange, FlagCallback, FlagTest, FlagLock, FlagSet,
         FlagNotify, FlagLost, PcbGoto
<1>3. cb[th] = "idle" /\ th \in PairingThreads
  BY DEF OrderInv, PcbStep, PairingChange, FlagCallback, FlagTest, FlagLock, FlagSet, FlagNotify,
         FlagLost, PcbGoto, PairingUses
<1>4. /\ pairing_list_callback_called => pairing_list_callback_called'
      /\ ppc' = ppc \/ (ppc = "blocked" /\ ppc' = "woken")
  BY DEF PcbStep, PairingChange, FlagCallback, FlagTest, FlagLock, FlagSet, FlagNotify, FlagLost
<1> QED
  BY <1>1, <1>2, <1>3, <1>4 DEF OrderInv, BetweenWaits

\* A step of Main, in the waits or in the pairing part.
LEMMA MainStepOrder ==
  ASSUME TestIInv, OrderInv,
         \/ TestWaiting
         \/ (Timeout \/ SpuriousWakeup) /\ UNCHANGED pairingVars
         \/ PpcStep \/ TestEnd
  PROVE  OrderInv'
<1>1. UNCHANGED <<cb, pcb, pairing_list_callback_called>>
  BY PpcStepKeepsStatus
  DEF TestWaiting, Waiting, Enter, Reacquire, Acquire, Found, Block, GoRound, Timeout,
      SpuriousWakeup, PpcStep, Pairing, EnterPairingMode, LockPairing, PairingCalled, PairingBlock,
      GetPairingList, PairTo, PairingSpuriousWakeup, Unwind, DestroyPairing, PpcGoto, TestEnd,
      TestNextWait, NextWait, TestReturn, Return, TestDestroy, DestroyLocals, DestroyNext,
      TestDestroyManager, DestroyManager, pairingVars, cbVars, vars
<1>2. status_mutex' = status_mutex \/ status_mutex' \in {Main, NoThread}
  BY PpcStepKeepsStatus
  DEF TestWaiting, Waiting, Enter, Reacquire, Acquire, Found, Block, GoRound, Timeout,
      SpuriousWakeup, PpcStep, TestEnd, Unwind, PpcGoto, TestNextWait, NextWait, TestReturn,
      Return, TestDestroy, DestroyLocals, DestroyNext, DestroyPairing, TestDestroyManager,
      DestroyManager, vars
<1>3. /\ ppc' \in BetweenWaits => pc' = "passed"
      /\ ppc' \in {"list", "got", "paired"} => pairing_list_callback_called
  <2>1. CASE TestWaiting \/ ((Timeout \/ SpuriousWakeup) /\ UNCHANGED pairingVars)
    BY <2>1 DEF OrderInv, TestWaiting, Waiting, Enter, Reacquire, Acquire, Found, Block, GoRound,
       Timeout, SpuriousWakeup, pairingVars
  <2>2. CASE PpcStep
    BY <2>2, PpcStepKeepsStatus
    DEF OrderInv, BetweenWaits, PpcStep, Pairing, EnterPairingMode, LockPairing, PairingCalled,
        PairingBlock, GetPairingList, PairTo, PairingSpuriousWakeup, Unwind, DestroyPairing,
        PpcGoto, vars
  <2>3. CASE TestEnd
    BY <2>3
    DEF OrderInv, BetweenWaits, TestEnd, TestNextWait, NextWait, Unwind, TestReturn, Return,
        TestDestroy, DestroyLocals, DestroyNext, DestroyPairing, TestDestroyManager,
        DestroyManager, PpcGoto, pairingVars
  <2> QED
    BY <2>1, <2>2, <2>3
<1> QED
  BY <1>1, <1>2, <1>3, ThreadsAssumption DEF OrderInv

LEMMA NextOrderInv == TestIInv /\ OrderInv /\ [TestNext]_testVars => OrderInv'
<1> SUFFICES ASSUME TestIInv, OrderInv, [TestNext]_testVars PROVE OrderInv'
  OBVIOUS
<1>1. ASSUME NEW th \in PairingThreads, PairingChange(th) PROVE OrderInv'
  BY <1>1, PcbStepOrder, PairingAssumption DEF PcbStep
<1>2. ASSUME NEW th \in Threads,
             \/ TestReport(th)
             \/ Callback(th) /\ UNCHANGED pairingVars
             \/ CbLost(th) /\ UNCHANGED pairingVars
             \/ FlagCallback(th) \/ FlagLost(th)
      PROVE  OrderInv'
  BY <1>2, CbStepOrder, PcbStepOrder DEF TestReport, PcbStep
<1>3. CASE UNCHANGED testVars
  BY <1>3 DEF OrderInv, testVars, vars, pairingVars
<1>4. CASE \/ TestWaiting
           \/ (Timeout \/ SpuriousWakeup) /\ UNCHANGED pairingVars
           \/ PpcStep \/ TestEnd
  BY <1>4, MainStepOrder
<1> QED
  BY <1>1, <1>2, <1>3, <1>4 DEF TestNext, PpcStep

THEOREM OrderInvariance == TestSpec => []OrderInv
BY InitOrderInv, NextOrderInv, TestInvariance, PTL DEF TestSpec, TestSafetySpec

\* Whoever owns status_mutex waits for no other mutex, so Main, which takes it
\* while it keeps pairing_list_mutex, can never be in a circle of threads that
\* wait for each other's mutex, whatever number of threads call back.
THEOREM LocksAreOrdered == TestSpec => []LockOrder
<1>1. TestIInv /\ OrderInv => LockOrder
  BY DEF TestIInv, IInv, ListGuarded, MainHolds, Gone, OrderInv, BetweenWaits, LockOrder
<1> QED
  BY <1>1, TestInvariance, OrderInvariance, PTL

NobodyStartsToWait ==
  ppc \in {"list", "got", "paired"} =>
    \A th \in Threads : pcb'[th] = "lock" => pcb[th] = "lock"

\* The threads that Main's mutex can hold up for the rest of the function are
\* those that were on their way to it when Main got the list: from then on
\* nobody starts to wait for it, because everybody finds the flag set (line 103).
THEOREM NobodyElseGetsStuck == TestSpec => [][NobodyStartsToWait]_testVars
<1>1. ASSUME TestIInv, OrderInv, TestNext, ppc \in {"list", "got", "paired"},
             NEW th \in Threads, pcb'[th] = "lock", pcb[th] # "lock"
      PROVE  FALSE
  <2>1. PICK u \in Threads : PcbStep(u)
    BY <1>1, TestNextSteps
    DEF StatusStep, pairingVars, PpcStep, Pairing, EnterPairingMode, LockPairing, PairingCalled,
        PairingBlock, GetPairingList, PairTo, PairingSpuriousWakeup, Unwind, DestroyPairing, PpcGoto
  <2>2. FlagTest(u) /\ ~pairing_list_callback_called
    BY <1>1, <2>1
    DEF TestIInv, TestTypeOK, PcbStep, PairingChange, FlagCallback, FlagTest, FlagLock, FlagSet,
        FlagNotify, FlagLost, PcbGoto
  <2> QED
    BY <1>1, <2>2 DEF OrderInv
<1>2. TestIInv /\ OrderInv /\ [TestNext]_testVars => [NobodyStartsToWait]_testVars
  BY <1>1 DEF NobodyStartsToWait
<1> QED
  BY <1>2, TestInvariance, OrderInvariance, PTL DEF TestSpec, TestSafetySpec

-----------------------------------------------------------------------------
(* One thread changes the pairing list.                                    *)

\* Other threads are never in the callback; once the flag is set nobody is about
\* to lock the mutex; and Main is past the wait only with the flag set.
Settled ==
  /\ \A th \in Threads \ PairingThreads : pcb[th] = "idle"
  /\ pairing_list_callback_called => \A th \in Threads : pcb[th] # "lock"
  /\ ppc \in {"list", "got", "paired"} => pairing_list_callback_called

OneThread == \E th \in Threads : PairingThreads = {th}

LEMMA SettledNext ==
  ASSUME OneThread, TestTypeOK, Settled, [TestNext]_testVars
  PROVE  Settled'
<1> USE DEF Settled
<1>1. CASE StatusStep \/ UNCHANGED testVars
  BY <1>1 DEF StatusStep, testVars, pairingVars
<1>2. ASSUME NEW th \in Threads, PcbStep(th) PROVE Settled'
  <2>1. th \in PairingThreads
    BY <1>2 DEF PcbStep, FlagCallback, FlagTest, FlagLock, FlagSet, FlagNotify, FlagLost,
       PcbGoto, PairingUses
  <2>2. \A u \in Threads \ {th} : pcb[u] = "idle" /\ u \notin PairingThreads
    BY <2>1 DEF OneThread
  <2> USE <2>1, <2>2 DEF TestTypeOK, PcbGoto
  <2>3. CASE PairingChange(th)
    BY <2>3 DEF PairingChange
  <2>4. CASE FlagTest(th)
    BY <2>4 DEF FlagTest
  <2>5. CASE FlagLock(th)
    BY <2>5 DEF FlagLock
  <2>6. CASE FlagSet(th)
    BY <2>6 DEF FlagSet
  <2>7. CASE FlagNotify(th)
    BY <2>7 DEF FlagNotify
  <2>8. CASE FlagLost(th)
    BY <2>8 DEF FlagLost
  <2> QED
    BY <1>2, <2>3, <2>4, <2>5, <2>6, <2>7, <2>8 DEF PcbStep, FlagCallback
<1>3. CASE PpcStep
  BY <1>3 DEF PpcStep, Pairing, EnterPairingMode, LockPairing, PairingCalled, PairingBlock,
     GetPairingList, PairTo, PairingSpuriousWakeup, Unwind, DestroyPairing, PpcGoto
<1> QED
  BY <1>1, <1>2, <1>3, TestNextSteps

\* With one thread changing the pairing list, no thread of the manager is ever
\* blocked on the mutex that Main keeps for the rest of the function: the
\* unlocked test of the flag at line 103 is what this rests on.
THEOREM OneThreadNeverStuck == OneThread /\ TestSpec => []NoCallbackStuck
<1> SUFFICES ASSUME OneThread PROVE TestSpec => []NoCallbackStuck
  OBVIOUS
<1>1. TestInit => Settled
  BY DEF TestInit, Settled
<1>2. TestTypeOK /\ Settled /\ [TestNext]_testVars => Settled'
  BY SettledNext
<1>3. Settled => NoCallbackStuck
  BY DEF Settled, NoCallbackStuck
<1> QED
  BY <1>1, <1>2, <1>3, TestTypeCorrect, PTL DEF TestSpec, TestSafetySpec

\* The thread that the awaited statuses come from is never stuck, with one thread
\* that changes the list or with others than itself: for PairToConnects to fail as
\* it does, that thread must change the list and not be the only one to do so.
THEOREM ReporterNeverStuck ==
  (OneThread \/ Reporter \notin PairingThreads) /\ TestSpec =>
    [](ppc \in {"list", "got", "paired"} => pcb[Reporter] # "lock")
<1>1. ASSUME OneThread
      PROVE  TestSpec => [](ppc \in {"list", "got", "paired"} => pcb[Reporter] # "lock")
  <2>1. NoCallbackStuck => (ppc \in {"list", "got", "paired"} => pcb[Reporter] # "lock")
    BY PairingAssumption DEF NoCallbackStuck
  <2> QED
    BY <1>1, <2>1, OneThreadNeverStuck, PTL
<1>2. ASSUME Reporter \notin PairingThreads
      PROVE  TestSpec => [](ppc \in {"list", "got", "paired"} => pcb[Reporter] # "lock")
  <2>1. OrderInv => (ppc \in {"list", "got", "paired"} => pcb[Reporter] # "lock")
    BY <1>2, PairingAssumption DEF OrderInv
  <2> QED
    BY <2>1, OrderInvariance, PTL
<1> QED
  BY <1>1, <1>2

=============================================================================
