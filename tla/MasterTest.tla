----------------------------- MODULE MasterTest -----------------------------
(***************************************************************************)
(* test_pair_connect_reconfigure of cm_master_test.cpp: the status waits   *)
(* of StatusWait, and between the first and the second of them the wait    *)
(* for the pairing list.  The pairing list callback tests its flag without *)
(* a lock, sets it under pairing_list_mutex and notifies                   *)
(* pairing_list_cv; Main waits for the flag, takes the first vehicle of    *)
(* the list and pairs to it.  The unique_lock of that wait is a local of   *)
(* the function: Main keeps pairing_list_mutex through all later waits.    *)
(*                                                                         *)
(* The manager is external.  Its threads change the pairing list (adding a *)
(* vehicle that broadcasts, dropping one whose broadcast expired), at most *)
(* MaxChanges times, and call the callback after each change.  A thread is *)
(* in at most one callback, and reports nothing while it is stuck there.   *)
(***************************************************************************)
EXTENDS StatusWait, FiniteSets

CONSTANTS
  PairingThreads,  \* the manager threads that change the pairing list
  Reporter,        \* the manager thread that the awaited statuses come from
  Vehicles,        \* names a pairing list can hold
  NoVehicle,       \* vehicle before it is initialised
  MaxChanges       \* bound: changes of the pairing list

ASSUME PairingAssumption ==
  /\ PairingThreads \subseteq Threads
  /\ Reporter \in Threads
  /\ NoVehicle \notin Vehicles
  /\ MaxChanges \in Nat
  /\ Len(Script) > 1 /\ Script[1] = "DRIVER_CONNECTED" /\ Script[2] = "CONNECTED"
  /\ EarlyReturns = {1}

VARIABLES
  pairing_list_mutex,            \* the thread holding it, or NoThread
  pairing_list_callback_called,  \* the flag
  pairing_list,                  \* the manager's list
  vehicle,                       \* local: the vehicle to pair to
  ppc,                           \* where Main is in the pairing part
  pcb,                           \* where each thread is in the pairing callback
  changes                        \* changes of the pairing list so far

pairingVars == <<pairing_list_mutex, pairing_list_callback_called, pairing_list,
                 vehicle, ppc, pcb, changes>>
testVars == <<vars, pairingVars>>

TestInit ==
  /\ Init
  /\ pairing_list_mutex = NoThread
  /\ pairing_list_callback_called = FALSE
  /\ pairing_list = {}
  /\ vehicle = NoVehicle
  /\ ppc = "before"
  /\ pcb = [th \in Threads |-> "idle"]
  /\ changes = 0

-----------------------------------------------------------------------------
(* The pairing list callback.                                              *)

PcbGoto(th, from, to) ==
  /\ pcb[th] = from
  /\ pcb' = [pcb EXCEPT ![th] = to]
  /\ UNCHANGED vars

\* The manager changes its list and calls the callback, holding none of the
\* locks that get_pairing_list takes: master_demo.cpp calls it from a callback.
PairingChange(th) ==
  /\ pc # "end"
  /\ cb[th] = "idle"
  /\ changes < MaxChanges
  /\ changes' = changes + 1
  /\ \E list \in SUBSET Vehicles \ {pairing_list} : pairing_list' = list
  /\ PcbGoto(th, "idle", "test")
  /\ UNCHANGED <<pairing_list_mutex, pairing_list_callback_called, vehicle, ppc>>

\* Mutant: the callback takes the mutex every time.
FlagTest_Always(th) ==
  /\ PcbGoto(th, "test", "lock")
  /\ UNCHANGED <<pairing_list_mutex, pairing_list_callback_called, pairing_list, vehicle,
                 ppc, changes>>

\* if (pairing_list_callback_called) return;
FlagTest(th) ==
  /\ PcbGoto(th, "test", IF pairing_list_callback_called THEN "idle" ELSE "lock")
  /\ UNCHANGED <<pairing_list_mutex, pairing_list_callback_called, pairing_list, vehicle,
                 ppc, changes>>

\* Mutant: the flag is set without the mutex.
FlagLock_Unlocked(th) ==
  /\ PcbGoto(th, "lock", "set")
  /\ UNCHANGED <<pairing_list_mutex, pairing_list_callback_called, pairing_list, vehicle,
                 ppc, changes>>

\* lock_guard lck(pairing_list_mutex)
FlagLock(th) ==
  /\ pairing_list_mutex = NoThread
  /\ PcbGoto(th, "lock", "set")
  /\ pairing_list_mutex' = th
  /\ UNCHANGED <<pairing_list_callback_called, pairing_list, vehicle, ppc, changes>>

\* pairing_list_callback_called = true; the lock_guard's scope ends
FlagSet(th) ==
  /\ PcbGoto(th, "set", "notify")
  /\ pairing_list_callback_called' = TRUE
  /\ pairing_list_mutex' = NoThread
  /\ UNCHANGED <<pairing_list, vehicle, ppc, changes>>

\* Mutant: notify_one is left out.
FlagNotify_Silent(th) ==
  /\ PcbGoto(th, "notify", "idle")
  /\ UNCHANGED <<pairing_list_mutex, pairing_list_callback_called, pairing_list, vehicle,
                 ppc, changes>>

\* pairing_list_cv.notify_one(), without the lock
FlagNotify(th) ==
  /\ PcbGoto(th, "notify", "idle")
  /\ ppc' = IF ppc = "blocked" THEN "woken" ELSE ppc
  /\ UNCHANGED <<pairing_list_mutex, pairing_list_callback_called, pairing_list, vehicle,
                 changes>>

-----------------------------------------------------------------------------
(* Main between the first and the second status wait.                      *)

PpcGoto(from, to) ==
  /\ ppc = from
  /\ ppc' = to
  /\ UNCHANGED <<vars, pairing_list_callback_called, pairing_list, pcb, changes>>

\* enter_pairing_mode(), once the driver is connected
EnterPairingMode ==
  /\ pc = "passed"
  /\ step = 1
  /\ PpcGoto("before", "lock")
  /\ UNCHANGED <<pairing_list_mutex, vehicle>>

\* unique_lock lock(pairing_list_mutex), and again after each wakeup
LockPairing ==
  /\ pairing_list_mutex = NoThread
  /\ PpcGoto("lock", "check") \/ PpcGoto("woken", "check")
  /\ pairing_list_mutex' = Main
  /\ UNCHANGED vehicle

\* The flag is set: wait returns, with the mutex held.
PairingCalled ==
  /\ pairing_list_callback_called
  /\ PpcGoto("check", "list")
  /\ UNCHANGED <<pairing_list_mutex, vehicle>>

\* Mutant: wait without a predicate.
PairingBlock_WithoutPredicate ==
  /\ PpcGoto("check", "blocked")
  /\ pairing_list_mutex' = NoThread
  /\ UNCHANGED vehicle

\* The flag is not set: release the mutex and block, in one step.
PairingBlock ==
  /\ ~pairing_list_callback_called
  /\ PpcGoto("check", "blocked")
  /\ pairing_list_mutex' = NoThread
  /\ UNCHANGED vehicle

PairingSpuriousWakeup ==
  /\ PpcGoto("blocked", "woken")
  /\ UNCHANGED <<pairing_list_mutex, vehicle>>

\* Mutant: *pairing_list.begin() of an empty list.
GetPairingList_Unchecked ==
  /\ PpcGoto("list", "got")
  /\ vehicle' \in IF pairing_list = {} THEN {"undefined"} ELSE pairing_list
  /\ UNCHANGED pairing_list_mutex

\* get_pairing_list() copies the list; the test gives up if it is empty, and
\* takes its first element otherwise (which one that is, is the manager's).
GetPairingList ==
  \/ /\ pairing_list = {}
     /\ PpcGoto("list", "unwind")
     /\ UNCHANGED <<pairing_list_mutex, vehicle>>
  \/ /\ PpcGoto("list", "got")
     /\ vehicle' \in pairing_list
     /\ UNCHANGED pairing_list_mutex

\* pair_to(vehicle)
PairTo ==
  /\ PpcGoto("got", "paired")
  /\ UNCHANGED <<pairing_list_mutex, vehicle>>

-----------------------------------------------------------------------------
(* The rest of the function: the later waits, and its end.                 *)

\* Mutant: the early return is left out.
TestNextWait_Unpaired ==
  /\ ppc \in {"unwind", "paired"}
  /\ NextWait
  /\ UNCHANGED pairingVars

TestNextWait ==
  /\ ppc = "paired"
  /\ NextWait
  /\ UNCHANGED pairingVars

\* The function returns early or at its end: lock is the first to go.
Unwind ==
  /\ pc = "passed"
  /\ \/ PpcGoto("unwind", "released")
     \/ step = Len(Script) /\ PpcGoto("paired", "released")
  /\ pairing_list_mutex' = NoThread
  /\ UNCHANGED vehicle

TestReturn ==
  /\ ppc = "released"
  /\ Return
  /\ UNCHANGED pairingVars

\* The pairing locals were declared before the status locals: they go later.
DestroyPairing ==
  /\ pc = "mutex_gone"
  /\ PpcGoto("released", "cv_gone") \/ PpcGoto("cv_gone", "mutex_gone")
  /\ UNCHANGED <<pairing_list_mutex, vehicle>>

\* The manager goes last: ~ConnectionManagerMaster joins its threads.
TestDestroyManager ==
  /\ ppc = "mutex_gone"
  /\ \A th \in Threads : pcb[th] = "idle"
  /\ DestroyManager
  /\ UNCHANGED pairingVars

TestDestroy ==
  \/ DestroyLocals /\ UNCHANGED pairingVars
  \/ DestroyPairing
  \/ TestDestroyManager

PairingGone ==
  (IF ppc \in {"cv_gone", "mutex_gone"} THEN {"cv"} ELSE {})
  \cup (IF ppc = "mutex_gone" THEN {"mutex"} ELSE {})

PairingUses(th) ==
  CASE pcb[th] \in {"lock", "set"} -> {"mutex"}
    [] pcb[th] = "notify" -> {"cv"}
    [] OTHER -> {}

\* Undefined behaviour, as in CbLost.
FlagLost(th) ==
  /\ PairingUses(th) \cap PairingGone # {}
  /\ PcbGoto(th, pcb[th], "lost")
  /\ UNCHANGED <<pairing_list_mutex, pairing_list_callback_called, pairing_list, vehicle,
                 ppc, changes>>

-----------------------------------------------------------------------------
(* The manager's status reports.                                           *)

\* The statuses of Script that no callback has delivered or is delivering.
Owed ==
  {Script[i] : i \in 1..Len(Script)}
    \ (status_list \cup {code[th] : th \in {u \in Threads : cb[u] \in {"lock", "push"}}})

\* The bound on reports leaves room for the awaited statuses.
TestReport(th) ==
  /\ pcb[th] = "idle"
  /\ Report(th)
  /\ reports' + Cardinality(Owed') <= MaxReports
  /\ UNCHANGED pairingVars

\* The manager answers what Main asked of it: the status that Main is waiting
\* for, and for CONNECTED only once pair_to was called.
Answer ==
  /\ step = 1 \/ ppc = "paired"
  /\ Script[step] \in Owed
  /\ TestReport(Reporter)
  /\ code'[Reporter] = Script[step]

-----------------------------------------------------------------------------

FlagCallback(th) == FlagTest(th) \/ FlagLock(th) \/ FlagSet(th) \/ FlagNotify(th)

Pairing ==
  EnterPairingMode \/ LockPairing \/ PairingCalled \/ PairingBlock \/ GetPairingList \/ PairTo

TestWaiting == Waiting /\ UNCHANGED pairingVars

TestEnd == TestNextWait \/ Unwind \/ TestReturn \/ TestDestroy

TestNext ==
  \/ \E th \in PairingThreads : PairingChange(th)
  \/ \E th \in Threads :
       \/ TestReport(th)
       \/ Callback(th) /\ UNCHANGED pairingVars
       \/ CbLost(th) /\ UNCHANGED pairingVars
       \/ FlagCallback(th) \/ FlagLost(th)
  \/ TestWaiting
  \/ (Timeout \/ SpuriousWakeup) /\ UNCHANGED pairingVars
  \/ Pairing \/ PairingSpuriousWakeup
  \/ TestEnd

\* Running threads run.  A callback gets a mutex that is free again and again:
\* Main leaves it alone for a whole wait, half a minute or more.  The vehicle
\* broadcasts, so the list does change, and the manager answers what it was
\* asked, unless its Reporter is stuck in a callback.
TestFairness ==
  /\ WF_testVars(TestWaiting)
  /\ WF_testVars(Pairing)
  /\ WF_testVars(TestEnd)
  /\ \A th \in Threads :
       /\ WF_testVars(Callback(th) /\ UNCHANGED pairingVars)
       /\ WF_testVars(FlagCallback(th))
       /\ SF_testVars(CbLock(th) /\ UNCHANGED pairingVars)
       /\ SF_testVars(FlagLock(th))
  /\ WF_testVars(\E th \in PairingThreads : PairingChange(th))
  /\ WF_testVars(Answer)

TestSafetySpec == TestInit /\ [][TestNext]_testVars
TestSpec == TestSafetySpec /\ TestFairness

-----------------------------------------------------------------------------
(* Properties.                                                             *)

AfterReturn == {"released", "cv_gone", "mutex_gone"}

HoldsPairing == {"check", "list", "got", "paired", "unwind"}

\* Types of the variables of the pairing part.
TestTypeOK ==
  /\ TypeOK
  /\ pairing_list_mutex \in Threads \cup {Main, NoThread}
  /\ pairing_list_callback_called \in BOOLEAN
  /\ pairing_list \in SUBSET Vehicles
  /\ vehicle \in Vehicles \cup {NoVehicle}
  /\ ppc \in HoldsPairing \cup {"before", "lock", "blocked", "woken", "released",
                                "cv_gone", "mutex_gone"}
  /\ pcb \in [Threads -> {"idle", "test", "lock", "set", "notify", "lost"}]
  /\ changes \in 0..MaxChanges

\* While it exists, pairing_list_mutex is owned by exactly the thread between
\* its lock and its unlock: Main from the wait for the pairing list until the
\* function returns (line 141), a callback around its assignment (line 107).
PairingGuarded ==
  PairingGone = {} =>
    /\ ppc \in HoldsPairing <=> pairing_list_mutex = Main
    /\ \A th \in Threads : pcb[th] = "set" <=> pairing_list_mutex = th

\* Main never sleeps on pairing_list_cv, which has no timeout, with the flag
\* set and nobody left to wake it, although the callback tests the flag
\* without the mutex and then returns without notifying (lines 103, 142).
NoLostPairing ==
  (ppc = "blocked" /\ pairing_list_callback_called) => \E th \in Threads : pcb[th] = "notify"

\* Main keeps pairing_list_mutex while it waits for the manager.  That is
\* harmless only because no callback needs the mutex any more: the flag is set,
\* and a callback that could still be about to lock it read the flag before.
\* With one thread changing the list there is none.
NoCallbackStuck ==
  ppc \in {"list", "got", "paired"} => \A th \in Threads : pcb[th] # "lock"

\* Main takes status_mutex again and again while it keeps pairing_list_mutex,
\* so whoever has status_mutex must never wait for pairing_list_mutex: neither
\* a callback nor Main, whose lock of a status wait is gone with its loop, as
\* the lock of the pairing wait is not (lines 121-142).
LockOrder ==
  /\ \A th \in Threads : status_mutex = th => pcb[th] # "lock"
  /\ status_mutex = Main => ppc \notin {"lock", "woken"}

\* Main goes on to the later waits, which have no way to give up, only when it
\* has a vehicle that pair_to was called with.
WaitsForAVehicle ==
  step > 1 => /\ vehicle \in Vehicles
              /\ ppc \notin {"before", "lock", "blocked", "woken", "unwind"}

\* The last command of the test, as its manager sees it; reconfigure is called
\* between the second wait and the third.
Asked ==
  CASE ppc = "before" -> "nothing"
    [] ppc # "before" /\ step > 2 -> "reconfigure"
    [] step <= 2 /\ (ppc = "paired" \/ (ppc \in AfterReturn /\ vehicle # NoVehicle)) -> "pair_to"
    [] step <= 2 /\ (ppc = "unwind" \/ (ppc \in AfterReturn /\ vehicle = NoVehicle)) -> "gave_up"
    [] OTHER -> "enter_pairing_mode"

Dialogue == INSTANCE PairingDialogue WITH asked <- Asked

\* With callbacks and locks taken away, the test asks what PairingDialogue says:
\* every command after the answer it needs and soon after it, the list read once.
DialogueSpec == Dialogue!Spec

\* The test function returns.
TestReturns == <>(Gone # {})

\* The vehicle that was paired to gets connected (cm_master_test.cpp:169,
\* EXPECT_TRUE(connected)).
PairToConnects == ppc = "paired" ~> (step > 2 \/ (step = 2 /\ pc = "passed") \/ Gone # {})

=============================================================================
