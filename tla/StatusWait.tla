----------------------------- MODULE StatusWait -----------------------------
(***************************************************************************)
(* How a test follows the connection manager (cm_master_test.cpp and       *)
(* cm_slave_test.cpp, the same code six times).  The manager's own threads *)
(* call the registered status callback, which appends the status to        *)
(* status_list under status_mutex and then notifies status_cv.  The main   *)
(* thread waits, for each status of Script in turn, in                     *)
(*     while (!found) { unique_lock; status_cv.wait_for(lock, t, pred); }  *)
(* where pred scans status_list.  When the test function ends it destroys  *)
(* its locals in reverse order of declaration: status_list, status_cv,     *)
(* status_mutex and, last, the connection manager with its threads.        *)
(*                                                                         *)
(* The manager is external: any of its threads may report any status at    *)
(* any time while the manager exists, at most MaxReports times in all.     *)
(***************************************************************************)
EXTENDS Naturals, Sequences

CONSTANTS
  Threads,     \* threads of the connection manager
  Main,        \* the thread that runs the test
  NoThread,    \* owner of a free mutex
  Codes,       \* ConnectionStatusEnum
  NoCode,      \* argument of a callback that is not running
  Script,      \* the statuses the test waits for, in order
  EarlyReturns,\* the waits of Script after which the test may give up
  MaxReports   \* bound: status changes during the test

ASSUME ThreadsAssumption ==
  /\ Main \notin Threads
  /\ NoThread \notin Threads \cup {Main}

ASSUME ScriptAssumption ==
  /\ Script \in Seq(Codes)
  /\ Len(Script) > 0
  /\ EarlyReturns \subseteq 1..Len(Script)

ASSUME CodeAssumption == NoCode \notin Codes

ASSUME BoundAssumption == MaxReports \in Nat

VARIABLES
  status_mutex,  \* the thread holding it, or NoThread
  status_list,   \* the codes in the list: only membership is ever asked for
  pc,            \* where Main is
  step,          \* the wait of Script that Main is in, or has passed last
  cb,            \* where each thread is in the status callback
  code,          \* per thread, the status it reports
  reports        \* status callbacks made so far

mainVars == <<pc, step>>
cbVars == <<cb, code, reports>>
vars == <<status_mutex, status_list, pc, step, cb, code, reports>>

Init ==
  /\ status_mutex = NoThread
  /\ status_list = {}
  /\ pc = "enter"
  /\ step = 1
  /\ cb = [th \in Threads |-> "idle"]
  /\ code = [th \in Threads |-> NoCode]
  /\ reports = 0

-----------------------------------------------------------------------------
(* The status callback, run by a thread of the manager.                    *)

CbGoto(th, from, to) ==
  /\ cb[th] = from
  /\ cb' = [cb EXCEPT ![th] = to]

\* The manager exists until Main is done with its destructor.
Report(th) ==
  /\ pc # "end"
  /\ reports < MaxReports
  /\ reports' = reports + 1
  /\ CbGoto(th, "idle", "lock")
  /\ \E c \in Codes : code' = [code EXCEPT ![th] = c]
  /\ UNCHANGED <<status_mutex, status_list, mainVars>>

\* Mutant: the callback pushes without the mutex.
CbLock_Unlocked(th) ==
  /\ CbGoto(th, "lock", "push")
  /\ UNCHANGED <<status_mutex, status_list, mainVars, code, reports>>

\* lock_guard lck(status_mutex)
CbLock(th) ==
  /\ status_mutex = NoThread
  /\ CbGoto(th, "lock", "push")
  /\ status_mutex' = th
  /\ UNCHANGED <<status_list, mainVars, code, reports>>

\* status_list.push_back(status); the lock_guard's scope ends
CbPush(th) ==
  /\ CbGoto(th, "push", "notify")
  /\ status_list' = status_list \cup {code[th]}
  /\ status_mutex' = NoThread
  /\ UNCHANGED <<mainVars, code, reports>>

\* Mutant: notify_one is left out.
CbNotify_Silent(th) ==
  /\ CbGoto(th, "notify", "idle")
  /\ code' = [code EXCEPT ![th] = NoCode]
  /\ UNCHANGED <<status_mutex, status_list, mainVars, reports>>

\* status_cv.notify_one(), without the lock
CbNotify(th) ==
  /\ CbGoto(th, "notify", "idle")
  /\ pc' = IF pc = "blocked" THEN "woken" ELSE pc
  /\ code' = [code EXCEPT ![th] = NoCode]
  /\ UNCHANGED <<status_mutex, status_list, step, reports>>

-----------------------------------------------------------------------------
(* Main in a wait.                                                         *)

Acquire(from, to) ==
  /\ status_mutex = NoThread
  /\ pc = from
  /\ pc' = to
  /\ status_mutex' = Main
  /\ UNCHANGED <<status_list, step, cbVars>>

\* while (!found) { std::unique_lock<std::mutex> lock(status_mutex);
Enter == Acquire("enter", "check")

\* wait_for takes the mutex again after a wakeup, or after the timeout
Reacquire == Acquire("woken", "check") \/ Acquire("expired", "last_check")

Awaited == Script[step] \in status_list

\* Mutant: any status ends the wait.
Found_AnyStatus ==
  /\ pc \in {"check", "last_check"}
  /\ status_list # {}
  /\ pc' = "passed"
  /\ status_mutex' = NoThread
  /\ UNCHANGED <<status_list, step, cbVars>>

\* Mutant: the lock is declared outside the loop and outlives the wait.
Found_KeepsMutex ==
  /\ pc \in {"check", "last_check"}
  /\ Awaited
  /\ pc' = "passed"
  /\ UNCHANGED <<status_mutex, status_list, step, cbVars>>

\* The predicate holds: wait_for returns, the lock's scope ends, found is set.
Found ==
  /\ pc \in {"check", "last_check"}
  /\ Awaited
  /\ pc' = "passed"
  /\ status_mutex' = NoThread
  /\ UNCHANGED <<status_list, step, cbVars>>

\* Mutant: wait_for without a predicate blocks first and looks later.
Block_WithoutPredicate ==
  /\ pc = "check"
  /\ pc' = "blocked"
  /\ status_mutex' = NoThread
  /\ UNCHANGED <<status_list, step, cbVars>>

\* The predicate fails: release the mutex and block, in one step.
Block ==
  /\ pc = "check"
  /\ ~Awaited
  /\ pc' = "blocked"
  /\ status_mutex' = NoThread
  /\ UNCHANGED <<status_list, step, cbVars>>

\* After the timeout wait_for returns false: the loop goes round again.
GoRound ==
  /\ pc = "last_check"
  /\ ~Awaited
  /\ pc' = "enter"
  /\ status_mutex' = NoThread
  /\ UNCHANGED <<status_list, step, cbVars>>

Timeout ==
  /\ pc = "blocked"
  /\ pc' = "expired"
  /\ UNCHANGED <<status_mutex, status_list, step, cbVars>>

SpuriousWakeup ==
  /\ pc = "blocked"
  /\ pc' = "woken"
  /\ UNCHANGED <<status_mutex, status_list, step, cbVars>>

-----------------------------------------------------------------------------
(* Main between waits and at the end of the test function.                 *)

\* Mutant: one wait too many.
NextWait_PastEnd ==
  /\ pc = "passed"
  /\ step' = step + 1
  /\ pc' = "enter"
  /\ UNCHANGED <<status_mutex, status_list, cbVars>>

NextWait ==
  /\ pc = "passed"
  /\ step < Len(Script)
  /\ step' = step + 1
  /\ pc' = "enter"
  /\ UNCHANGED <<status_mutex, status_list, cbVars>>

\* The destructors of the locals, in reverse order of declaration.
DestroyNext(from, to) ==
  /\ pc = from
  /\ pc' = to
  /\ UNCHANGED <<status_mutex, status_list, step, cbVars>>

Return ==
  /\ step \in EarlyReturns \cup {Len(Script)}
  /\ DestroyNext("passed", "list_gone")

DestroyLocals ==
  \/ DestroyNext("list_gone", "cv_gone")
  \/ DestroyNext("cv_gone", "mutex_gone")

\* ~ConnectionManager joins its threads: none is left in a callback.
DestroyManager ==
  /\ \A th \in Threads : cb[th] = "idle"
  /\ DestroyNext("mutex_gone", "end")

Gone ==
  (IF pc \in {"list_gone", "cv_gone", "mutex_gone", "end"} THEN {"list"} ELSE {})
  \cup (IF pc \in {"cv_gone", "mutex_gone", "end"} THEN {"cv"} ELSE {})
  \cup (IF pc \in {"mutex_gone", "end"} THEN {"mutex"} ELSE {})

\* The local a callback is about to use.
Uses(th) ==
  CASE cb[th] = "lock" -> {"mutex"}
    [] cb[th] = "push" -> {"list", "mutex"}
    [] cb[th] = "notify" -> {"cv"}
    [] OTHER -> {}

\* Using a destroyed local is undefined: the stack memory may still hold what
\* it held (the actions above), or the thread is lost.
CbLost(th) ==
  /\ Uses(th) \cap Gone # {}
  /\ cb' = [cb EXCEPT ![th] = "lost"]
  /\ UNCHANGED <<status_mutex, status_list, mainVars, code, reports>>

-----------------------------------------------------------------------------

Callback(th) == CbLock(th) \/ CbPush(th) \/ CbNotify(th)

Waiting == Enter \/ Reacquire \/ Found \/ Block \/ GoRound

Destroy == Return \/ DestroyLocals \/ DestroyManager

Next ==
  \/ \E th \in Threads : Report(th) \/ Callback(th) \/ CbLost(th)
  \/ Waiting \/ Timeout \/ SpuriousWakeup
  \/ NextWait \/ Destroy

\* Running threads run.  Nothing makes the manager report, and no wakeup is
\* owed to the timeout: a wait must end by the notification alone.
Fairness ==
  /\ WF_vars(Waiting)
  /\ WF_vars(NextWait \/ Destroy)
  /\ \A th \in Threads : WF_vars(Callback(th))

Spec == Init /\ [][Next]_vars /\ Fairness

\* The same with a clock that runs: a wait_for that is not notified expires.
TimedSpec == Spec /\ WF_vars(Timeout)

-----------------------------------------------------------------------------
(* Properties.                                                             *)

MainHolds == pc \in {"check", "last_check"}

\* Types of every variable; a callback that has not pushed has a status to push.
TypeOK ==
  /\ status_mutex \in Threads \cup {Main, NoThread}
  /\ status_list \in SUBSET Codes
  /\ pc \in {"enter", "check", "blocked", "woken", "expired", "last_check", "passed",
             "list_gone", "cv_gone", "mutex_gone", "end"}
  /\ step \in 1..Len(Script)
  /\ cb \in [Threads -> {"idle", "lock", "push", "notify", "lost"}]
  /\ code \in [Threads -> Codes \cup {NoCode}]
  /\ \A th \in Threads : cb[th] \in {"lock", "push"} => code[th] \in Codes
  /\ reports \in 0..MaxReports

\* While the locals live, status_list is only used by the owner of its mutex:
\* a scan by the predicate never overlaps a push_back.
ListGuarded ==
  Gone = {} =>
    /\ MainHolds <=> status_mutex = Main
    /\ \A th \in Threads : cb[th] = "push" <=> status_mutex = th

\* The heart of the condition variable's use: Main is never asleep with the
\* awaited status in the list unless some callback is still to notify it.
NoLostWakeup ==
  (pc = "blocked" /\ Awaited) => \E th \in Threads : cb[th] = "notify"

\* Main passes a wait only after the status it waited for was reported, in
\* whatever order the statuses came.
PassedWasReported ==
  \A i \in 1..Len(Script) :
    i < step \/ (i = step /\ (pc = "passed" \/ Gone # {})) => Script[i] \in status_list

IInv == TypeOK /\ ListGuarded /\ NoLostWakeup /\ PassedWasReported

\* The waits that Main has passed.
PassedWaits == IF pc = "passed" \/ Gone # {} THEN step ELSE step - 1

Await == INSTANCE StatusAwait WITH reported <- status_list, passed <- PassedWaits

\* With its locks taken away, the waiting is that of StatusAwait: a wait passes
\* in one step, after its status was reported and for no other reason, and
\* does pass then, if the test does not return early.
AwaitSpec == Await!Spec

\* A status that has been reported ends the wait for it, without any help from
\* the timeout.
ReportedIsSeen ==
  \A i \in 1..Len(Script) :
    (step = i /\ Script[i] \in status_list) ~> (step > i \/ pc = "passed" \/ Gone # {})

\* A callback only uses locals that still exist.
CallbackStateAlive == \A th \in Threads : Uses(th) \cap Gone = {}

\* Every wait comes to an end, found or not: the test gives up when a status
\* does not come (cm_master_test.cpp:134, "if (!modem_found) { return; }").
WaitGivesUp == []<>(pc \in {"passed", "end"})

=============================================================================
