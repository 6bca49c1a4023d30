# A TLA+ verification of the Pairing v2 code samples

The repository shows how the Connection Manager library is used to pair and
connect a ground station (*master*) with a vehicle (*slave*): two test programs,
a console demo, and the library's headers. The bodies of the library are not in
the repository. What can be verified is therefore the code that *is* there:

* the state machine engine that the library is built on (`include/usm.h`,
  a template, complete in its header);
* the way the test programs follow the library through callbacks, mutexes and
  condition variables (`cm_master_test.cpp`, `cm_slave_test.cpp`);
* the console demo with its unprotected table of vehicles (`master_demo.cpp`).

The library itself is the environment of the last two: threads that may call the
registered callbacks at any time. Nothing is assumed of it that the samples do
not themselves rely on, and each such assumption is named below.

## Inventory

| Part | State | Operations | Who calls it | What is hard |
|---|---|---|---|---|
| `usm::StateMachine` | `_state_mutex`, `_current_state`, the locals of a call in progress | `iterate_once`, `get_state`, `state_lock`, `state_unlock`; the virtual `run_current_state`, `choose_next_state`, `print_transition` | the library's state machine thread, the thread of every command, derived classes | three reads of the state in one call; exceptions out of three virtual functions; a lock held while a handler runs |
| status waits of the tests | `status_mutex`, `status_cv`, `status_list` | status callback; wait loop; destruction of the locals | callback: any library thread; the rest: the test's thread | lost wakeups, statuses out of order, timeouts that lead nowhere, callbacks that outlive the locals they use |
| master pairing test | the above; `pairing_list_mutex`, `pairing_list_cv`, `pairing_list_callback_called`, `vehicle` | pairing list callback; wait for it; `get_pairing_list`, `pair_to`, `reconfigure` | as above | a flag read without its lock, an untimed wait, a lock kept for the rest of the function, a list that changes after the callback |
| sequence of the tests | the file `pairing-cm.json`, the two programs | `TEST`: remove the file, pair test, autoconnect test | googletest, one process on either side | the second test depends on the first one's outcome, through a file and the other program |
| demo: choice of drivers | `config`, `first` | `find_in_argv`, one `if` per driver | main, once | commas for every subset of drivers; when to give up |
| master demo | static set `vehicles`, the token read, the screen | `display_lists`, `get_vehicle_name`, the commands | `display_lists`: Main and the list callbacks on library threads | the set is shared without a lock; a row number is resolved against a set that may have changed; several digits |
| connection manager, base and master (headers) | maps of pairings and connections, threads, condition variables | declared only | samples, drivers, link layer | out of reach: no bodies |
| drivers, registry, link layers, sockets, OpenSSL wrappers, utilities, logging, JSON keys (headers) | a few fields | declared only | the library | out of reach: no bodies |
| `json/json.h` | | | | vendored |

How they interact: a sample constructs a connection manager, registers callbacks,
calls `init` (which starts the library's threads: a state machine thread, a worker
that expires vehicles, a UDP receiver) and then issues commands from its own
thread. The library answers through the callbacks only, on its own threads.
Samples and library share the variables the callbacks capture by reference (tests)
or a static set (demo). The master's own state machine is a `usm::StateMachine`.

What makes each part correct:

* engine: calls are atomic; a transition is the table's answer for the state the
  handler ran in; the mutex is always given back;
* status waits: no reported status is slept through; nothing is passed that was
  not reported; the list is used under its mutex; a callback uses live locals;
* pairing test: the same for the pairing list; no library thread is blocked on
  the lock the test keeps; the waits after `pair_to` have a vehicle;
* demo: a number names the vehicle shown in that row; the table shows the lists;
  of the vehicles that stay listed it misses none but such as are unpaired while the lists
  are read; the program ends on `x` with nobody using the dead set; its configuration lists the drivers that were named;
* the two programs: what they wait for comes from this run, and they do not wait for
  each other.

The full list of hazards, with the line where each bites and the property that
watches it, is in `PROJECT.json`.

## Modules

| Module | What it is |
|---|---|
| `UsmTable` | data of a machine: states, transitions, the table behind `USM_TABLE`/`USM_STATE`/`USM_MAP` |
| `UsmAtomic` | abstract specification of the engine: every call happens at one instant |
| `Usm` | the engine, step by step, for any set of threads |
| `UsmProofs` | its theorems |
| `StatusAwait` | abstract specification of a sequence of waits: a wait is one step |
| `StatusWait` | status callback, wait loop, destruction of the locals; any script of statuses |
| `StatusWaitProofs` | its theorems |
| `MasterTest` | `test_pair_connect_reconfigure` of the master: `StatusWait` and the pairing part |
| `MasterTestProofs` | its theorems, which build on those of `StatusWait` |
| `PairingDialogue` | abstract specification of the master's pairing test: the commands its manager sees, each after the answer it needs |
| `PairingTests` | the two test programs against each other, both tests of each, the file between them, the time they sleep |
| `PairingTestsProofs` | its theorems |
| `MasterDemo` | the console demo |
| `MasterDemoProofs` | its theorems |
| `DemoConfig` | how the demo chooses drivers and assembles its configuration |
| `DemoConfigProofs` | what it configures and when it gives up, for any command line |
| `MC...` | instances for TLC; the `.cfg` files give the constants (`PairingTests` has no MC module: two numbers are all it needs) |

Operators whose comment begins with *Mutant* are not part of any specification: each
is a plausible bug in the definition that follows it, kept to show that a
property would notice.

### Usm

A thread's `pc` is the place in the function it is in; `frame` holds the locals
(the state the handler ran with, the transition `t`, `new_state`, which starts as
the uninitialised `NoState`). Every statement between `lock_guard` and return that
reads or writes shared state is an action: `Run`, `Choose`, `Commit`, `PrintStay`.
The handler may return any `Transition`; it and the two other virtual functions
may throw at their step (`Throw`), and unwinding releases the mutex. `StateLock`
and `StateUnlock` bracket code of a derived class, which cannot reach the private
`_current_state`. `outcome` is a history variable: what a caller learns from its
last call. The table is a constant, `ChooseNextState` is what the macros expand to.

Assumption: the virtual functions do not call their own machine's public functions
(a `std::mutex` is not recursive, it would block for ever). No handler body is in
the repository to check this against. `state_unlock` is called by the thread that
called `state_lock`.

The refinement to `UsmAtomic` hides the lock: `VisibleState` is `current_state`,
except between the assignment and the release of the mutex, when it is still the
old one, so that state and return value change in the same step.

### StatusWait

`status_list` is the set of codes in the list, since only membership is asked for.
Main's `pc` runs through one wait of `Script` at a time: `enter`, `check` (the predicate,
with the mutex), `blocked`, `woken`/`expired` (waiting for the mutex again), `passed`;
then the destructors in reverse order of declaration (`list_gone`, `cv_gone`,
`mutex_gone`, `end`). Releasing the mutex and going to sleep are one step, as
`std::condition_variable` guarantees; the callback's push and its notification are
two, because `notify_one` is called outside the lock. Spurious wakeups and timeouts are
possible whenever Main sleeps. A callback that reaches for a destroyed local is
undefined behaviour: it may carry on with what is left in memory or be lost
(`CbLost`). The manager is external: any status on any of its threads, at any time
until its destructor has joined them. The two programs repeat this code six times with
scripts of two or three statuses; `EarlyReturns` names the waits after which a test
may return early (none but the first of the master's pairing test).

The refinement to `StatusAwait` takes locks, condition variable and callbacks away:
`PassedWaits` counts the waits of which Main has set its `found`. This is what lets
`PairingTests` take a wait for one step.

### MasterTest

Extends `StatusWait`; its own variables carry the pairing part. `ppc` is Main's place
in it, `pcb` each thread's in the pairing callback. Main enters the pairing part once
it has passed the first wait and is in it until `pair_to` (`paired`) or the early
return (`unwind`); only then do `TestNextWait` or `Unwind` let it go on. Main's
ownership of `pairing_list_mutex` lasts from `LockPairing` to `Unwind`, which is the
destruction of the local `lock` and the first thing to happen when the function
returns. The callback's unlocked test of the flag is a step of its own. A thread is in
at most one callback.

Assumed of the manager: it calls the pairing callback holding none of the locks that
`get_pairing_list` takes (`master_demo.cpp` calls it from that callback); the list may
gain or lose vehicles before a callback. For liveness only: the vehicle broadcasts, so
there is a change of the list sometime; and the manager's `Reporter` thread, unless it
is stuck in a callback, does report the status that Main waits for, `CONNECTED` after
`pair_to`. Statuses that nobody waits for are bounded so that they leave room for
these (`MaxReports`).

The refinement to `PairingDialogue` hides everything but what crosses the line between
the test and its manager: the statuses reported, the pairing list, the vehicle chosen, and
`Asked`, the last command. Pairing mode comes after `DRIVER_CONNECTED`, the list is read once
and either yields the vehicle for `pair_to` or ends the dialogue, `reconfigure` comes after
`CONNECTED`; and a command whose answer is there is given.

### PairingTests

Both programs are straight-line code: `Code` is the sequence of instructions of `TEST`
with its two test functions, `at` the position of each program in it, and there is one
action per kind of instruction. The one branch is the return for an empty list
(`AwaitPairingList`). `status_list` starts empty with every manager, since it is a local
beside it. A program and its manager are on a machine with a `pairing-cm.json` of its own,
which may be left over from an earlier run.

Assumed of the managers, which are external: `init` succeeds and the modem is found;
with both in pairing mode the slave gets into the master's list (and may leave it
again); after `pair_to` both store the pairing in their file; managers with the pairing
connect whenever both exist, and then each reports `CONNECTED` in its own time;
`RECONFIGURED` likewise after `reconfigure`. A manager that is destroyed takes the link
with it, and its peer reports nothing more.

Time is counted where durations race, in whole seconds: the sleeps of five seconds against
what the managers do meanwhile. `_status_period` and `_status_timeout` are those of
`connection_manager.h`; `beat` is the stream of statuses from the slave's manager to the
master's, whose connected list drops the slave when it has heard nothing for as long as the
timeout. Everything else takes no time: `Tick` is possible only when both programs are
blocked or asleep, no report has waited for `ReportDelay` and no status is due. That is
the assumption behind the sleeps, in numbers: reports arrive in less time than a sleep, at
most `MaxLost` statuses are lost in a row, and the losses and a report's delay together
stay below the timeout (`TimingAssumption`). Both sides change their parameters at
the same instant (`Reconfigure`); what they report of it is delayed, each for itself. The slave
is dropped at the first instant that the timeout allows, the worst case for
`ConnectedAtTheEnd`.

`PairingTests` implements `PairingDialogue` too, as `MasterTest` does. One has the test's
threads and an arbitrary manager, the other a straight line and the whole system around it; that both
are the same dialogue is what ties the two together.

That a wait is one step here is not only said but checked: each of the four tests goes
through its waits as `StatusAwait` says (`AwaitSpecs`), which is the specification that the
detailed wait of `StatusWait` implements. `reported` is what the manager of that very test has
put into its list; a status of the other manager does not count.

`NeverStuck` is the part of `PairTestsEnd` and `OneEnds` that speaks of single states: unless the
master gave up, either a program can go on, or one is asleep and time passes, or a manager
still has something to do, or both are in the autoconnect test and one of them is through. `ManagersAct` lists what a manager has to do by name
instead of by `ENABLED`, so that it can be proved. `GivenUpForGood` is what `giving_up` rests on, as
an invariant: the file is gone, nothing is paired any more, and neither program gets past its
next wait for `CONNECTED`.

### DemoConfig

A section of the configuration is one piece, named by its argument; `Choose` is one
`if` of main, `Close` the end of the configuration and the test of `first`. `argv[0]` is
among the arguments, since `find_in_argv` has to skip it.

### MasterDemo

Main and every library thread run the same `Display` steps: copy the pairing list,
copy the paired list, clear the static set, insert one by one, print one row at a time
(the iterator is modelled as "the least element after the last row"), return. Main
reads tokens and dispatches on the letter as the `switch` does; a token's argument is the
sequence of its other characters, each as its code minus `'0'`, so that
`get_vehicle_name(in[1])` is `GetVehicleName(in.arg[1])`. Commands that the code ignores
are `Ignore`. Concurrent use of the set with a writer is undefined: either the
operations come out whole, one after the other, or the program may go down (`Crash`).
An empty token changes nothing, which is also all that ever happens after the end of
the input. Left out: the help text and the connection
columns, which are read and printed and change nothing.

`screen`, `fresh`, `disturbed`, `steady` and `unpaired` are history variables, which only the
properties read: the last complete table; whether it is undisturbed and the set unwritten
since; whether another thread wrote during a display; the vehicles that were in one list or
the other all along a display; those that left the paired list between its two reads.

The order of the two reads (lines 168 and 169) decides which vehicles can be missed.
A vehicle on its way from the pairing list to the paired list cannot be, because the list it
leaves is read first. The other direction remains: a vehicle that was paired before, enters the
pairing list after line 168 and is unpaired before line 169 is listed all the time and yet in
neither copy, nor in the table. The model shows this (it is reached in `master_demo`), and `OnlyUnpairedMissed` and
`TableLacksOnlyUnpaired` say that it is the only way. It is no finding, since nothing in the repository
promises more: the callback of the unpairing prints the table again.

What an undisturbed table is good for is said of every step in which Main looks a vehicle
up (`CharacterSelectsRow`): a single character names the vehicle printed in its row, and a
character without a row there (a letter, a digit too high) names no vehicle.

## Runs

| Run | Bounds | Shows |
|---|---|---|
| `usm` | 2 threads, 3 states, a table with a self loop, entries missing and a state without entries | types, `HandlerStateStable`, `EngineFrozen`, refinement to `UsmAtomic`, `MutexReleased`, `WaitersProgress` |
| `status_wait` | 2 manager threads, 3 waits, 4 reports | `ListGuarded`, `NoLostWakeup`, `PassedWasReported`, `ReportedIsSeen`, refinement to `StatusAwait` |
| `master_test` | 2 manager threads, one of which changes the list 3 times, 2 vehicles, 4 reports | `PairingGuarded`, `NoLostPairing`, `NoCallbackStuck`, `LockOrder`, `WaitsForAVehicle`, refinement to `PairingDialogue`, `TestReturns` |
| `master_demo` | 1 manager thread, 2 vehicles, one broadcasting and one paired, 2 list changes, 1 further callback, all commands with no, one and two characters | `TableIsSnapshot`, `OnlyUnpairedMissed`, `VehiclesOutliveThreads`, `TableLacksOnlyUnpaired`, `CharacterSelectsRow`, `ExitEnds` |
| `pairing_tests` | reports within 1 second, 1 status lost in a row; the programs are finite, with every file an earlier run may have left | `PairedInThisRun`, `AutoconnectIsNew`, `ConnectedAtTheEnd`, `NeverStuck`, `GivenUpForGood`, refinement to `PairingDialogue` and, for each test of each program, to `StatusAwait` (`AwaitSpecs`), `PairTestsEnd`, `OneEnds` |
| `demo_config` | every command line of up to 3 of 8 words, a program named like a driver | `ConfigIsJsonList`, `RefusedWithoutDriver` |
| `teardown` | as `status_wait` | violated: `CallbackStateAlive` |
| `wait_forever` | as `status_wait`, timeouts fair | violated: `WaitGivesUp` |
| `stuck_callback` | two threads change the list, 2 vehicles | violated: `PairToConnects` |
| `giving_up` | as `pairing_tests` | violated: `GivingUpEnds` |
| `two_digit_rows` | 11 vehicles, nothing changes | violated: `NumberSelectsRow` |
| `row_while_redisplayed` | 2 vehicles, one callback, the lists never change | violated: `RowIsStable` |

Why the bounds are enough. Engine: the mutex makes threads take turns, so two suffice
for every order of two calls; the table has every kind of entry. Waits: two threads
give overlapping callbacks; three waits and one report to spare give statuses that come
early, late and twice. Pairing: add, drop and add again are the three changes that lead to
a full list, an empty one, and a callback after the flag is set. Demo: two rows are
what it takes to confuse them, and two list changes move a vehicle from one list to
the other during one display, in either direction, since one vehicle begins in each list
(the paired list is kept in the file of `master_demo.cpp:55`); `two_digit_rows` needs the eleven. Configuration: each
`if` looks at the command line on its own and at `first`; three words give no, one, two and
three sections with gaps anywhere, and `all` gives six. The two programs: with one second and
one lost status the silence at the end comes as close to the timeout as the assumption
allows. All the safety properties of the passing runs are proved without
bounds.

The tests and the demo stop, and `StatusWait` may wait for ever for a manager that says
nothing: these runs do not check for deadlock. The engine's run does.

## Fairness

* `Usm`: a thread that holds the mutex goes on (handlers return or throw), and a free
  mutex is given to some waiter. `std::mutex` promises no more, so no *particular* thread
  is shown to get in.
* `StatusWait`: threads that can run do. The timeout is *not* fair in `Spec`, so
  `ReportedIsSeen` shows that the notification alone suffices; it is in `TimedSpec`, where
  the question is whether the timeout helps.
* `MasterTest`: as above, and strong fairness for a callback that waits for a mutex
  which is free again and again. Main looks at the list once per wait, every 30 to 120
  seconds, and between two looks the mutex is free all the time. Of the manager, the
  two assumptions named above.
* `PairingTests`: the programs run, and the managers do in the end what is listed above.
  That the slave leaves the list again is not fair: it may never happen. Statuses are sent
  (`SendStatus`) and time passes (`Tick`), or a sleep would not end.
* `PairingDialogue`: of the abstract test, that it gives a command whose answer is there; the two
  detailed specifications are checked to do so under their own fairness. Nothing is promised
  of the answers.
* `MasterDemo`: threads run; nothing makes the user type or the library call back.

## What is proved

For every value of the constants (any number of threads, states, statuses, vehicles,
reports, list changes):

* **Engine** (`UsmProofs`). `IInv == TypeOK /\ LockInv /\ HandlerStateStable` is
  inductive. The three need each other: that `new_state` is a state when it is committed
  (`TypeOK`) follows from its being the table's answer (`HandlerStateStable`), which
  survives other threads' steps because only the owner of the mutex changes the state
  (`LockInv`, which is not checked by the run but proved: `MutualExclusion`). `Implements`
  then shows that every step of `Usm` is a step of `UsmAtomic` or changes nothing a caller can see. `FrozenEngine` is what code inside relies
  on: while it does not move itself, nobody changes anything of the engine (the bracket of `state_lock` and
  `state_unlock` is two calls, and a handler runs for long). `ClosedStates` says where a table
  can lead: a set of states with the starting state in it that no entry and no missing entry leaves is
  never left. With the table of a concrete machine in hand, that is how to show that a
  state is out of its reach.
* **Waits** (`StatusWaitProofs`). `IInv == TypeOK /\ ListGuarded /\ NoLostWakeup /\
  PassedWasReported` is inductive. The argument for `NoLostWakeup`: Main falls asleep only
  in the step in which it sees that the status is absent, with the mutex held; whoever
  adds it later is, from that step on, a thread about to notify. `Implements`: a push is
  a report of `StatusAwait`, finding the status is a pass, and the rest cannot be seen.
* **Pairing test** (`MasterTestProofs`). `StepMapsToStatusWait`: every step is a step
  of `StatusWait` or leaves its variables alone, so `WaitInvariance` and `TestImplementsAwait` come for free.
  `TestIInv` adds the pairing part; `PairingStage` (Main is in its first wait up to
  `pair_to`, and has a vehicle from then on) is the strengthening that makes
  `WaitsForAVehicle` inductive. `OneThreadNeverStuck` rests on `Settled`: once the flag
  is set nobody is about to lock the mutex, because the only thread in the callback is
  the one that set it. With two such threads this is false, and `stuck_callback`
  shows what then happens.
  What remains true with any number of them is proved from `OrderInv`: a thread is in one
  callback at a time, and past the pairing wait the flag is set. Then
  whoever owns `status_mutex` waits for nothing else (`LocksAreOrdered`), so the two mutexes cannot be taken in a
  circle; nobody starts to wait for the mutex that Main keeps, only those on their way
  can be caught (`NobodyElseGetsStuck`); and the thread that Main depends on is not among them
  unless it changes the list together with another (`ReporterNeverStuck`).

  `TestImplementsDialogue`: every step of the test is a command of `PairingDialogue`, an
  answer of its manager, or nothing the manager can see; the stage says which answers are in by
  which command.

* **The two programs** (`PairingTestsProofs`), for any `ReportDelay` and `MaxLost` within
  `TimingAssumption`. `PairingInv` has, beside the types, five parts. `PlacesInv`: which
  manager exists, and what it has been asked, at which place of the programs.
  `NewPairingInv`: whoever has removed its file and is paired, is so since this run; hence
  `PairedInThisRun`. `NewConnectionInv`: a `CONNECTED` in the second manager's list was
  reported to it; hence `AutoconnectIsNew`. `FirstLinkInv`: neither program is further than
  the other lets it, so that the first managers stay linked while either waits. `TimeInv`:
  the master's silence is at most what the lost statuses and the next one due account for while
  the link is up, and the master's last sleep begins at most `ReportDelay` after the slave's, so that the
  slave cannot have been gone for longer than that when the master wakes; hence
  `ConnectedAtTheEnd`. `PairingImplementsDialogue` follows from the places.

  `ProgressInv` adds what stands between two programs that wait for each other. `OfferInv`:
  until they are paired both managers stay in pairing mode, what the master has
  asked stays asked, and once they are paired both files stay. `KeepsUpInv`: the
  slave hears of the new parameters while the master sleeps, since of that sleep no more can have
  passed than the report has been owed for, which is less than the whole. Hence `NeverStuckAlways`, by
  cases on the places of the two programs; and `GivenUpForGoodAlways`. For
  `PairingImplementsAwaits` the invariant `AwaitInv` says that a wait that has been passed counts as many
  passed waits as its place in the script, and that a step of one test is invisible in
  the other three.
* **Demo** (`MasterDemoProofs`), for any number of threads, vehicles, rows and list changes.
  `DemoInv` adds to the invariants of the run what a display in progress has copied and what
  it still has to insert and to print (`DisplayInv`, with `RowsInv` and `ScreenInv`), without
  which `TableIsSnapshot` is not inductive; and that what was listed all along is in a list that is still
  to be read, or in a copy, or was unpaired after line 168 (`SteadyInv`), which is where the order of lines
  168 and 169 comes in. The rows printed are the set in ascending
  order; `RowIsFound` turns that into the index of `get_vehicle_name`, by counting the elements
  below a row, and gives `CharacterSelects`. `TablesLackOnlyUnpaired` joins the two halves: the copies
  miss only what was unpaired between them, and an undisturbed table is what was copied.
* **Configuration** (`DemoConfigProofs`). `ConfigInv` says what `first` stands for
  between any two `if`s: none so far was taken. With `FindIsMembership` (the loop asks
  for a word after the program's name) the refusal follows. `TextInv` counts: after `n` sections the
  text is one piece, or `2n`, long, the section of every `if` taken is at twice its number among
  them, and a comma at every odd place between.

Assumptions of the proofs are the `ASSUME`s on the constants: main, the threads and "no
thread" differ, table entries are states, a script is not empty, the script of the pairing
test begins with `DRIVER_CONNECTED` and `CONNECTED`, the empty name is no vehicle, and
`TimingAssumption`.

Only model-checked is everything under fairness, which is out of the prover's reach:
`MutexReleased`, `WaitersProgress`, `ReportedIsSeen`, `TestReturns`, `PairTestsEnd`, `OneEnds`,
`ExitEnds`, and the progress that `StatusAwait` and `PairingDialogue` promise (of
`AwaitSpec`, `AwaitSpecs` and `DialogueSpec` the safety is proved and the fairness checked). Of
`PairTestsEnd` and `OneEnds`, `NeverStuck` is the part that is proved. All invariants and
all action properties of the passing runs are theorems.

## Findings

1. *Callbacks outlive their locals.* In all four test functions the mutex, the condition
   variable and the list are declared after the manager and so destroyed before it, while
   its threads still call back (`teardown`).
2. *No wait can fail.* Timeouts lead back into the loop; the assertions after the waits
   cannot fail and the returns are dead code (`wait_forever`).
3. *The lock kept for the rest of the function* can block the thread whose answer the test
   waits for (`stuck_callback`): two callbacks read the flag before either sets it.
4. *Rows from 10 on* cannot be named; `p10` pairs to row 1 (`two_digit_rows`).
5. *A command during a refresh* names no vehicle or the wrong one
   (`row_while_redisplayed`).
6. *Giving up does not end the test*: the list may be empty when it is read after the
   callback, since the vehicle may have left it; the test then returns, the autoconnect test
   follows, with nothing paired, and never ends (`giving_up`).

Findings 6 and 3 depend on what the library does, which the headers only suggest: that
expiry is reported through the pairing list callback, and that more than one of its
threads changes the list.

`OneEnds` is as strong as it can be: the program that is slower in the autoconnect test may
wait for ever for a peer that has left, since `test_autoconnect` does not sleep before it
returns. Whether that happens depends on how the library exchanges `CONNECTED`, so it is
recorded as a hazard and not as a finding. For the same reason nothing is said of
`cm_master_test.cpp:279`, which runs the tests without `InitGoogleTest`: what follows is up
to the version of googletest. The demo's error message (`master_demo.cpp:323`) leaves out
`zerotier`, which the code accepts.

## Not modelled

The models cover nearly all the code with bodies in the repository that decides anything, which is
a small part of its lines:

* *The connection manager, its drivers, link layers, registry, crypto wrappers*
  (`connection_manager.h`, `connection_manager_master.h`, `connection_driver.h`, `link_layer*.h`,
  `driver_registry.h`, `openssl_*.h`): class declarations. The functions are in a library that
  is not part of the repository, so there is no step to translate. Their comments say what a
  field or a call is for, and that is used where a sample relies on it, marked external;
  of the values, the status period and timeout enter `PairingTests`. The state table of the
  master has names in the header and no transitions; `Usm` is checked and proved for every table
  instead.
* *JsonCpp* (`include/json/json.h`): half of all the lines, third-party, and again declarations
  only.
* *Constants and macros* (`json.h`, `util.h`, `sockets.h`, `utility/`): names of JSON keys, log
  macros, platform switches. Nothing happens in them.
* *Text*: the help of the demo, the layout of its table and its columns on connections, the values inside a driver's
  section, log lines, `transition_to_string`. Printed or passed on, they decide nothing in
  the samples.
* *A test program that is started again while its peer goes on*: what the removed file then
  means to a peer that still has its own is up to the library's pairing protocol, of which
  nothing is in the repository.
* *The tests without `InitGoogleTest`* and the exit at the end of the demo's input: see Findings and
  the hazards in `PROJECT.json`.

Four hazards have no property, each with its reason in `PROJECT.json`: a handler that calls
its own engine is excluded by an assumption above, because no handler body is here; what becomes of a
peer that has not been told of the connection, and of an empty vehicle name, is up to the library; and nothing
says what should happen at the end of the demo's input.
