---------------------------- MODULE PairingTests ----------------------------
(***************************************************************************)
(* The two test programs against each other (cm_master_test.cpp and        *)
(* cm_slave_test.cpp), each on its own machine with its own                *)
(* pairing-cm.json.  Either program removes the file, runs                 *)
(* test_pair_connect_reconfigure with one connection manager and           *)
(* test_autoconnect with another, and is straight-line code: a sequence of *)
(* instructions, an action for each kind.  A wait for a status is one step *)
(* here; StatusWait has its details and shows that it passes if and only   *)
(* if the status has been reported.  MasterTest has those of the wait for  *)
(* the pairing list.                                                       *)
(*                                                                         *)
(* The managers are external: each is described by what the tests rely on. *)
(* init succeeds and finds the modem, a slave in pairing mode broadcasts,  *)
(* and the link holds as long as both managers exist.                      *)
(*                                                                         *)
(* Time counts where a sleep and the managers' periods race, in whole      *)
(* seconds; the programs' own steps take none.                             *)
(***************************************************************************)
EXTENDS Integers, Sequences

CONSTANTS
  ReportDelay,  \* what happens on the link is reported within that time
  MaxLost       \* consecutive statuses of the slave that may be lost

SleepTime == 5
StatusPeriod == 2
StatusTimeout == 6

ASSUME TimingAssumption ==
  /\ ReportDelay \in Nat /\ MaxLost \in Nat
  /\ ReportDelay < SleepTime
  /\ (MaxLost + 1) * StatusPeriod + ReportDelay < StatusTimeout

Programs == {"master", "slave"}

Op(op) == [op |-> op, status |-> "none"]
Await(status) == [op |-> "await", status |-> status]

\* test_pair_connect_reconfigure of the master and of the slave, test_autoconnect
MasterPairTest == <<
  Op("init"), Await("DRIVER_CONNECTED"), Op("enter_pairing_mode"), Op("await_pairing_list"),
  Op("pair_to"), Await("CONNECTED"), Op("sleep"), Op("reconfigure"), Await("RECONFIGURED"),
  Op("sleep"), Op("expect_connected"), Op("return")>>

\* Mutant: the slave does not wait for the master to finish.
SlavePairTest_NoSleep == <<
  Op("init"), Await("DRIVER_CONNECTED"), Op("enter_pairing_mode"), Await("CONNECTED"),
  Await("RECONFIGURED"), Op("return")>>

SlavePairTest == <<
  Op("init"), Await("DRIVER_CONNECTED"), Op("enter_pairing_mode"), Await("CONNECTED"),
  Await("RECONFIGURED"), Op("sleep"), Op("return")>>

AutoconnectTest == <<
  Op("init"), Await("DRIVER_CONNECTED"), Await("CONNECTED"), Op("return")>>

PairTest(p) == IF p = "master" THEN MasterPairTest ELSE SlavePairTest

\* Mutant: the file is removed before either test.
Code_RemovesTwice(p) == <<Op("remove")>> \o PairTest(p) \o <<Op("remove")>> \o AutoconnectTest

\* TEST(..., connection_driver_microhard)
Code(p) == <<Op("remove")>> \o PairTest(p) \o AutoconnectTest

\* Where the return of the pair test is, where the autoconnect test begins,
\* and where the program has ended.
PairReturn(p) == Len(PairTest(p)) + 1
Autoconnect(p) == Len(PairTest(p)) + 2
End(p) == Len(Code(p)) + 1

VARIABLES
  at,           \* per program, the position of its next instruction
  paired,       \* per program, whether its file holds the pairing with the other
  status_list,  \* per program, the statuses its current manager has reported
  up,           \* whether its current manager exists
  pairing_mode, \* whether that manager is in pairing mode
  commands,     \* what the master's test has asked of its current manager
  pairing_list, \* whether the slave is in the master's pairing list
  list_changed, \* pairing_list_callback_called
  linked,       \* whether the two managers are connected
  reconfigured, \* whether that link runs with the new parameters
  left,         \* per program, what is left of its sleep, or of the next one
  age,          \* how long something has been waiting to be reported
  beat,         \* the statuses that the slave's manager sends to the master's
  history       \* what the properties look back at

(* history.paired: the managers have paired since the programs started;     *)
(* history.links[p]: where p was whenever its manager reported CONNECTED;   *)
(* history.gave_up: the master's pair test returned for want of a vehicle.  *)
(* beat.due: the time to the next status; beat.lost: how many have been     *)
(* lost in a row; beat.silence: the time since the master's manager heard   *)
(* one, no further than the timeout.                                        *)

timing == <<left, age, beat>>
managers == <<up, pairing_mode, commands, pairing_list, list_changed>>
link == <<linked, reconfigured>>
vars == <<at, paired, status_list, up, pairing_mode, commands, pairing_list, list_changed,
          linked, reconfigured, left, age, beat, history>>

\* get_connected_list(): the slave is dropped when it has not been heard of for
\* as long as the timeout.
ConnectedList == beat.silence < StatusTimeout

NoBeat == [due |-> StatusPeriod, lost |-> 0, silence |-> StatusTimeout]

\* An earlier run may have left a file on either machine.
Init ==
  /\ at = [p \in Programs |-> 1]
  /\ paired \in [Programs -> BOOLEAN]
  /\ status_list = [p \in Programs |-> {}]
  /\ up = [p \in Programs |-> FALSE]
  /\ pairing_mode = [p \in Programs |-> FALSE]
  /\ commands = {}
  /\ pairing_list = FALSE /\ list_changed = FALSE
  /\ linked = FALSE /\ reconfigured = FALSE
  /\ left = [p \in Programs |-> SleepTime] /\ age = 0 /\ beat = NoBeat
  /\ history = [paired |-> FALSE, links |-> [p \in Programs |-> {}], gave_up |-> FALSE]

-----------------------------------------------------------------------------
(* The instructions.                                                       *)

Instruction(p) == IF at[p] = End(p) THEN Op("ended") ELSE Code(p)[at[p]]

GoesOn(p, op) ==
  /\ Instruction(p).op = op
  /\ at' = [at EXCEPT ![p] = @ + 1]

\* Mutant: the file is left where it is.
Remove_Keep(p) ==
  /\ GoesOn(p, "remove")
  /\ UNCHANGED <<paired, status_list, managers, link, timing, history>>

\* std::remove("pairing-cm.json")
Remove(p) ==
  /\ GoesOn(p, "remove")
  /\ paired' = [paired EXCEPT ![p] = FALSE]
  /\ UNCHANGED <<status_list, managers, link, timing, history>>

\* Mutant: the list of statuses outlives the first test.
InitManager_KeepsList(p) ==
  /\ GoesOn(p, "init")
  /\ up' = [up EXCEPT ![p] = TRUE]
  /\ UNCHANGED <<paired, status_list, pairing_mode, commands, pairing_list, list_changed,
                 link, timing, history>>

\* A manager is constructed next to an empty list, callbacks, init(config).
InitManager(p) ==
  /\ GoesOn(p, "init")
  /\ up' = [up EXCEPT ![p] = TRUE]
  /\ status_list' = [status_list EXCEPT ![p] = {}]
  /\ UNCHANGED <<paired, pairing_mode, commands, pairing_list, list_changed, link, timing,
                 history>>

\* Mutant: any status ends the wait.
AwaitStatus_Any(p) ==
  /\ GoesOn(p, "await")
  /\ status_list[p] # {}
  /\ UNCHANGED <<paired, status_list, managers, link, timing, history>>

\* while (!found) { ... status_cv.wait_for(...) ... }
AwaitStatus(p) ==
  /\ GoesOn(p, "await")
  /\ Instruction(p).status \in status_list[p]
  /\ UNCHANGED <<paired, status_list, managers, link, timing, history>>

\* enter_pairing_mode()
EnterPairingMode(p) ==
  /\ GoesOn(p, "enter_pairing_mode")
  /\ pairing_mode' = [pairing_mode EXCEPT ![p] = TRUE]
  /\ UNCHANGED <<paired, status_list, up, commands, pairing_list, list_changed, link, timing,
                 history>>

\* Mutant: an empty list is not noticed.
AwaitPairingList_GoesOn ==
  LET p == "master"
  IN  /\ Instruction(p).op = "await_pairing_list"
      /\ list_changed
      /\ at' = [at EXCEPT ![p] = @ + 1]
      /\ UNCHANGED <<paired, status_list, managers, link, timing, history>>

\* pairing_list_cv.wait(...); get_pairing_list(); if it is empty, return
AwaitPairingList ==
  LET p == "master"
  IN  /\ Instruction(p).op = "await_pairing_list"
      /\ list_changed
      /\ at' = [at EXCEPT ![p] = IF pairing_list THEN @ + 1 ELSE PairReturn(p)]
      /\ history' = [history EXCEPT !.gave_up = ~pairing_list]
      /\ UNCHANGED <<paired, status_list, managers, link, timing>>

\* pair_to(vehicle), reconfigure(new_config)
Command(p) ==
  /\ GoesOn(p, "pair_to") \/ GoesOn(p, "reconfigure")
  /\ commands' = commands \cup {Instruction(p).op}
  /\ UNCHANGED <<paired, status_list, up, pairing_mode, pairing_list, list_changed, link, timing,
                 history>>

\* What has happened on the link and a manager has yet to report.
Owed(p) ==
  {s \in {"CONNECTED", "RECONFIGURED"} :
    /\ up[p]
    /\ s \notin status_list[p]
    /\ (s = "CONNECTED" /\ linked) \/ (s = "RECONFIGURED" /\ reconfigured)}

\* Mutant: the sleep is left out.
Sleep_Not(p) ==
  /\ GoesOn(p, "sleep")
  /\ UNCHANGED <<paired, status_list, managers, link, timing, history>>

\* sleep_for(seconds(5)) is over
Sleep(p) ==
  /\ GoesOn(p, "sleep")
  /\ left[p] = 0
  /\ left' = [left EXCEPT ![p] = SleepTime]
  /\ UNCHANGED <<paired, status_list, managers, link, age, beat, history>>

\* EXPECT_GT(get_connected_list().size(), 0)
ExpectConnected(p) ==
  /\ GoesOn(p, "expect_connected")
  /\ UNCHANGED <<paired, status_list, managers, link, timing, history>>

\* Mutant: the link survives the manager.
Return_KeepsLink(p) ==
  /\ GoesOn(p, "return")
  /\ up' = [up EXCEPT ![p] = FALSE]
  /\ UNCHANGED <<paired, status_list, pairing_mode, commands, pairing_list, list_changed,
                 link, timing, history>>

\* The test function returns and destroys its manager; the file stays.
Return(p) ==
  /\ GoesOn(p, "return")
  /\ up' = [up EXCEPT ![p] = FALSE]
  /\ pairing_mode' = [pairing_mode EXCEPT ![p] = FALSE]
  /\ IF p = "master"
     THEN commands' = {} /\ pairing_list' = FALSE /\ list_changed' = FALSE
     ELSE UNCHANGED <<commands, pairing_list, list_changed>>
  /\ linked' = FALSE /\ reconfigured' = FALSE
  /\ beat' = IF p = "master" THEN NoBeat ELSE [NoBeat EXCEPT !.silence = beat.silence]
  /\ UNCHANGED <<paired, status_list, left, age, history>>

Step(p) ==
  \/ Remove(p) \/ InitManager(p) \/ AwaitStatus(p) \/ EnterPairingMode(p)
  \/ p = "master" /\ AwaitPairingList
  \/ Command(p) \/ Sleep(p) \/ ExpectConnected(p) \/ Return(p)

-----------------------------------------------------------------------------
(* The managers.                                                           *)

Reports(p, status) ==
  /\ up[p]
  /\ status \notin status_list[p]
  /\ status_list' = [status_list EXCEPT ![p] = @ \cup {status}]

DetectDriver(p) ==
  /\ Reports(p, "DRIVER_CONNECTED")
  /\ UNCHANGED <<at, paired, managers, link, timing, history>>

\* The slave's broadcast puts it into the master's list, its callback is called.
Broadcast ==
  /\ \A p \in Programs : pairing_mode[p]
  /\ ~pairing_list
  /\ pairing_list' = TRUE /\ list_changed' = TRUE
  /\ UNCHANGED <<at, paired, status_list, up, pairing_mode, commands, link, timing, history>>

\* No broadcast for a while: the slave leaves the list.
Expire ==
  /\ pairing_list
  /\ pairing_list' = FALSE
  /\ UNCHANGED <<at, paired, status_list, up, pairing_mode, commands, list_changed, link, timing,
                 history>>

\* After pair_to both managers store the pairing, and leave pairing mode.
Pair ==
  /\ "pair_to" \in commands
  /\ \A p \in Programs : pairing_mode[p]
  /\ paired' = [p \in Programs |-> TRUE]
  /\ pairing_mode' = [p \in Programs |-> FALSE]
  /\ history' = [history EXCEPT !.paired = TRUE]
  /\ UNCHANGED <<at, status_list, up, commands, pairing_list, list_changed, link, timing>>

\* Paired managers connect, and hear of each other.
Connect ==
  /\ ~linked
  /\ \A p \in Programs : up[p] /\ paired[p]
  /\ linked' = TRUE
  /\ age' = 0 /\ beat' = [NoBeat EXCEPT !.silence = 0]
  /\ UNCHANGED <<at, paired, status_list, managers, reconfigured, left, history>>

Reconfigure ==
  /\ linked /\ ~reconfigured
  /\ "reconfigure" \in commands
  /\ reconfigured' = TRUE
  /\ age' = 0
  /\ UNCHANGED <<at, paired, status_list, managers, linked, left, beat, history>>

ReportLink(p) ==
  /\ \E s \in Owed(p) :
       /\ Reports(p, s)
       /\ history' = IF s = "CONNECTED"
                     THEN [history EXCEPT !.links[p] = @ \cup {at[p]}] ELSE history
  /\ UNCHANGED <<at, paired, managers, link, timing>>

\* The slave's manager sends its status, and the master's hears it or does not.
SendStatus ==
  /\ linked /\ beat.due = 0
  /\ \/ beat' = [due |-> StatusPeriod, lost |-> 0, silence |-> 0]
     \/ /\ beat.lost < MaxLost
        /\ beat' = [beat EXCEPT !.due = StatusPeriod, !.lost = @ + 1]
  /\ UNCHANGED <<at, paired, status_list, managers, link, left, age, history>>

Manager == Broadcast \/ Pair \/ Connect \/ Reconfigure

-----------------------------------------------------------------------------
(* Time passes while nothing has to happen at once.                        *)

Sleeping(p) == Instruction(p).op = "sleep"

\* What p has to wait for.
Blocked(p) ==
  \/ Instruction(p).op = "ended"
  \/ Instruction(p).op = "await" /\ Instruction(p).status \notin status_list[p]
  \/ Instruction(p).op = "await_pairing_list" /\ ~list_changed
  \/ Sleeping(p) /\ left[p] > 0

SomethingOwed == \E p \in Programs : Owed(p) # {}

Tick ==
  /\ linked \/ ConnectedList \/ \E p \in Programs : Sleeping(p)
  /\ \A p \in Programs : Blocked(p)
  /\ SomethingOwed => age < ReportDelay
  /\ linked => beat.due > 0
  /\ left' = [p \in Programs |-> IF Sleeping(p) THEN left[p] - 1 ELSE left[p]]
  /\ age' = IF SomethingOwed THEN age + 1 ELSE 0
  /\ beat' = [beat EXCEPT !.due = IF linked THEN @ - 1 ELSE @,
                          !.silence = IF ConnectedList THEN @ + 1 ELSE @]
  /\ UNCHANGED <<at, paired, status_list, managers, link, history>>

-----------------------------------------------------------------------------

Next ==
  \/ \E p \in Programs : Step(p) \/ DetectDriver(p) \/ ReportLink(p)
  \/ Manager \/ Expire \/ SendStatus \/ Tick

\* Programs run, and the managers do in the end what the tests wait for.
Fairness ==
  /\ \A p \in Programs :
       WF_vars(Step(p)) /\ WF_vars(DetectDriver(p)) /\ WF_vars(ReportLink(p))
  /\ WF_vars(Broadcast) /\ WF_vars(Pair) /\ WF_vars(Connect) /\ WF_vars(Reconfigure)
  /\ WF_vars(SendStatus) /\ WF_vars(Tick)

Spec == Init /\ [][Next]_vars /\ Fairness

-----------------------------------------------------------------------------
(* Properties.                                                             *)

Statuses == {"DRIVER_CONNECTED", "CONNECTED", "RECONFIGURED"}

\* Types of every variable; nothing is linked without two managers.
TypeOK ==
  /\ at \in [Programs -> Nat] /\ \A p \in Programs : at[p] \in 1..End(p)
  /\ paired \in [Programs -> BOOLEAN]
  /\ status_list \in [Programs -> SUBSET Statuses]
  /\ up \in [Programs -> BOOLEAN] /\ pairing_mode \in [Programs -> BOOLEAN]
  /\ commands \subseteq {"pair_to", "reconfigure"}
  /\ pairing_list \in BOOLEAN /\ list_changed \in BOOLEAN
  /\ linked \in BOOLEAN /\ reconfigured \in BOOLEAN
  /\ left \in [Programs -> 0..SleepTime] /\ age \in 0..ReportDelay
  /\ beat \in [due : 0..StatusPeriod, lost : 0..MaxLost, silence : 0..StatusTimeout]
  /\ history \in [paired : BOOLEAN, links : [Programs -> SUBSET Nat], gave_up : BOOLEAN]
  /\ linked => \A p \in Programs : up[p]

\* Whether p has passed the wait for that status in the test it is in or, after
\* the last, in the autoconnect test.
Passed(p, status) ==
  LET start == IF at[p] < Autoconnect(p) THEN 1 ELSE Autoconnect(p)
  IN  \E i \in start..(at[p] - 1) : Code(p)[i] = Await(status)

\* Neither program gets past a wait for CONNECTED on the strength of a file
\* that an earlier run left behind: the managers paired in this run.
PairedInThisRun ==
  \A p \in Programs : Passed(p, "CONNECTED") /\ (at[p] # PairReturn(p) \/ ~history.gave_up)
    => history.paired

\* A program ends only after the manager of its autoconnect test connected:
\* the connection of its first test does not count.
AutoconnectIsNew ==
  \A p \in Programs : at[p] = End(p) => \E i \in history.links[p] : i > Autoconnect(p)

\* When the master looks at its connected list, the slave is there, although the
\* slave's test may have returned and taken its manager with it: the two sleeps
\* and the status timeout leave time enough (cm_master_test.cpp:203).
ConnectedAtTheEnd ==
  Instruction("master").op = "expect_connected" => ConnectedList

\* What the managers still have to do for the programs.
ManagersAct ==
  \/ \E p \in Programs : up[p] /\ ("DRIVER_CONNECTED" \notin status_list[p] \/ Owed(p) # {})
  \/ (\A p \in Programs : pairing_mode[p]) /\ ~pairing_list /\ ~list_changed
  \/ (\A p \in Programs : pairing_mode[p]) /\ "pair_to" \in commands
  \/ (\A p \in Programs : up[p] /\ paired[p]) /\ ~linked
  \/ linked /\ ~reconfigured /\ "reconfigure" \in commands

\* The two programs never wait for each other for good: unless the master gives
\* up, a program goes on, time does, or a manager has something to do, until
\* both pair tests are over and one program has ended.  In particular the master
\* takes its manager away only after the slave has heard of the new parameters
\* (the sleep, cm_master_test.cpp:202), and the files outlast the first test.
NeverStuck ==
  \/ history.gave_up
  \/ \E p \in Programs : ~Blocked(p) \/ Sleeping(p)
  \/ ManagersAct
  \/ (\A p \in Programs : at[p] >= Autoconnect(p)) /\ \E p \in Programs : at[p] = End(p)

\* A test that found no vehicle is never made good: the managers do not pair any
\* more, no file of an earlier run helps, the slave stays in its wait for
\* CONNECTED and the master's autoconnect test never gets past its own.
GivenUpForGood ==
  history.gave_up =>
    /\ ~history.paired /\ ~linked
    /\ at["slave"] <= 5
    /\ at["master"] <= Autoconnect("master") + 2

\* The master's pair test as its manager sees it.  What its second manager
\* reports is no part of it: by then every status counts as reported.
Asked ==
  CASE at["master"] <= 4 -> "nothing"
    [] at["master"] \in 5..6 -> "enter_pairing_mode"
    [] at["master"] > 6 /\ history.gave_up -> "gave_up"
    [] at["master"] \in 7..9 -> "pair_to"
    [] OTHER -> "reconfigure"

Dialogue == INSTANCE PairingDialogue WITH
  Codes <- Statuses, Vehicles <- {"slave"}, NoVehicle <- "none",
  status_list <- IF at["master"] < Autoconnect("master") THEN status_list["master"] ELSE Statuses,
  pairing_list <- IF pairing_list THEN {"slave"} ELSE {},
  vehicle <- IF at["master"] > 5 /\ ~history.gave_up THEN "slave" ELSE "none",
  asked <- Asked

\* One step per instruction or all of its locks and callbacks (MasterTest), alone
\* or against the slave's program: the master's test is the same PairingDialogue.
DialogueSpec == Dialogue!Spec

\* The waits of either test of a program, as StatusAwait tells them: what its
\* manager has reported, and how many of its waits the test has passed.  Of the
\* manager of the other test nothing counts.
PairScript == <<"DRIVER_CONNECTED", "CONNECTED", "RECONFIGURED">>
AutoScript == <<"DRIVER_CONNECTED", "CONNECTED">>

PairStatuses(p) ==
  CASE at[p] < Autoconnect(p) -> status_list[p]
    [] at[p] >= Autoconnect(p) /\ p = "master" /\ history.gave_up -> {"DRIVER_CONNECTED"}
    [] OTHER -> Statuses

PairWaitsPassed(p) ==
  IF p = "master" /\ history.gave_up THEN 1
  ELSE IF at[p] >= Autoconnect(p) \/ Passed(p, "RECONFIGURED") THEN 3
  ELSE IF Passed(p, "CONNECTED") THEN 2
  ELSE IF Passed(p, "DRIVER_CONNECTED") THEN 1 ELSE 0

AutoStatuses(p) == IF at[p] > Autoconnect(p) THEN status_list[p] ELSE {}

AutoWaitsPassed(p) ==
  IF at[p] < Autoconnect(p) THEN 0
  ELSE IF Passed(p, "CONNECTED") THEN 2
  ELSE IF Passed(p, "DRIVER_CONNECTED") THEN 1 ELSE 0

MasterPairWaits == INSTANCE StatusAwait WITH
  Codes <- Statuses, Script <- PairScript,
  reported <- PairStatuses("master"), passed <- PairWaitsPassed("master")

SlavePairWaits == INSTANCE StatusAwait WITH
  Codes <- Statuses, Script <- PairScript,
  reported <- PairStatuses("slave"), passed <- PairWaitsPassed("slave")

MasterAutoWaits == INSTANCE StatusAwait WITH
  Codes <- Statuses, Script <- AutoScript,
  reported <- AutoStatuses("master"), passed <- AutoWaitsPassed("master")

SlaveAutoWaits == INSTANCE StatusAwait WITH
  Codes <- Statuses, Script <- AutoScript,
  reported <- AutoStatuses("slave"), passed <- AutoWaitsPassed("slave")

\* A wait may be one step here: the tests of both programs go through their waits
\* as StatusAwait says, which StatusWait implements with the callback, the mutex
\* and the condition variable.
AwaitSpecs ==
  /\ MasterPairWaits!Spec /\ SlavePairWaits!Spec
  /\ MasterAutoWaits!Spec /\ SlaveAutoWaits!Spec

\* Both pair tests come to their end, whichever side is faster and in whatever
\* order it hears of the connection and of the new parameters, unless the
\* master gives up.
PairTestsEnd ==
  <>(history.gave_up \/ \A p \in Programs : at[p] >= Autoconnect(p))

\* The two programs never wait for each other: unless the master gives up one
\* of them ends, and if the other does not, it is because its peer has gone.
OneEnds == <>(history.gave_up \/ \E p \in Programs : at[p] = End(p))

\* A test that finds no vehicle returns, and with it the program's test ends
\* (cm_master_test.cpp:149, "if (pairing_list.empty()) { return; }").
GivingUpEnds == history.gave_up ~> at["master"] = End("master")

=============================================================================
