-------------------------- MODULE PairingDialogue ---------------------------
(***************************************************************************)
(* What the manager sees of the master's test_pair_connect_reconfigure     *)
(* (cm_master_test.cpp): which command follows which answer.  How the test *)
(* comes by the answers is hidden: MasterTest has the callbacks, locks and *)
(* condition variables, PairingTests the slave, the two managers and their *)
(* timing, and both implement this.                                        *)
(***************************************************************************)
CONSTANTS
  Codes,     \* the statuses there are
  Vehicles,  \* names a pairing list can hold
  NoVehicle  \* no vehicle has been chosen

VARIABLES
  status_list,   \* the statuses reported so far
  pairing_list,  \* the vehicles that can be paired to
  vehicle,       \* the vehicle chosen
  asked          \* the last command, or that the test has given up

vars == <<status_list, pairing_list, vehicle, asked>>

Init ==
  /\ status_list = {} /\ pairing_list = {}
  /\ vehicle = NoVehicle
  /\ asked = "nothing"

\* The manager's answers: statuses come and stay, vehicles come and go.
Answer ==
  /\ status_list' \in SUBSET Codes /\ status_list \subseteq status_list'
  /\ pairing_list' \in SUBSET Vehicles
  /\ UNCHANGED <<vehicle, asked>>

EnterPairingMode ==
  /\ asked = "nothing"
  /\ "DRIVER_CONNECTED" \in status_list
  /\ asked' = "enter_pairing_mode"
  /\ UNCHANGED <<status_list, pairing_list, vehicle>>

\* The list is read once: it has a vehicle to pair to, or the test gives up.
GetPairingList ==
  /\ asked = "enter_pairing_mode"
  /\ vehicle = NoVehicle
  /\ \/ vehicle' \in pairing_list /\ asked' = asked
     \/ pairing_list = {} /\ asked' = "gave_up" /\ vehicle' = vehicle
  /\ UNCHANGED <<status_list, pairing_list>>

PairTo ==
  /\ asked = "enter_pairing_mode"
  /\ vehicle # NoVehicle
  /\ asked' = "pair_to"
  /\ UNCHANGED <<status_list, pairing_list, vehicle>>

Reconfigure ==
  /\ asked = "pair_to"
  /\ "CONNECTED" \in status_list
  /\ asked' = "reconfigure"
  /\ UNCHANGED <<status_list, pairing_list, vehicle>>

Next == Answer \/ EnterPairingMode \/ GetPairingList \/ PairTo \/ Reconfigure

SafeSpec == Init /\ [][Next]_vars

\* A command whose answer is there is given.
Spec == SafeSpec /\ WF_vars(EnterPairingMode) /\ WF_vars(PairTo) /\ WF_vars(Reconfigure)

=============================================================================
