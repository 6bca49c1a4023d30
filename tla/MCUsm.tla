------------------------------- MODULE MCUsm -------------------------------
(***************************************************************************)
(* Usm for TLC: the states of connection_manager_master.h, and a small     *)
(* table with a self loop, states without entries and entries missing.     *)
(***************************************************************************)
EXTENDS Usm, TLC

MCTable ==
  (<<"M_IDLE", "T_NEXT1">> :> "M_PAIR") @@
  (<<"M_PAIR", "T_NEXT1">> :> "M_PAIR") @@
  (<<"M_PAIR", "T_ERROR">> :> "M_RECONFIGURE")

MCStates == {"M_IDLE", "M_PAIR", "M_RECONFIGURE"}

=============================================================================
