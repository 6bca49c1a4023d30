---------------------------- MODULE MCMasterTest ----------------------------
(***************************************************************************)
(* MasterTest for TLC: the three waits of test_pair_connect_reconfigure    *)
(* and a manager with two threads, its UDP thread and its worker thread.   *)
(***************************************************************************)
EXTENDS MasterTest

MCScript == <<"DRIVER_CONNECTED", "CONNECTED", "RECONFIGURED">>
MCCodes == {"DRIVER_CONNECTED", "CONNECTED", "RECONFIGURED"}

=============================================================================
