---------------------------- MODULE MCStatusWait ----------------------------
(***************************************************************************)
(* StatusWait for TLC: the script of test_pair_connect_reconfigure.        *)
(***************************************************************************)
EXTENDS StatusWait

MCScript == <<"DRIVER_CONNECTED", "CONNECTED", "RECONFIGURED">>
MCCodes == {"DRIVER_CONNECTED", "CONNECTED", "RECONFIGURED"}

=============================================================================
