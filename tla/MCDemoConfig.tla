---------------------------- MODULE MCDemoConfig ----------------------------
(***************************************************************************)
(* DemoConfig for TLC: every driver, "all" and a word of no meaning, and a *)
(* program that happens to be called like a driver.                        *)
(***************************************************************************)
EXTENDS DemoConfig

MCPrograms == {"master_demo", "wifi"}
MCWords == Range(Drivers) \cup {"all", "other"}

=============================================================================
