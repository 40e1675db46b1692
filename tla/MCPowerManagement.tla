-------------------------- MODULE MCPowerManagement --------------------------
(* Small instances of PowerManagement for TLC.                             *)
EXTENDS PowerManagement
=============================================================================
