-------------------------- MODULE MCHealthMonitor --------------------------
(***************************************************************************)
(* Small instances of HealthMonitor for TLC.                               *)
(***************************************************************************)
EXTENDS HealthMonitor
=============================================================================
