-------------------------- MODULE MCSimulationLoop --------------------------
(***************************************************************************)
(* SimulationLoop for TLC.                                                 *)
(***************************************************************************)
EXTENDS SimulationLoop

=============================================================================
