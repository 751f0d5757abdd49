----------------------------- MODULE MCDiscovery -----------------------------
(***************************************************************************)
(* Discovery and CommandLine for TLC, with three names an instance may     *)
(* have and one that CreateInterface() refuses.                            *)
(***************************************************************************)
EXTENDS CommandLine

=============================================================================
