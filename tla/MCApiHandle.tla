---------------------------- MODULE MCApiHandle ----------------------------
(***************************************************************************)
(* ApiHandle for TLC. The run checks liveness, which rules symmetry out.   *)
(***************************************************************************)
EXTENDS ApiHandle

=============================================================================
