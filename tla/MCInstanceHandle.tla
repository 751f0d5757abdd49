-------------------------- MODULE MCInstanceHandle --------------------------
(***************************************************************************)
(* InstanceHandle for TLC.                                                 *)
(***************************************************************************)
EXTENDS InstanceHandle

=============================================================================
