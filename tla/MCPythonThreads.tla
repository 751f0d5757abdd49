-------------------------- MODULE MCPythonThreads --------------------------
(***************************************************************************)
(* PythonThreads for TLC.                                                  *)
(***************************************************************************)
EXTENDS PythonThreads

=============================================================================
