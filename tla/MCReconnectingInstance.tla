----------------------- MODULE MCReconnectingInstance -----------------------
(***************************************************************************)
(* ReconnectingInstance for TLC. The clients are interchangeable.          *)
(***************************************************************************)
EXTENDS ReconnectingInstance, TLC

Symmetry == Permutations(Client)

=============================================================================
