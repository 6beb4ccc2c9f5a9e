---------------------------- MODULE MCRelayServer ----------------------------
(* Small instances of RelayServer for TLC. *)
EXTENDS RelayServer, TLC

Symmetry == Permutations(Token)
=============================================================================
