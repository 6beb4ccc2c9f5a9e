----------------------------- MODULE MCElection -----------------------------
(* A small instance of Election for TLC. *)
EXTENDS Election

CONSTANTS a, b, r1
=============================================================================
