------------------------------- MODULE MCDetach -------------------------------
(* Values of the constants of Detach for TLC. *)
EXTENDS Detach

CONSTANTS r1, u1, f1, d1, d2, d3

=============================================================================
