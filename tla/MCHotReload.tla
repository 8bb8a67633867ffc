----------------------------- MODULE MCHotReload ------------------------------
(* Values of the constants of HotReload for TLC. *)
EXTENDS HotReload

CONSTANTS q1, z1

=============================================================================
