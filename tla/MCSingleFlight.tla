---------------------------- MODULE MCSingleFlight ----------------------------
(* Values of the constants of SingleFlight for TLC. *)
EXTENDS SingleFlight

CONSTANTS c1, c2, c3, ka, kb, kc, kd

=============================================================================
