----------------------------- MODULE MCStepEngine -----------------------------
(* Values of the constants of StepEngine for TLC. *)
EXTENDS StepEngine

\* The first step may run twice, the second is never dispatched, the others
\* have no cap of their own.
MCMaxRecursions == [s \in Steps |-> CASE s = 1 -> 2 [] s = 2 -> 0 [] OTHER -> 1000]

=============================================================================
