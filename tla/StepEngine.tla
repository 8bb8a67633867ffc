------------------------------ MODULE StepEngine ------------------------------
(***************************************************************************)
(* StepEngine::run of steps/engine.rs: the loop that walks the steps of    *)
(* one DSL under a global transition budget (max_iterations) and a cap per *)
(* step (max_recursions).                                                  *)
(*                                                                         *)
(* What a step's executor computes is left open: a step that is not        *)
(* skipped may fail, return, or name any next step, as a `switch` does.    *)
(***************************************************************************)
EXTENDS Integers, FiniteSetsExt

CONSTANTS
  NSteps,         \* number of steps of the DSL, in source order
  MaxIterations,  \* the engine's max_iterations
  MaxRecursions,  \* step -> its max_recursions (a large number if it has none)
  Skip,           \* the steps with `skip: true`
  ReloadDsl       \* the steps with `reload_dsl: true`

Steps == 1..NSteps

ASSUME StepEngineAssumption ==
  /\ NSteps \in Nat
  /\ MaxIterations \in Nat
  /\ MaxRecursions \in [Steps -> Nat]
  /\ Skip \subseteq Steps
  /\ ReloadDsl \subseteq Steps

VARIABLES
  idx,         \* current_step_idx; NSteps + 1 is past the last step
  budget,
  recursions,  \* step -> times it was dispatched
  bypassed,    \* history: transitions spent advancing past a capped step
  status,      \* "running", or how the run ended (terminated_by)
  finished,    \* `next: end` was met
  reloaded     \* the steps after which a reload was triggered

vars == <<idx, budget, recursions, bypassed, status, finished, reloaded>>

\* per_step_cap
StepCap(s) == IF MaxRecursions[s] < MaxIterations THEN MaxRecursions[s] ELSE MaxIterations

Statuses == {"running", "error", "return", "end_of_steps", "iteration_cap"}

TypeOK ==
  /\ idx \in 1..(NSteps + 1)
  /\ budget \in 0..MaxIterations
  /\ recursions \in [Steps -> 0..MaxIterations]
  /\ bypassed \in 0..MaxIterations
  /\ status \in Statuses
  /\ finished \in BOOLEAN
  /\ reloaded \subseteq Steps

Init ==
  /\ idx = 1
  /\ budget = MaxIterations
  /\ recursions = [s \in Steps |-> 0]
  /\ bypassed = 0
  /\ status = "running"
  /\ finished = FALSE
  /\ reloaded = {}

-----------------------------------------------------------------------------

\* The loop condition holds.
InLoop == status = "running" /\ ~finished /\ idx <= NSteps /\ budget > 0

\* Faulty variant: the transition past a capped step is free and goes nowhere.
BypassInPlace ==
  /\ InLoop
  /\ recursions[idx] >= StepCap(idx)
  /\ bypassed' = bypassed
  /\ UNCHANGED <<idx, budget, recursions, status, finished, reloaded>>

\* Faulty variant: advancing past a capped step does not count.
BypassFree ==
  /\ InLoop
  /\ recursions[idx] >= StepCap(idx)
  /\ idx' = idx + 1
  /\ bypassed' = bypassed + 1
  /\ UNCHANGED <<budget, recursions, status, finished, reloaded>>

\* The step's cap is used up: advance past it in source order.
Bypass ==
  /\ InLoop
  /\ recursions[idx] >= StepCap(idx)
  /\ budget' = budget - 1
  /\ idx' = idx + 1
  /\ bypassed' = bypassed + 1
  /\ UNCHANGED <<recursions, status, finished, reloaded>>

\* Faulty variant: `>` for `>=` in the cap check.
DispatchOffByOne ==
  /\ InLoop
  /\ recursions[idx] <= StepCap(idx)
  /\ budget' = budget - 1
  /\ recursions' = [recursions EXCEPT ![idx] = @ + 1]

\* Budget and counter of a step that is dispatched (or skipped).
Dispatch ==
  /\ InLoop
  /\ recursions[idx] < StepCap(idx)
  /\ budget' = budget - 1
  /\ recursions' = [recursions EXCEPT ![idx] = @ + 1]

\* `skip: true`: no action, no reload, fall through.
SkipStep ==
  /\ Dispatch
  /\ idx \in Skip
  /\ idx' = idx + 1
  /\ UNCHANGED <<bypassed, status, finished, reloaded>>

\* The executor fails: the run ends with a StepContext error.
StepFails ==
  /\ Dispatch
  /\ idx \notin Skip
  /\ status' = "error"
  /\ UNCHANGED <<idx, bypassed, finished, reloaded>>

\* The step returns: the run ends there, before reload_dsl is looked at.
StepReturns ==
  /\ Dispatch
  /\ idx \notin Skip
  /\ status' = "return"
  /\ UNCHANGED <<idx, bypassed, finished, reloaded>>

\* The action of a step that does not return, with the reload it asked for.
ActAndReload ==
  /\ Dispatch
  /\ idx \notin Skip
  /\ reloaded' = IF idx \in ReloadDsl THEN reloaded \cup {idx} ELSE reloaded
  /\ UNCHANGED bypassed

\* next: <a step of this DSL>
JumpTo(s) == ActAndReload /\ idx' = s /\ UNCHANGED <<status, finished>>

\* No next: fall through.
FallThrough == ActAndReload /\ idx' = idx + 1 /\ UNCHANGED <<status, finished>>

\* next: end
JumpToEnd == ActAndReload /\ finished' = TRUE /\ UNCHANGED <<idx, status>>

\* next: <no step of this DSL>: DslExecution error.
JumpToUnknown == ActAndReload /\ status' = "error" /\ UNCHANGED <<idx, finished>>

\* After the loop: terminated_by is decided on the budget alone.
LoopEnds ==
  /\ status = "running"
  /\ ~InLoop
  /\ status' = IF budget = 0 THEN "iteration_cap" ELSE "end_of_steps"
  /\ UNCHANGED <<idx, budget, recursions, bypassed, finished, reloaded>>

Next ==
  \/ Bypass \/ SkipStep \/ StepFails \/ StepReturns
  \/ \E s \in Steps : JumpTo(s)
  \/ FallThrough \/ JumpToEnd \/ JumpToUnknown
  \/ LoopEnds

Spec == Init /\ [][Next]_vars

\* Every executor returns eventually (its own timeouts are not modelled here).
FairSpec == Spec /\ WF_vars(Next)

-----------------------------------------------------------------------------
\* Every transition is paid for once: what is gone from the budget is what the
\* steps were dispatched plus what was spent advancing past capped steps.
BudgetSpent ==
  /\ TypeOK
  /\ MaxIterations - budget = bypassed + MapThenSumSet(LAMBDA s : recursions[s], Steps)

\* No step is dispatched more often than min(max_recursions, max_iterations),
\* whatever the jumps.
RecursionsCapped == \A s \in Steps : recursions[s] <= StepCap(s)

\* A run ends, whatever cycles `next:` makes.
RunTerminates == <>(status # "running")

=============================================================================
