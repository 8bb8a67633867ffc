--------------------------- MODULE StepEngineProofs ---------------------------
(* Proofs about the step loop, for every DSL, budget and cap. *)
EXTENDS StepEngine, TLAPS

\* A step's cap is a number of dispatches the global budget can pay for.
LEMMA StepCapType ==
  ASSUME NEW s \in Steps
  PROVE  StepCap(s) \in 0..MaxIterations
BY StepEngineAssumption DEF StepCap

\* Inside the loop the index is that of a step and the budget can be charged.
LEMMA InLoopType ==
  ASSUME TypeOK, InLoop
  PROVE  /\ idx \in Steps /\ idx + 1 \in 1..(NSteps + 1)
         /\ budget \in 1..MaxIterations /\ budget - 1 \in 0..MaxIterations
         /\ recursions[idx] \in Nat
BY StepEngineAssumption DEF TypeOK, InLoop, Steps

\* Charging a dispatch to a step keeps the counters typed and within the cap.
LEMMA DispatchKeeps ==
  ASSUME TypeOK, RecursionsCapped, Dispatch
  PROVE  /\ idx \in Steps /\ idx + 1 \in 1..(NSteps + 1)
         /\ budget' \in 0..MaxIterations
         /\ recursions' \in [Steps -> 0..MaxIterations]
         /\ RecursionsCapped'
<1>1. /\ idx \in Steps /\ idx + 1 \in 1..(NSteps + 1)
      /\ budget' \in 0..MaxIterations
      /\ recursions[idx] \in Nat
  BY InLoopType DEF Dispatch
<1>2. /\ StepCap(idx) \in 0..MaxIterations
      /\ recursions[idx] + 1 \in 0..MaxIterations
      /\ recursions[idx] + 1 <= StepCap(idx)
  BY <1>1, StepCapType, StepEngineAssumption DEF Dispatch
<1>3. recursions' = [recursions EXCEPT ![idx] = recursions[idx] + 1]
  BY DEF Dispatch
<1>4. recursions' \in [Steps -> 0..MaxIterations]
  BY <1>1, <1>2, <1>3 DEF TypeOK
<1>5. RecursionsCapped'
  <2> SUFFICES ASSUME NEW s \in Steps PROVE recursions'[s] <= StepCap(s)
    BY DEF RecursionsCapped, StepCap
  <2>1. CASE s = idx
    BY <2>1, <1>2, <1>3 DEF TypeOK
  <2>2. CASE s # idx
    BY <2>2, <1>3 DEF TypeOK, RecursionsCapped
  <2> QED BY <2>1, <2>2
<1> QED BY <1>1, <1>4, <1>5

\* `bypassed` never overtakes what is gone from the budget, which bounds it.
BypassPaid == bypassed <= MaxIterations - budget

\* The inductive invariant: the cap of each step, and what types the counters.
EngineInv == TypeOK /\ RecursionsCapped /\ BypassPaid

\* A run starts with the invariant.
LEMMA EngineInvInit == Init => EngineInv
<1> SUFFICES ASSUME Init PROVE EngineInv
  OBVIOUS
<1>1. idx \in 1..(NSteps + 1) /\ budget \in 0..MaxIterations
        /\ bypassed \in 0..MaxIterations /\ BypassPaid
  BY StepEngineAssumption DEF Init, BypassPaid
<1>2. recursions \in [Steps -> 0..MaxIterations]
  BY StepEngineAssumption DEF Init
<1>3. status \in Statuses /\ finished \in BOOLEAN /\ reloaded \subseteq Steps
  BY DEF Init, Statuses
<1>4. RecursionsCapped
  BY StepCapType, StepEngineAssumption DEF Init, RecursionsCapped
<1> QED BY <1>1, <1>2, <1>3, <1>4 DEF EngineInv, TypeOK

\* Every step of the loop keeps it.
LEMMA EngineInvStep == EngineInv /\ [Next]_vars => EngineInv'
<1> SUFFICES ASSUME EngineInv, [Next]_vars PROVE EngineInv'
  OBVIOUS
<1> USE DEF EngineInv
<1>1. CASE Bypass
  <2>1. /\ idx + 1 \in 1..(NSteps + 1) /\ budget - 1 \in 0..MaxIterations
        /\ budget \in 1..MaxIterations
    BY <1>1, InLoopType DEF Bypass
  <2>2. bypassed + 1 \in 0..MaxIterations /\ BypassPaid'
    BY <1>1, <2>1, StepEngineAssumption DEF Bypass, TypeOK, BypassPaid
  <2>3. TypeOK'
    BY <1>1, <2>1, <2>2 DEF Bypass, TypeOK
  <2>4. RecursionsCapped'
    BY <1>1 DEF Bypass, RecursionsCapped, StepCap
  <2> QED BY <2>2, <2>3, <2>4
<1>2. ASSUME Dispatch, UNCHANGED bypassed, idx' \in 1..(NSteps + 1),
             status' \in Statuses, finished' \in BOOLEAN, reloaded' \subseteq Steps
      PROVE  EngineInv'
  <2>1. TypeOK' /\ RecursionsCapped'
    BY <1>2, DispatchKeeps DEF TypeOK
  <2>2. BypassPaid'
    BY <1>2, StepEngineAssumption DEF Dispatch, BypassPaid, TypeOK
  <2> QED BY <2>1, <2>2
<1>3. CASE SkipStep
  BY <1>2, <1>3, DispatchKeeps DEF SkipStep, TypeOK
<1>4. CASE StepFails
  BY <1>2, <1>4 DEF StepFails, TypeOK, Statuses
<1>5. CASE StepReturns
  BY <1>2, <1>5 DEF StepReturns, TypeOK, Statuses
<1>6. ASSUME ActAndReload
      PROVE  Dispatch /\ UNCHANGED bypassed /\ reloaded' \subseteq Steps
  BY <1>6, StepEngineAssumption DEF ActAndReload, TypeOK
<1>7. ASSUME NEW s \in Steps, JumpTo(s) PROVE EngineInv'
  BY <1>2, <1>6, <1>7, StepEngineAssumption DEF JumpTo, TypeOK, Steps
<1>8. CASE FallThrough
  BY <1>2, <1>6, <1>8, DispatchKeeps DEF FallThrough, TypeOK
<1>9. CASE JumpToEnd
  BY <1>2, <1>6, <1>9 DEF JumpToEnd, TypeOK
<1>10. CASE JumpToUnknown
  BY <1>2, <1>6, <1>10 DEF JumpToUnknown, TypeOK, Statuses
<1>11. CASE LoopEnds
  BY <1>11 DEF LoopEnds, TypeOK, Statuses, RecursionsCapped, BypassPaid, StepCap
<1>12. CASE UNCHANGED vars
  BY <1>12 DEF vars, TypeOK, RecursionsCapped, BypassPaid, StepCap
<1> QED
  BY <1>1, <1>3, <1>4, <1>5, <1>7, <1>8, <1>9, <1>10, <1>11, <1>12 DEF Next

\* The counters of a run stay within the engine's caps: the budget never wraps
\* below zero and no step is dispatched more often than its cap, whatever `next:`
\* targets the steps compute.
THEOREM RecursionsAreCapped == Spec => [](TypeOK /\ RecursionsCapped)
<1>1. Init => EngineInv
  BY EngineInvInit
<1>2. EngineInv /\ [Next]_vars => EngineInv'
  BY EngineInvStep
<1>3. EngineInv => TypeOK /\ RecursionsCapped
  BY DEF EngineInv
<1> QED BY <1>1, <1>2, <1>3, PTL DEF Spec

=============================================================================
