\* All control flows of a four-step DSL under small caps.
SPECIFICATION FairSpec
CONSTANTS
  NSteps = 4
  MaxIterations = 9
  MaxRecursions <- MCMaxRecursions
  Skip = {3}
  ReloadDsl = {3, 4}
INVARIANTS BudgetSpent RecursionsCapped
PROPERTY RunTerminates
CHECK_DEADLOCK FALSE
