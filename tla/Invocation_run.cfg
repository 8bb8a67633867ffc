\* Nested runs of all the programs of MCPrograms.
SPECIFICATION FairSpec
CONSTANTS
  Routes = {"a", "b"}
  Guards = {"g", "h", "k"}
  Fallback = "x"
  Covers <- MCCovers
  Programs <- MCPrograms
  Entry = "a"
  MaxIterations = 2
  MAX_GUARD_DEPTH = 2
  AllowList = {200}
  Items = 2
  MaxDepth = 12
INVARIANTS RunsAccounted GuardedBody
PROPERTY RequestAnswered
CHECK_DEADLOCK FALSE
