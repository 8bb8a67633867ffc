SPECIFICATION Spec
CONSTANTS
    Scenarios <- MCScenarios
    Names <- MCNames
    Retries = 1
INVARIANTS SessionUnnoticed DetachedIsIsolated 
\* A program ends.
CHECK_DEADLOCK FALSE
