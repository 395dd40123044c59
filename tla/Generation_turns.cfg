\* Three callers share two request ids, one of them under two types, while the
\* process stops, the run is aborted or an input withdrawn, and the definition may
\* be gone after reopening.
CONSTANTS
  c1 = c1  c2 = c2  c3 = c3  r1 = r1  r2 = r2
  Callers = {c1, c2, c3}
  Requests = {r1, r2}
  Asks <- Mixed
  MaxText = 0
  MaxTime = 1
  MaxRetries = 0
  MayDowngrade = TRUE
  Budget <- TurnsBudget
SPECIFICATION Spec
INVARIANTS
  RunOwnsOpenInputs PreparedFromTail WaitersSeeOutcome
PROPERTIES
  ImplementsTurns ImplementsLifecycle
CHECK_DEADLOCK FALSE
