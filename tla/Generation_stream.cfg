\* One run with a streamed response of up to two characters, one retry and
\* three poll times, an abort, and two stops of the process.
CONSTANTS
  c1 = c1  c2 = c2  c3 = c3  r1 = r1  r2 = r2
  Callers = {c1}
  Requests = {r1}
  Asks <- OneInput
  MaxText = 2
  MaxTime = 3
  MaxRetries = 1
  MayDowngrade = FALSE
  Budget <- StreamBudget
SPECIFICATION FairSpec
INVARIANTS
  TypeOK PresentationMatchesTask TranscriptMatchesRun
PROPERTIES
  RunMovesForward PartialIsKept WaitsEnd
CHECK_DEADLOCK FALSE
