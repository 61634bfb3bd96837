\* A run with two units, one with none, a scope of the product's own, and a
\* shutdown.
SPECIFICATION Spec
CONSTANTS
  r1 = r1
  r2 = r2
  own = own
  Shutdown = shutdown
  Runs = {r1, r2}
  Size <- Sizes
  Scopes <- AllScopes
  OwnScopes = {own}
  MaxAttempts = 2
  RetryBase = 1
  RetryCap = 2
  RetryAfter = {0}
  Graces = {1}
  MaxCalls = 2
  MaxTime = 1
INVARIANTS
  CallsHearTheirRun
PROPERTIES
  ImplementsTrials
  OutcomesStand
  CancellationStands
CHECK_DEADLOCK FALSE
