\* A poller and a consumer race for two units of one run, with one crash or
\* store error and one claim requeued while its executor may still be alive.
SPECIFICATION Spec
CONSTANTS
  r1 = r1
  u1 = u1
  u2 = u2
  a = a
  b = b
  Nobody = Nobody
  Runs = {r1}
  Units = {u1, u2}
  RunOf <- OneRun
  MaxAttempts <- Tries
  Pollers = {a}
  Consumers = {b}
  Serves <- ServeTwo
  Planners = {p1, p2}
  PollLimit = 2
  MaxAborts = 1
  MaxRequeues = 1
INVARIANTS
  TypeOK
  ClaimedByHolder
  AttemptsAgree
  VerdictIsJust
  AttemptsBounded
  NothingStranded
PROPERTIES
  SettledForever
  ImplementsLedger
