\* No crash: every unit settles and the run concludes, the consumer owing nothing.
SPECIFICATION FairSpec
CONSTANTS
  r1 = r1
  u1 = u1
  u2 = u2
  a = a
  b = b
  Nobody = Nobody
  Runs = {r1}
  Units = {u1, u2}
  RunOf <- OneRun
  MaxAttempts <- Tries
  Pollers = {a}
  Consumers = {b}
  Serves <- ServeTwo
  Planners = {p1}
  PollLimit = 2
  MaxAborts = 0
  MaxRequeues = 0
PROPERTY
  UnitsSettle
  RunsConclude
