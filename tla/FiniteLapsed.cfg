\* One crash, two pollers that run forever: is a lapsed claim picked up again?
SPECIFICATION FairSpec
CONSTANTS
  r1 = r1
  u1 = u1
  u2 = u2
  a = a
  b = b
  Nobody = Nobody
  Runs = {r1}
  Units = {u1, u2}
  RunOf <- OneRun
  MaxAttempts <- Tries
  Pollers = {a, b}
  Consumers = {}
  Serves <- ServeTwo
  Planners = {p1}
  PollLimit = 1
  MaxAborts = 1
  MaxRequeues = 0
PROPERTY
  LapsedClaimsRecovered
