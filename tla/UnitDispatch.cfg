\* Two dispatchers that read one row at a time, a message that cannot be sent, and
\* one failure.
SPECIFICATION FairSpec
CONSTANTS
  u1 = u1
  e1 = e1
  Units = {u1}
  MaxAttempts <- Tries
  Emissions = {e1}
  Poison = {e1}
  Dispatchers = {d1, d2}
  Consumers = {c1}
  Pollers = {p1}
  BatchLimit = 1
  MaxTroubles = 1
INVARIANTS
  RowsTellState
  NoWakeupWasted
  SentSparingly
PROPERTIES
  WaitingUnitsWoken
  PendingIsDecided
  ImplementsCalls
