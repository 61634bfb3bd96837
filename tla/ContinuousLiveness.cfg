\* The deployment and one of: a late renewal or heartbeat, a crash or store
\* error, a drain, a stop; fair loops.  The lease of a crashed worker may run
\* out once while its heartbeat still looks fresh.
SPECIFICATION FairSpec
CONSTANTS
  Nobody = Nobody
  Partitions = {p}
  Workers = {a, b}
  Emissions = {}
  Checkpoints = {}
  MaxToken = 5
  Servers = {a, b}
  Reconcilers = {r1}
  Admins = {o1}
  Weight <- Even
  MaxSurprises = 1
  MaxAborts = 1
  MaxOrders = 2
  MaxDiscoveries = 0
  MaxEvents = 2
  MaxUnnoticed = 1
PROPERTIES
  ActivePartitionsServed
  StaleTasksStop
  StoppedIsQuiet
