\* One partition and two workers; the deployment and two of: a late renewal or
\* heartbeat, a crash or store error, a drain, a stop.
SPECIFICATION Spec
CONSTANTS
  Nobody = Nobody
  Partitions = {p}
  Workers = {a, b}
  Emissions = {k1}
  Checkpoints = {}
  MaxToken = 3
  Servers = {a, b}
  Reconcilers = {r1}
  Admins = {o1}
  Weight <- Even
  MaxSurprises = 1
  MaxAborts = 1
  MaxOrders = 2
  MaxDiscoveries = 0
  MaxEvents = 3
  MaxUnnoticed = 0
SYMMETRY Interchangeable
INVARIANTS
  OneWriter
  DroppedAreFenced
