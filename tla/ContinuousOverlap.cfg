\* Two reconcile passes overlap, and discovery changes once.
SPECIFICATION Spec
CONSTANTS
  Nobody = Nobody
  Partitions = {p, q}
  Workers = {a}
  Emissions = {}
  Checkpoints = {}
  MaxToken = 2
  Servers = {a}
  Reconcilers = {r1, r2}
  Admins = {o1}
  Weight <- Even
  MaxSurprises = 0
  MaxAborts = 0
  MaxOrders = 1
  MaxDiscoveries = 1
  MaxEvents = 2
  MaxUnnoticed = 0
SYMMETRY Interchangeable
INVARIANTS
  StatusTellsOwner
  OneTrackedTask
PROPERTIES
  ImplementsLeaseStore
