\* Any callers on two partitions, each leased up to three times.
SPECIFICATION LeaseSpec
CONSTANTS
  Nobody = Nobody
  Partitions = {p1, p2}
  Workers = {a, b}
  Emissions = {k1}
  Checkpoints = {c1}
  MaxToken = 3
SYMMETRY Interchangeable
PROPERTIES
  TenuresDistinct
  FencedWrites
  ImplementsFencedLog
