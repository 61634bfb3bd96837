\* Two partitions, each leased twice at most, and one event at one sink.
SPECIFICATION Spec
CONSTANTS
  Last = 2
  LeaseSeconds = 3
  Events = {e1}
  MaxHandles = 2
INVARIANTS
  LiveLeaseServed
  StopSignalsReach
  RecordedOnce
