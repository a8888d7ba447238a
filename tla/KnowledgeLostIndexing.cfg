SPECIFICATION Spec
CONSTANTS
  Procs = {p1, p2}
  MaxDeletes = 1
  MaxIndexAttempts = 2
  MaxClaims = 4
  MaxRemovals = 0
  MaxCrashes = 0
  MaxSlow = 0
  MaxStalls = 1
  MaxFaults = 0
  MaxBaseFaults = 0
  ScanLimit = 1
  MaxLeftovers = 0
INVARIANTS PendingIsQueued
CHECK_DEADLOCK FALSE
