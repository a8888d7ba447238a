SPECIFICATION Spec
CONSTANTS
  Procs = {p1, p2}
  MaxDeletes = 2
  MaxIndexAttempts = 2
  MaxClaims = 3
  MaxRemovals = 1
  MaxCrashes = 1
  MaxSlow = 1
  MaxStalls = 1
  MaxFaults = 1
  MaxBaseFaults = 1
  ScanLimit = 1
  MaxLeftovers = 0
SYMMETRY Symmetry
INVARIANTS TombstoneHasTask ReadyIsIndexed DeletedLeavesNothing
PROPERTIES DeletionIsFinal
CHECK_DEADLOCK FALSE
