SPECIFICATION FairSpec
CONSTANTS
  Procs = {p1, p2}
  MaxDeletes = 1
  MaxIndexAttempts = 1
  MaxClaims = 6
  MaxRemovals = 0
  MaxCrashes = 1
  MaxSlow = 1
  MaxStalls = 0
  MaxFaults = 1
  MaxBaseFaults = 0
  ScanLimit = 2
  MaxLeftovers = 2
PROPERTIES IndexingSettles DeletionConverges
CHECK_DEADLOCK FALSE
