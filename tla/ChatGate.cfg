SPECIFICATION FairSpec
CONSTANTS
  Turns = {t1, t2, t3}
  NoGate = NoGate
  MaxRetries = 0
  MaxFaults = 0
  MaxDbFaults = 1
  MaxHistory = 4
  MaxCrashes = 0
  MaxEvictions = 0
INVARIANTS OneTurnInside ResidentContextIsComplete
PROPERTIES TurnsEnd
CHECK_DEADLOCK FALSE
