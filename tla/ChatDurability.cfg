SPECIFICATION FairSpec
CONSTANTS
  Turns = {t1}
  NoGate = NoGate
  MaxRetries = 1
  MaxFaults = 3
  MaxDbFaults = 3
  MaxHistory = 2
  MaxCrashes = 2
  MaxEvictions = 1
INVARIANTS SavedIsKept StoredOnce DeadLetterIsEarned
PROPERTIES SavedIsStored
CHECK_DEADLOCK FALSE
