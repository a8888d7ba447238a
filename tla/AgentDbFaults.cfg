CONSTANTS
  w1 = w1
  w2 = w2
  Workers = {w1, w2}
  NoWorker = NoWorker
  MaxTools = 1
  Policies <- AllTools
  MaxCrashes = 1
  MaxDbFaults = 1
  MaxResumes = 1
SYMMETRY Symmetry
SPECIFICATION Spec
INVARIANTS NoUnaskedReplay CallsAreApproved UnknownNeedsHuman OneStepRuns
PROPERTIES OperationIdIsStable
CHECK_DEADLOCK FALSE
