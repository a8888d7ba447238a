CONSTANTS
  w1 = w1
  w2 = w2
  Workers = {w1, w2}
  NoWorker = NoWorker
  MaxTools = 2
  Policies <- SomeTools
  MaxCrashes = 1
  MaxDbFaults = 0
  MaxResumes = 1
SYMMETRY Symmetry
SPECIFICATION Spec
INVARIANTS LeaseDiscipline SucceededIsComplete FailedIsResumable
PROPERTIES EndedIsFinal DoneStepsStayDone ImplementsLifecycle
CHECK_DEADLOCK FALSE
