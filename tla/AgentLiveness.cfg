CONSTANTS
  w1 = w1
  w2 = w2
  Workers = {w1, w2}
  NoWorker = NoWorker
  MaxTools = 1
  Policies <- SomeTools
  MaxCrashes = 1
  MaxDbFaults = 1
  MaxResumes = 0
SPECIFICATION FairSpec
PROPERTIES TaskComesToRest ApprovalTakesEffect
CHECK_DEADLOCK FALSE
