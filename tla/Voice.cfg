SPECIFICATION Spec
CONSTANTS
  c1 = c1
  c2 = c2
  Conns = {c1, c2}
  UserOf <- MCUserOf
  MaxGlobal = 2
  MaxPerUser = 1
  TurnIds = {"t1"}
  MaxFrames = 1
  QueueSize = 1
  MaxTurns <- MCMaxTurns
  MaxSentences <- MCMaxSentences
INVARIANTS HubFollowsHandlers WorkerOwnsTurn CompletedIsSpoken
PROPERTIES TurnsEnd DrainEnds
