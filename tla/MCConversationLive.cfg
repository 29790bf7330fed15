SPECIFICATION FairSpec
CONSTANTS
  w1 = w1
  w2 = w2
  c1 = c1
  c2 = c2
  m1 = m1
  m2 = m2
  None = None
  Workers <- TwoWorkers
  Consultants <- OneConsultant
  Messages <- FirstMessage
  Triggers <- FirstMessage
  Answers <- OneAnswer
  Operations <- TakeOverOrSend
  Faults <- NoFaults
  Hasty <- OneConsultant
  MaxDeliveries = 2
  MaxOps = 1
  MaxCrashes = 0
  MaxSendAttempts = 1
CHECK_DEADLOCK FALSE
PROPERTIES
  EverybodyFinishes
  EveryMessageProcessed
  ImplementsLiveTurns
