SPECIFICATION Spec
CONSTANTS
  w1 = w1
  w2 = w2
  c1 = c1
  c2 = c2
  m1 = m1
  m2 = m2
  None = None
  Workers <- TwoWorkers
  Consultants <- NoConsultants
  Messages <- TwoMessages
  Triggers <- FirstMessage
  Answers <- OneAnswer
  Operations <- NoOps
  Faults <- AllFaults
  Hasty <- HastyWorkers
  MaxDeliveries = 2
  MaxOps = 0
  MaxCrashes = 1
  MaxSendAttempts = 2
SYMMETRY Alike
CHECK_DEADLOCK FALSE
PROPERTIES
  ImplementsChatTurns
