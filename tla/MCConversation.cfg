SPECIFICATION Spec
CONSTANTS
  w1 = w1
  w2 = w2
  c1 = c1
  c2 = c2
  m1 = m1
  m2 = m2
  None = None
  Workers <- TwoWorkers
  Consultants <- OneConsultant
  Messages <- TwoMessages
  Triggers <- FirstMessage
  Answers <- TwoAnswers
  Operations <- AllOps
  Faults <- NoFaults
  Hasty <- NoneHasty
  MaxDeliveries = 1
  MaxOps = 1
  MaxCrashes = 0
  MaxSendAttempts = 1
SYMMETRY Alike
CHECK_DEADLOCK FALSE
INVARIANTS
  TypeOK
  OneTurnAtATime
  AtMostOneLateAnswer
  NeverSpeaksFirst
  NudgeHangsOnNewest
PROPERTIES
  EscalationSticks
