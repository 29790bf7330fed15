SPECIFICATION Spec
CONSTANTS
  None = None
  Consultants = {c1, c2}
INVARIANTS
  TypeOK
  TakeOverWinsOnce
PROPERTIES
  ModelStaysOffHumanStatuses
  EscalationReachesConsultant
