SPECIFICATION FairSpec
CONSTANTS
  c1 = c1
  c2 = c2
  s1 = s1
  s2 = s2
  None = None
  Consultants <- FirstConsultant
  Viewers <- FirstConsultant
  PullSlots <- TwoSlots
  BufferSize = 1
  PullLimit = 1
  MaxRows = 3
  MaxClicks = 1
  MaxFaults = 1
CHECK_DEADLOCK FALSE
INVARIANTS
  NoHole
PROPERTIES
  LiveUpdate
