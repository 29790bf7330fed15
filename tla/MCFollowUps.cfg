SPECIFICATION Spec
CONSTANTS
  f1 = f1
  f2 = f2
  None = None
  Workers <- TwoWorkers
  LastStage = 1
  MaxAttempts = 2
  BatchSize = 1
  Operations <- Rescheduling
  MaxMessages = 2
  MaxOps = 1
  MaxMishaps = 0
SYMMETRY Alike
CHECK_DEADLOCK FALSE
INVARIANTS
  SentOnce
  FewLateNudges
