SPECIFICATION FairSpec
CONSTANTS
  f1 = f1
  f2 = f2
  None = None
  Workers <- OneWorker
  LastStage = 2
  MaxAttempts = 2
  BatchSize = 2
  Operations <- AllOps
  MaxMessages = 1
  MaxOps = 1
  MaxMishaps = 1
CHECK_DEADLOCK FALSE
INVARIANTS
  BoundedNudges
  FewLateNudges
PROPERTIES
  EveryNudgeSettles
