SPECIFICATION Spec
CONSTANTS
  f1 = f1
  f2 = f2
  None = None
  Workers <- OneWorker
  LastStage = 1
  MaxAttempts = 2
  BatchSize = 1
  Operations <- Dropping
  MaxMessages = 1
  MaxOps = 1
  MaxMishaps = 0
CHECK_DEADLOCK FALSE
PROPERTIES
  CancelledStaysCancelled
