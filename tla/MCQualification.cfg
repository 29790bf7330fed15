SPECIFICATION Spec
CONSTANTS
  Catalogue <- TwoServices
  Languages <- Russian
  MaxCalls = 4
  AnalyzeUnmatched = TRUE
  Arrivals <- FourArrivals
  Answers <- ManyAnswers
  Edits <- ThreeEdits
  MaxTurns = 3
  MaxEdits = 1
  MaxFaults = 2
CHECK_DEADLOCK FALSE
INVARIANTS
  AlertedOnce
  HandoffIsAlerted
  LeadAgreesWithUser
  ServiceAskedOnce
  BudgetHolds
PROPERTIES
  NothingForgotten
