SPECIFICATION Spec
CONSTANTS
  r1 = r1
  r2 = r2
  root = root
  anna = anna
  Requests <- TwoRequests
  Accounts <- TwoAccounts
  Admins <- OneAdmin
  Root = root
  Careless <- OneConsultant
  MaxAttempts = 1
  Threshold = 1
  MaxSessions = 2
  MaxPasswords = 2
  MaxFaults = 1
SYMMETRY Alike
CHECK_DEADLOCK FALSE
INVARIANTS
  OldPasswordEndsSessions
  DisabledIsRefused
  LimitsHold
