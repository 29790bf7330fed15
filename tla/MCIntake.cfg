SPECIFICATION FairSpec
CONSTANTS
  m1 = m1
  m2 = m2
  m3 = m3
  g = g
  a = a
  b = b
  n1 = n1
  n2 = n2
  n3 = n3
  n4 = n4
  hole = hole
  p1 = p1
  p2 = p2
  bad = bad
  r1 = r1
  r2 = r2
  w1 = w1
  w2 = w2
  None = None
  Messages <- AllMessages
  Chats <- TwoChats
  ChatOf <- Chat2
  Private <- ButGroups
  Events <- AllEvents
  Kind <- KindOf
  Carried <- CarriedBy
  Feed <- SixItems
  Transports <- Both
  Receivers <- TwoReceivers
  Workers <- TwoWorkers
  QueueSize = 1
  MaxPosts = 1
  MaxFaults = 1
  MaxStarts = 2
CHECK_DEADLOCK FALSE
INVARIANTS
  TypeOK
  AcknowledgedIsKept
  RecheckDecides
  LineIsHonest
PROPERTIES
  QueuedIsFinished
  NotificationLeaves
