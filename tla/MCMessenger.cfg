SPECIFICATION Spec
CONSTANTS
  worker = worker
  consultant = consultant
  reply = reply
  answer = answer
  None = None
  Procs <- Producers
  Items <- Messages
  MaxSendAttempts = 3
  MaxTraffic = 2
SYMMETRY Symmetric
INVARIANTS
  SendExclusive
  StoredInWireOrder
  SentWasTaken
  BoundedCopies
