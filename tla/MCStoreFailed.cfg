CONSTANTS
  Server = {1, 2}
  FirstLeader = 1
  NoServer <- NoLiveLeader
  Key = {k1}
  Value = {v1}
  NotFound = NotFound
  Faulty = {}
  Client = {1}
  Commands <- Puts
  NumRetries = 1
  MaxOps = 1
  MaxElections = 0
CHECK_DEADLOCK FALSE
SPECIFICATION Spec
INVARIANTS FailedMeansNotAppended
