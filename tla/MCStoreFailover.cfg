CONSTANTS
  Server = {1, 2, 3}
  FirstLeader = 1
  NoServer <- NoLiveLeader
  Key = {k1}
  Value = {v1}
  NotFound = NotFound
  Faulty = {}
  Client = {1}
  Commands <- Puts
  NumRetries = 2
  MaxOps = 1
  MaxElections = 1
CHECK_DEADLOCK FALSE
SPECIFICATION FairSpec
PROPERTIES ImplementsHistory OpTerminates Converges
