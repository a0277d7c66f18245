CONSTANTS
  Server = {1, 2}
  FirstLeader = 1
  NoServer <- NoLiveLeader
  Key = {k1}
  Value = {v1}
  NotFound = NotFound
  Faulty = {}
  Client = {1, 2}
  Commands <- WriterAndDeleter
  NumRetries = 2
  MaxOps = 1
  MaxElections = 1
CHECK_DEADLOCK FALSE
SPECIFICATION Spec
INVARIANTS TypeOK ReplicaIsReplay AckedIsCommitted AttemptsOnce
           RealTimeOrder ReadIsCommitted
