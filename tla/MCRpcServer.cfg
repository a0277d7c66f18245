SPECIFICATION FairRpcSpec
CONSTANTS
  NumRequests = 3
  Worker = {w1, w2}
  CommitThread = commit_thread
  Call <- Calls
  MayAsk <- PutAnyGet
  None = None
  ReturnCodes = {0, 1}
  MaxElections = 2
INVARIANTS RegisteredFirst AppliedIsRequested ReadAfterAck
PROPERTIES EveryRequestAnswered
CHECK_DEADLOCK FALSE
