SPECIFICATION FairSpec
CONSTANTS
  Callers = {c1, c2}
  Owner = owner
  Flusher = sl_flusher
  NoThread = nobody
  Torn = torn
  NumElems = 2
  FileLimit = 1
  MaxLogFiles = 1
  MaxLines = 3
  MaxStarts = 2
  MaxFaults = 1
INVARIANTS LoggerTypeOK WholeLinesOnce WrittenIsKept PackedIsFinal NoneForgotten StoppedIsFlushed
PROPERTIES DroppedOnlyIfLapped PutReturns StopEnds
CHECK_DEADLOCK FALSE
