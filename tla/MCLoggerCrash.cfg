SPECIFICATION FairCrashSpec
CONSTANTS
  Callers = {c1, c2}
  Owner = owner
  Flusher = sl_flusher
  NoThread = nobody
  Torn = torn
  NumElems = 1
  FileLimit = 10
  MaxLogFiles = 1
  MaxLines = 2
  MaxStarts = 1
  MaxFaults = 0
  AbortRounds = 1
INVARIANTS WholeLinesOnce SafeMeansFlushed
PROPERTIES CrashEnds
CHECK_DEADLOCK FALSE
