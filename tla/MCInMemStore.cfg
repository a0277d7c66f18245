CONSTANTS
  Entry = {e1, e2}
  Dummy = Dummy
  Workloads <- ReadingAndDisk
  MaxIndex = 3
  MaxPack = 2
  MaxTime = 4
CHECK_DEADLOCK FALSE
SPECIFICATION FairLogSpec
INVARIANTS Contiguous CommittedReads LastEntryWasLast LastWriteTracked
PROPERTIES ImplementsContract DurableCatchesUp
