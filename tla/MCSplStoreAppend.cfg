CONSTANTS
  Entry = {e1, e2}
  Dummy = Dummy
  Null = Null
  Calls = {"append", "write_at"}
  MaxIndex = 7
  MaxPack = 2
CHECK_DEADLOCK FALSE
SPECIFICATION SplSpec
INVARIANTS LastEntryIsNewest
