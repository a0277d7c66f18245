CONSTANTS
  Server = {s1, s2}
  First = s1
  None = None
  Retries = 1
  MaxRestarts = 0
  MaxCrashes = 0
  MaxElections = 0
  Written = {s1, s2}
  MaxWrites = 1
CHECK_DEADLOCK FALSE
SPECIFICATION Spec
INVARIANTS SeededIsNotAlone
