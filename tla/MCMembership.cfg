CONSTANTS
  Server = {s1, s2, s3}
  First = s1
  None = None
  Retries = 1
  MaxRestarts = 1
  MaxCrashes = 1
  MaxElections = 1
  Written = {s2}
  MaxWrites = 1
CHECK_DEADLOCK FALSE
SPECIFICATION FairSpec
INVARIANTS MembershipTypeOK AckedIsKept OnlyOwnRemains SeededServesOnce
PROPERTIES StartEnds JoinCompletes
