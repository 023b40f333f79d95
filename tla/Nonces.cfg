CONSTANTS
  c1 = c1
  c2 = c2
  Calls = {c1, c2}
  ClientTypes = {"kraken", "cryptocom"}
  Retries = 2
  MaxHits = 0
  MaxClock = 2
  MaxRestarts = 1
  None = None
SPECIFICATION Spec
SYMMETRY CallSymmetry
INVARIANTS NoncesUnique OnlyOthersOvertake
CHECK_DEADLOCK FALSE
