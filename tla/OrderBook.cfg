CONSTANTS
  b1 = b1  b2 = b2
  NoId = NoId
  Books = {b1, b2}
  Prices = {1, 2}
  Quantities = {1}
  MaxUpdates = 3
SYMMETRY BookSymmetry
SPECIFICATION Spec
INVARIANTS TypeOK SyncedIsExact IInv
PROPERTIES OnlySnapshotsRewind
CHECK_DEADLOCK FALSE
