CONSTANTS
  r1 = r1  r2 = r2
  o1 = o1  o2 = o2
  NoRequest = NoRequest
  Requests = {r1, r2}
  Oids = {o1}
  OidOf <- ReusedOid
  QueueCapacity = 1
SPECIFICATION Spec
INVARIANTS TypeOK RefusedIsNeverPlaced WaiterIsReachable FinishedLeavesNoEntry IInv
PROPERTIES ImplementsOrderEntry
CHECK_DEADLOCK FALSE
