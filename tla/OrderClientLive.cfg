CONSTANTS
  r1 = r1  r2 = r2
  o1 = o1  o2 = o2
  NoRequest = NoRequest
  Requests = {r1, r2}
  Oids = {o1, o2}
  OidOf <- FreshOids2
  QueueCapacity = 1
SPECIFICATION FairSpec
INVARIANTS AckIsForThisOrder 
PROPERTIES EveryCallResolves CloseReleasesWaiters CloseStopsReader
CHECK_DEADLOCK FALSE
