CONSTANTS
  c1 = c1
  c2 = c2
  Calls = {c1, c2}
  ClientTypes = {"kucoin", "bybit", "binance", "listenkey", "public"}
  Retries = 2
  MaxHits = 1
  MaxClock = 1
  MaxRestarts = 0
  None = None
SPECIFICATION FairSpec
INVARIANTS RestTypeOK KeyedActsOnce OncePerAttempt
PROPERTY EveryCallReturns
CHECK_DEADLOCK FALSE
