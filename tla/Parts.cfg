CONSTANTS
  b1 = b1
  NoId = NoId
  s1 = s1
  s2 = s2
  None = None
  Books = {b1}
  Prices = {1}
  Quantities = {1, 2}
  MaxUpdates = 3
  MaxSessions = 2
  MaxWire = 2
  Streams = {"binance_diff", "binance_depth20", "bybit", "okx", "cryptocom_delta", "cryptocom", "kraken", "coinbase", "kucoin_level2", "kucoin_depth"}
  Accounts = {"binance", "kraken", "bybit", "cryptocom", "kucoin"}
  Size = 3
  MaxJoins = 2
  Tapes = {"binance", "bybit", "okx", "coinbase", "kraken", "cryptocom", "kucoin"}
  Quotes <- MCQuotes
  Closes = {1, 2}
  MaxTrades = 1
  MaxBars = 2
  MaxTapeWire = 2
  MaxMsgs = 3
  WindowDur = 5
  MaxInstant = 14
  Syncs = {s1, s2}
  Tries = 2
  MaxLimits = 1
  Timeout = 1
  Backoff = 1
  Reset = 1
  InitialSkew = 3
  Step = 4
  MaxSteps = 1
  Granularity = 2
  History = 6
  MaxTotal = 5
  MaxPage = 3
SPECIFICATION MCSpec
SYMMETRY SyncSymmetry
INVARIANTS LosslessBookIsExact ExecutionsCountedOnce  TapeIsVenues QuotaKept
INVARIANTS OffsetErrorBounded LosesOneCandlePerBoundary
PROPERTY ImplementsOrderBook
CHECK_DEADLOCK FALSE
