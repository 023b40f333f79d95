CONSTANTS
  Forever = Forever
  MaxAttempts = 1
  BaseDelay = 1
  MaxDelay = 2
  Stable = 4
  ConnectTimeout = 1
  IdleTimeout = 4
  PingInterval = 2
  SubscribeTime = 1
  Capacity = 1
  MaxBatch = 2
  MaxSignals = 2
  CycleBudgets = {1, Forever}
  RefreshDelay = 2
SPECIFICATION SupervisedFairSpec
INVARIANTS SupervisedTypeOK StopsOnlyWhenAsked
PROPERTIES NoRefreshAfterShutdown SupervisorShutsDown StaleTokenIsRenewed
CHECK_DEADLOCK FALSE
