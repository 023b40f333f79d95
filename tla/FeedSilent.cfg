CONSTANTS
  Forever = Forever
  MaxAttempts = Forever
  BaseDelay = 1
  MaxDelay = 3
  Stable = 4
  ConnectTimeout = 1
  IdleTimeout = 4
  PingInterval = 2
  SubscribeTime = 1
  Capacity = 1
  MaxBatch = 2
  MaxSignals = 2
SPECIFICATION FairSpec
PROPERTIES OnlySuccessResets
CHECK_DEADLOCK FALSE
