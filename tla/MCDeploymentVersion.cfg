CONSTANTS
  Null = Null
  w1 = w1
  w2 = w2
  t1 = t1
  t2 = t2
  Token <- MCWorker
  Task <- MCTask
  Setting <- MCUpgrade
  Installed <- MCInstalled
  EngineCode <- MCCode
  Winner <- MCWinner
  ConfigInvalid = "ENGINE_CONFIG_INVALID"
  LeaseTicks = 1
  MaxAttempts = 2
  Overrun = 1
  Restarts = 3
SPECIFICATION DeploymentSpec
SYMMETRY Symmetry
CHECK_DEADLOCK FALSE
INVARIANT VersionIsOfEngine
