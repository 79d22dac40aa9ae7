CONSTANTS
  Null = Null
  w1 = w1
  w2 = w2
  t1 = t1
  t2 = t2
  Token <- MCWorker
  Task <- MCTask
  Setting <- MCSetting
  Installed <- MCInstalled
  EngineCode <- MCCode
  Winner <- MCWinner
  ConfigInvalid = "ENGINE_CONFIG_INVALID"
  LeaseTicks = 1
  MaxAttempts = 2
  Overrun = 1
  Restarts = 3
SPECIFICATION FairDeployment
CHECK_DEADLOCK FALSE
INVARIANTS PromptKeepsLease ExpiryHasCause InvalidIsForeign
PROPERTIES EveryTaskSettles DeploymentLifecycle
