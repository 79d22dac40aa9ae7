CONSTANTS
  Null = Null
  k1 = k1
  k2 = k2
  k3 = k3
  k4 = k4
  w1 = w1
  w2 = w2
  Token <- FourTokens
  Worker <- TwoWorkers
  TaskId <- TwoTasks
  Session <- MCSession
  Winner <- MCWinner
  EngineCode <- MCCode
  Outcome <- ZeroOnly
  LeaseTicks = 1
  MaxAttempts = 2
  MaxStamp = 0
  MaxFaults = 1
SPECIFICATION ServiceSpec
SYMMETRY FourTokenSymmetry
INVARIANTS OneWorkerPerAttempt HonestAnswer
