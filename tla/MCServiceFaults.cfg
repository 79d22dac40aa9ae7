CONSTANTS
  Null = Null
  k1 = k1
  k2 = k2
  k3 = k3
  k4 = k4
  w1 = w1
  w2 = w2
  Token <- TwoTokens
  Worker <- TwoWorkers
  TaskId <- OneTask
  Session <- MCSession
  Winner <- MCWinner
  EngineCode <- MCCode
  Outcome <- ZeroAndMate
  LeaseTicks = 2
  MaxAttempts = 2
  MaxStamp = 0
  MaxFaults = 2
SPECIFICATION ServiceSpec
SYMMETRY TwoTokenSymmetry
INVARIANTS SnapshotAgrees OneEvaluationPerAttempt AcceptedIsDurable HonestAnswer
PROPERTIES NoClaimWhileBlocked ServiceUsesQueue
