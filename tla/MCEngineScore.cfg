CONSTANTS
  Null = Null
  Token <- MCToken
  EngineCode <- MCCode
  Winner <- MCWinner
  LeaseTicks = 1
  MaxAttempts = 2
  MaxScore = 2
  MaxMate = 2
  MissingScore = "ENGINE_SCORE_MISSING"
  EngineTimeout = "ENGINE_TIMEOUT"
SPECIFICATION ScoreSpec
CHECK_DEADLOCK FALSE
INVARIANTS TrueAnswer FailureHasCause
