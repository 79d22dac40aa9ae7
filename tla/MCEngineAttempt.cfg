CONSTANTS
  Null = Null
  Calls = 3
  Hard = 4
  Search = 2
  Grace = 1
  Pause = 1
SPECIFICATION FairAttempts
CHECK_DEADLOCK FALSE
INVARIANTS AnsweredIsClosed LateEnginesAreIdle AtMostTwoEngines PromptScoresCount
PROPERTIES KeepsPromise EveryCallReturns EveryEngineEnds
