CONSTANTS
  Null = Null
  t1 = t1
  t2 = t2
  t3 = t3
  t4 = t4
  s1 = s1
  s2 = s2
  Token <- MCToken
  EngineCode <- MCCode
  Winner <- MCWinner
  LeaseTicks = 2
  MaxAttempts = 2
  TaskId <- MCTaskId
  Session <- MCSession
  Outcome <- MCOutcome
  MaxStamp = 1
SPECIFICATION QueueSpec
SYMMETRY Symmetry
INVARIANTS ConstraintsHold RowLocks NoLostUpdate AttemptBudget
PROPERTIES FinalIsForever LeaseIsExclusive StaleForever TasksWearOut LifecycleSpec
