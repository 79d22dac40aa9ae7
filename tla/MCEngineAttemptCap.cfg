CONSTANTS
  Null = Null
  Calls = 1
  Hard = 4
  Search = 2
  Grace = 1
  Pause = 1
SPECIFICATION AttemptSpec
CHECK_DEADLOCK FALSE
INVARIANTS HardCap
