SPECIFICATION BenchSpec
CONSTANTS
  Nil = Nil
  Infinite = Infinite
  Trimmed <- MCTrimmed
  Upper <- MCTrimmed
  Lower <- MCTrimmed
  Recording <- MCRecording
  Flags <- MCFlags
  ShardCount = 2
  MaxTargets = 9
INVARIANTS EachEventOnce DriverTimesRise
CHECK_DEADLOCK FALSE
