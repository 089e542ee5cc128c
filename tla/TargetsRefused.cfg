SPECIFICATION BenchSpec
CONSTANTS
  Nil = Nil
  Infinite = Infinite
  Trimmed <- MCTrimmed
  Upper <- MCTrimmed
  Lower <- MCTrimmed
  Recording <- MCRecording
  Flags <- MCFlags
  ShardCount = 2
  MaxTargets = 9
INVARIANT TargetsDecode
CHECK_DEADLOCK FALSE
