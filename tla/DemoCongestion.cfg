SPECIFICATION Spec
CONSTANTS
  Nil = Nil
  WindowDuration = 3
  MinSamples = 1
  MinDrivers = 1
  Driver = {1, 2}
  TracePoints = 4
  TraceStep = 2
  MaxTraces = 2
  PointsPerDriver = 6
  File <- MCFile
  Request <- MCRequest
  Answer <- MCAnswer
INVARIANTS AnswerIsExact BudgetSpentInOrder
CHECK_DEADLOCK FALSE
