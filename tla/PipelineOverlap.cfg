SPECIFICATION Spec
CONSTANTS
  Nil = Nil
  NoDriver = nobody
  Driver = {d1}
  MaxReq = 4
  Clients = {"serial"}
  Event <- MCEvent
  Config <- MCConfig
  Answer <- MCAnswer
  Time = {3, 7}
  Odd = FALSE
  MinTime = 3
  MaxTime = 6
  TwoPoint = FALSE
  LongOverlap = FALSE
  Default = TRUE
  WindowDuration = 2
  MinSamples = 1
  MinDrivers = 1
INVARIANT DuplicatesIgnored
CHECK_DEADLOCK FALSE
