SPECIFICATION ServiceSpec
CONSTANTS
  Nil = Nil
  NoDriver = nobody
  Driver = {d1}
  MaxReq = 4
  Quota <- MCQuota
  Starts <- MCStarts
  Clients = {"serial", "concurrent"}
  Event <- MCEvent
  Config <- MCConfig
  Answer <- MCAnswer
  Time = {3, 6}
  Odd = TRUE
  MinTime = 3
  MaxTime = 5
  TwoPoint = TRUE
  LongOverlap = TRUE
  Default = FALSE
  WindowDuration = 2
  MinSamples = 1
  MinDrivers = 1
INVARIANTS CountedInOrder FlushMeansNoted NotedBehindBuffer SerialNeverOlder ReportedNoMoreThanSent
PROPERTIES EveryRequestEnds StopsInTime
CHECK_DEADLOCK FALSE
