SPECIFICATION Spec
CONSTANTS
  Nil = Nil
  Driver = {d1, d2}
  WindowDuration = 2
  MinSamples = 1
  MinDrivers = 1
  Observation <- MCObservation
  Time = {4, 6}
  KnownSpeed = {10}
  MaxTaken = 3
  MinTime = 3
  MaxTime = 5
  AnyKind = d1
INVARIANTS TrafficTypeOK DriverOrder SamplesOnce SamplesInTheirWindow OnlyZeroWindowPends
PROPERTIES ImplementsLedger EventuallyReported
