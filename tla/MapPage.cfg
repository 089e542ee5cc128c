SPECIFICATION Spec
CONSTANTS
  Distance <- MCDistance
  Served <- MCServed
  DemoLimit = 2
  MaxStates = 2
  MaxPicks = 4
  MaxDemos = 2
INVARIANTS OneDemoPainted NewestLoadWins PatientViewIsAsPicked
PROPERTY ButtonComesBack
CHECK_DEADLOCK FALSE
