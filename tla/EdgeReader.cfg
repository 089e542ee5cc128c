SPECIFICATION Spec
CONSTANTS
  Nil = Nil
  NoFeature = NoFeature
  GraphVersion = "v1"
  TwoTo63 = 8
  OutOfRange <- MCOutOfRange
  Collections <- MCCollections
  Setup <- MCSetup
  Job <- MCJob
  MaxRuns = 2
  PageSize = 2
  Limit = 3
  Target = 9
INVARIANTS EachFeatureOnce NothingLeftOut StopsAtItsLimit OneFeaturePerKey SuccessStoredAll
PROPERTY ReadEnds
CHECK_DEADLOCK FALSE
