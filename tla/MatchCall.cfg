SPECIFICATION Spec
CONSTANTS
  Nil = Nil
  Infinite = Infinite
  Trimmed <- MCTrimmed
  Upper <- MCUpper
  Lower <- MCLower
  Name = {"d1", "d2"}
  Call <- MCCall
INVARIANTS AnswerMeetsItsPoint RecordedWhenTaken ObservationsFit
CHECK_DEADLOCK FALSE
