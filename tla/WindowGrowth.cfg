SPECIFICATION GrowthSpec
CONSTANTS
  Nil = Nil
  MinSamples = 2
  MinDrivers = 1
  Sampler = {d1, d2}
  Speed = {0, 5, 8}
  RefSpeed = {6, 10}
  MaxLength = 6
INVARIANTS MedianIsMiddle
PROPERTIES EvidenceNeverShrinks SampleMovesLevelItsWay
CHECK_DEADLOCK FALSE
