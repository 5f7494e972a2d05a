SPECIFICATION LifeSpec
CONSTANTS
  Programs <- MCJumpPrograms
  Null = Null
  BodySize = 1
  DeepSize = 1
INVARIANT
  WellFormed
