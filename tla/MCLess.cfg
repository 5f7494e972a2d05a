SPECIFICATION MCSpec
CONSTANTS
  Inputs <- MCInputs
  ShortSize = 1
  SentenceSize = 1
  ListSize = 1
  PairSize = 1
  DeepSize = 1
  LongSize = 1
  Sample <- LessOrEqual
INVARIANTS
  LeMakesLe
