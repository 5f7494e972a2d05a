SPECIFICATION MCSpec
CONSTANTS
  Inputs <- MCInputs
  ShortSize = 3
  SentenceSize = 4
  ListSize = 2
  PairSize = 3
  DeepSize = 4
  LongSize = 5
  Sample <- Expected
INVARIANTS
  TypeOK
  TreeIsTheGrammars
  VerdictFollowsGrammar
  LeavesInTextOrder
