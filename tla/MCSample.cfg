SPECIFICATION Spec
CONSTANTS
  Programs <- MCSample
  Null = Null
INVARIANT NotFunctionIsTrue
