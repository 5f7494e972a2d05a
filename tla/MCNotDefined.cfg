SPECIFICATION Spec
CONSTANTS
  Programs <- MCForLoops
  Null = Null
  BodySize = 2
  SmallBody = 1
INVARIANT
  NotDefinedIsTrue
