SPECIFICATION FairSpec
CONSTANTS
  Programs <- MCPrograms
  Null = Null
  BodySize = 3
  SmallBody = 2
INVARIANTS
  TypeOK
  CallsInLevelOrder
  ScopeIsInnermost
  BindingFollowsLevels
  VerdictIsExact
PROPERTIES
  PassesEnd
