SPECIFICATION FairLifeSpec
CONSTANTS
  Programs <- MCPrograms
  Null = Null
  BodySize = 3
  DeepSize = 4
INVARIANTS
  TypeOK
  CallsInPostOrder
  JumpsBindInnermost
  StrayJumpsAreReported
  WellFormedExactlyWhen
  TargetsAreInserted
  NothingIsLost
  DeletesInPostOrder
  NoPointerDangles
PROPERTIES
  GenerationEnds
  TreeIsDeleted
