SPECIFICATION FairSpec
CONSTANTS
  Sources <- MCSources
  Beyond <- MCBeyond
  AnySize = 4
  WordSize = 4
INVARIANTS
  TypeOK
  TokensAreLongestLexemes
  PositionsAreOnTheToken
  ReadsStayInBounds
  ExcerptsShowTheToken
PROPERTIES
  ClosedTextsEnd
