SPECIFICATION Spec
CONSTANTS
  Programs <- MCPrograms
  Null = Null
INVARIANTS
  TypeOK
  ReferencesSeeWhatPrecedes
  UnknownComesFromForwardReferences
  TypesFitTogether
  ReturnsFitTheSlot
