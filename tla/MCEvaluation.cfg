SPECIFICATION EvalSpec
CONSTANTS
  Programs <- MCPrograms
  Null = Null
  Width = 3
  Inputs <- MCInputs
INVARIANTS
  EvalTypeOK
  TypedTreesGenerate
  EvaluationCounts
  AgreesWithSource
  ValuesHaveTheirTypes
  LiteralIndicesInRange
