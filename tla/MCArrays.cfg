SPECIFICATION Spec
CONSTANTS
  Programs <- MCArrays
  Null = Null
INVARIANT ElementsAgree
