SPECIFICATION ExecSpec
CONSTANTS
  Programs <- MCPrograms
  Null = Null
  BodySize = 4
PROPERTIES
  ImplementsSource
