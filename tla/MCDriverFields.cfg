CONSTANTS
  Files <- MCFiles
  Root = "main"
  Names <- MCNames
  Programs <- MCDiamond
  Depth = 4
SPECIFICATION Spec
INVARIANTS FieldsFound
CHECK_DEADLOCK FALSE
