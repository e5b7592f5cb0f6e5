CONSTANTS
  Files <- MCFiles
  Root = "main"
  Names <- MCNames
  Programs <- MCImports
  Depth = 4
SPECIFICATION Spec
INVARIANTS IncludedErrorsCount
CHECK_DEADLOCK FALSE
