CONSTANTS
  Files <- MCFiles
  Root = "main"
  Names <- MCNames
  Programs <- MCPrograms
  Depth = 4
SPECIFICATION Spec
INVARIANTS TypeOK ErrorsShown NoDirectErrors CalleesFound WrongOnlyIfRepeated OverflowsInCycle
 
CHECK_DEADLOCK FALSE
