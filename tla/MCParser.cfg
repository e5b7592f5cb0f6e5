CONSTANTS
  Alphabet = {"IDENT", "INT", "OPEN_PAREN", "CLOSE_PAREN", "ADD_EQ", "MUL", "SEMICOLON"}
  MaxLen = 4
  Inputs <- MCInputs
SPECIFICATION DiagnosisSpec
INVARIANTS TypeOK NullsExplained Diagnosed
PROPERTIES EndsOrReports
CHECK_DEADLOCK FALSE
