CONSTANTS
  Alphabet = {"IDENT", "SEMICOLON"}
  MaxLen = 2
  Inputs <- MCUnclosed
SPECIFICATION DiagnosisSpec
PROPERTIES BraceExpected
CHECK_DEADLOCK FALSE
