CONSTANTS
  Infixes = {"EQ", "ADD_EQ", "DEQ", "ADD", "SUB", "MUL"}
  MaxOne = 6
  MaxLine = 4
  MaxText = 6
  Texts <- MCTexts
SPECIFICATION Spec
INVARIANTS TypeOK LinesApart MeantAsWritten SpansWithin
CHECK_DEADLOCK FALSE
