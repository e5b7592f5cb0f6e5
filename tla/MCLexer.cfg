CONSTANTS
  MaxLen = 4
  Texts <- MCTexts
  Lookahead = 1
  MaxTokens = 3
SPECIFICATION Spec
INVARIANTS TypeOK Scan StreamInOrder PeekForetells UnexpectedReportedOnce
PROPERTIES CallsReturn StreamSpec
