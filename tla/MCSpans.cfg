CONSTANTS
  MaxLen = 5
  MaxMessages = 2
  Texts <- MCTexts
SPECIFICATION Spec
INVARIANTS TypeOK CaretBelowSpan ThrowsExactlyIf
PROPERTIES Terminates
CHECK_DEADLOCK FALSE
