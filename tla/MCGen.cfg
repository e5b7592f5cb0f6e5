CONSTANTS
  MaxBlocks = 10
  MaxExprs = 5
SPECIFICATION ExecSpec
INVARIANTS
  TypeOK
  OwnedApart
  OthersClosed
  BuriedIffMisshapen
  VerifiesUnlessFlawed
  RunsAsWritten
CHECK_DEADLOCK FALSE
