CONSTANTS
  MaxBlocks = 7
  MaxExprs = 5
SPECIFICATION ExecSpec
INVARIANT FunctionVerifies
CHECK_DEADLOCK FALSE
