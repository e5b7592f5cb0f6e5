CONSTANTS
  Functions = {"f", "g"}
  First = "f"
  Names = {"x", "y"}
  MaxLen = 4
  Programs <- MCPrograms
SPECIFICATION Spec
INVARIANTS TypeOK MeaningKept CrashExplained FailsOnlyUndeclared
CHECK_DEADLOCK FALSE
