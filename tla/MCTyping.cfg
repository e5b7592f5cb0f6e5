CONSTANTS
  Structs = {"Point", "Line", "Empty"}
  FieldOf <- MCFieldOf
  VarTypes <- MCVarTypes
  Signatures <- MCSignatures
  MaxNodes = 5
SPECIFICATION Spec
INVARIANTS TypeOK ModeFollowsStack VisitorsAgree WellTypedUnlessFlawed
CHECK_DEADLOCK FALSE
