SPECIFICATION Spec
CONSTANTS
  None = None
  Trap = Trap
  Width = 2
  VarNames = {"x"}
  InitValues <- InitialValues
  Expressions <- Sums
  Conditions <- SomeConditions
  Callees = {"leaf"}
  MaxVariables = 1
  MaxCalls = 2
  MaxNesting = 2
  MaxSize = 6
  OtherFunctions <- Library
  RegValue <- AllValues
  MaxCallDepth = 2
  MaxStatements = 12
CHECK_DEADLOCK FALSE
INVARIANT SlotWrittenBeforeRead
