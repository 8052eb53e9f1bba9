SPECIFICATION Spec
CONSTANTS
  None = None
  Trap = Trap
  Width = 2
  VarNames = {x, y}
  InitValues <- InitialValues
  Expressions <- SumsOrQuotients
  Conditions <- SomeConditions
  Callees = {"leaf"}
  MaxVariables = 2
  MaxCalls = 4
  MaxNesting = 2
  MaxSize = 6
  OtherFunctions <- Library
  RegValue <- AllValues
  MaxCallDepth = 2
  MaxStatements = 12
SYMMETRY NameSymmetry
CHECK_DEADLOCK FALSE
INVARIANTS LoweringTypeOK LoweredTargetsExist NoFallThrough VariablesHaveNoConstant MeaningPreserved LoweredKeepsPace
