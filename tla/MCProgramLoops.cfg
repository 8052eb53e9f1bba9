SPECIFICATION Spec
CONSTANTS
  None = None
  Trap = Trap
  Width = 3
  VarNames = {"x"}
  InitValues <- InitialValues
  Expressions <- SomeExpressions
  Conditions <- SomeConditions
  Callees = {"leaf"}
  MaxVariables = 1
  MaxCalls = 2
  MaxNesting = 2
  MaxSize = 6
  OtherFunctions <- Library
  RegValue <- AllValues
  PassLists <- AllLevels
  MaxCallDepth = 2
  MaxBuilds = 2
  MaxOptimizations = 1
  MaxEdits = 1
  MaxStatements = 12
  MaxSteps = 150
CHECK_DEADLOCK FALSE
INVARIANT BackEdgeIsLoop
