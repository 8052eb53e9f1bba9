SPECIFICATION Spec
CONSTANTS
  None = None
  Trap = Trap
  Width = 3
  Module <- Assigns
  MaxSteps = 6
  MaxCallDepth = 2
  MaxHistory = 7
  MaxTrace = 7
  RegValue <- AllValues
  BinaryOutcomes <- ApplyBinaryOp
  UnaryResult <- ApplyUnaryOp
  CompareResult <- ApplyComparison
  IsDivisionByZero <- DividesByZero
  IsTrue <- Truth
PROPERTY CallOutputIsReturnValue
