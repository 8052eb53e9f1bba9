SPECIFICATION Spec
CONSTANTS
  None = None
  Trap = Trap
  Width = 3
  Module <- Divides
  MaxSteps = 4
  MaxCallDepth = 2
  MaxHistory = 6
  MaxTrace = 6
  RegValue <- AllValues
  BinaryOutcomes <- ApplyBinaryOp
  UnaryResult <- ApplyUnaryOp
  CompareResult <- ApplyComparison
  IsDivisionByZero <- DividesByZero
  IsTrue <- Truth
CHECK_DEADLOCK FALSE
INVARIANT DivisorIsEnsured
