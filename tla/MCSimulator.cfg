SPECIFICATION FairSpec
CONSTANTS
  None = None
  Trap = Trap
  Width = 3
  Module <- Everything
  MaxSteps = 6
  MaxCallDepth = 2
  MaxHistory = 7
  MaxTrace = 7
  RegValue <- AllValues
  BinaryOutcomes <- ApplyBinaryOp
  UnaryResult <- ApplyUnaryOp
  CompareResult <- ApplyComparison
  IsDivisionByZero <- DividesByZero
  IsTrue <- Truth
CHECK_DEADLOCK FALSE
INVARIANTS TypeOK RunAccounting HistoryIsExecution CallsMatchFrames CallDepthBounded RunIsFresh ResumableWhenNotDone
PROPERTIES RunReturns ImplementsTimeTravel
