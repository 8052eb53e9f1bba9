SPECIFICATION FairTSpec
CONSTANTS
  None = None
  Trap = Trap
  Width = 3
  Programs <- AllPrograms
  PassLists <- Levels
  MaxRuns = 2
  RegValue <- AllValues
  FoldBinary <- FoldBinaryInt
  FoldUnary1 <- FoldUnary
  IsInt <- IsInt64
  IsTrue <- Truth
  MaxCallDepth = 2
  MaxSteps = 30
CHECK_DEADLOCK FALSE
INVARIANTS TypeOK ConstantsSound BranchTargetsExist EntryKept BlockIndexFresh SecondRunIsIdle OptimizedRunAgrees
PROPERTIES EveryChangeShrinks OptimizerReturns
