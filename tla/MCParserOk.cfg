SPECIFICATION Spec
CONSTANTS
  Letters = {"m", "r"}
  Others = {"?"}
  KnownMnemonics <- Mnemonics
  SizeBits = 8
  Texts <- Operands
  MaxInstructions = 2
  MaxLabels = 2
  MaxDiagnostics = 1
CHECK_DEADLOCK FALSE
INVARIANT OkMeansNoError
