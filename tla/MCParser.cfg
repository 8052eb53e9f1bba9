SPECIFICATION FairSpec
CONSTANTS
  Letters = {"m", "r"}
  Others = {"?"}
  KnownMnemonics <- Mnemonics
  SizeBits = 8
  Texts <- SomeTexts
  MaxInstructions = 2
  MaxLabels = 2
  MaxDiagnostics = 2
CHECK_DEADLOCK FALSE
INVARIANTS ParserTypeOK TokensTile PlacesTrue LabelsPointForward OneInstructionPerLine NothingLost
PROPERTY ParseReturns
