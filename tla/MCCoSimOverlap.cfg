SPECIFICATION CoSpec
CONSTANTS
  WordMod = 32
  MemSize = 8
  PpAddr = 16
  DivSteps = 3
  MaxResets = 2
  Reg <- MCReg
  Decode <- MCDecode
  Alu <- MCAlu
  Taken <- MCTaken
  Mag <- MCMag
  DivOut <- MCDivOut
  InitRegs <- MCRegs
  InitProg <- OverlapLoops
  ResetProg <- OverlapLoops
INVARIANT ReportsNoDifference
