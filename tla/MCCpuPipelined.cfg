SPECIFICATION FairSpec
CONSTANTS
  WordMod = 32
  MemSize = 8
  PpAddr = 16
  DivSteps = 3
  MaxResets = 1
  Reg <- MCReg
  Decode <- MCDecode
  Alu <- MCAlu
  Taken <- MCTaken
  Mag <- MCMag
  DivOut <- MCDivOut
  InitRegs <- MCRegs
  InitProg <- AllLoops
  ResetProg <- ShortLoops
INVARIANTS TypeOK RedirectTaken WritebackNeverBlocks OperandsCurrent InOrder
PROPERTIES FollowsIsa KeepsRetiring
