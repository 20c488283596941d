SPECIFICATION FairSpec
CONSTANTS
  WordMod = 32
  MemSize = 8
  SpBase = 16
  SpSize = 4
  DivSteps = 3
  MinReset = 2
  MaxResets = 1
  Reg <- MCReg
  Decode <- MCDecode
  Alu <- MCAlu
  Taken <- MCTaken
  Mag <- MCMag
  DivOut <- MCDivOut
  InitRegs <- MCRegs
  InitProg <- AllLoops
INVARIANTS AcknowledgedIsCurrent
PROPERTIES FollowsIsa KeepsRetiring
