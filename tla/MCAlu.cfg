SPECIFICATION FairSpec
CONSTANTS
  W = 4
  ImmBits = 3
  Pow <- MCPow
  BitXor <- MCXor
  BitOr <- MCOr
  BitAnd <- MCAnd
  First <- All
  Follow <- Some
INVARIANTS DivTypeOK DividesCorrectly ComputesAsSimulator
PROPERTY AlwaysDone
