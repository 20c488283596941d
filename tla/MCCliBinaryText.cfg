SPECIFICATION Spec
CONSTANTS
  ByteMod = 16
  HexBase = 4
  LongMax = 2147483647
  memory_size = 14
  StackTop = 12
  Files <- MCBinaryText
  Decode <- MCDecode
  Options <- MCDefaults
INVARIANT LoadsBinaryText
