SPECIFICATION Spec
CONSTANTS
  ByteMod = 16
  HexBase = 4
  LongMax = 2147483647
  memory_size = 14
  StackTop = 12
  Files <- MCFiles
  Decode <- MCDecode
  Options <- MCOptions
INVARIANTS LoadsWhatFileSays TraceExplainsMemory DumpIsMachine
PROPERTY EndsDumped
