SPECIFICATION Spec
CONSTANTS
  ByteBits = 3
  SizeMax = 64
  WordSize = 4
  Sizes = {7, 9}
  MaxLen = 10
  MapBytes = 3
  MemSize = 12
  MaxCopy = 11
  IntMod = 4096
  LongMod = 8192
  LogBits = 3
INVARIANTS MemoryRight TimeRight FormatRight DivisionRight
CHECK_DEADLOCK FALSE
