CONSTANTS
  Byte <- MCByte
  LF = 3
  CR = 13
  strlen_max = 6
  IOVECS_SIZE = 2
  Line <- MCLine
  Size = 6
  Memories <- MCMemories
  Counts = {0, 1, 2, 3}
  Inputs <- MCInputs
  Capacity = 2
  CountAt = 4
  RamTop = 5
  Digits = 2
  Hex <- MCHex
  Prefix <- MCPrefix
  BYTE = 4
  WORD = 2
  Vals = {0, 4, 5}
  Prints = 4
  Files <- MCFiles
  test789 <- MCtest789
SPECIFICATION Spec
INVARIANTS CallsTypeOK AllOrNothing ReadsLine PrintkTells InputTold
PROPERTIES ImplementsChannel CallReturns
