CONSTANTS
  HEAP_START = 3
  HEAP_SIZE = 11
  SizeofWasmMemory = 3
  FunctionTableBufSize = 3
  EntrySize = 2
  TableEntries = {1}
  PageSize = 4
  InitialPages = {0, 1, 2}
  MaxPages = 2
  Byte = {0, 1}
  Host = Host
  MaxFill = 4
SPECIFICATION Spec
INVARIANT FillTakesEffect
