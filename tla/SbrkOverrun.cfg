CONSTANTS
  HEAP_START = 1
  HeapLen = 5
  StackLen = 3
  MaxIncr = 3
SPECIFICATION HeapSpec
INVARIANTS HeapBelowStack
