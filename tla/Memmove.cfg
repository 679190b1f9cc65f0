CONSTANTS
  Base = 168
  Sizes32 = {0, 1, 11, 12, 13, 18, 20, 23, 27, 67, 71, 79, 131}
  Gaps32 = {0, 1, 3, 4, 6, 11, 64}
  Sizes64 = {0, 23, 24, 25, 31, 33, 39, 47, 128, 135, 143, 150}
  Gaps64 = {1, 7, 8, 9, 20, 128}
  Calls <- MCCalls
SPECIFICATION Spec
INVARIANTS CopiesExactly LoadsNearSource
PROPERTIES ImplementsRegionWrite Terminates
