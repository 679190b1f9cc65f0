CONSTANTS
  Builds = {4, 8}
  Words = {0, 1, 2, 3, 31, 32, 33, 63, 64, 65}
  AddrBound = 544
SPECIFICATION Spec
INVARIANT WordStoresAligned
PROPERTIES ImplementsRegionWrite Terminates
