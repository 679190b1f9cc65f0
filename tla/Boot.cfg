CONSTANTS
  Step = 8
  RamSize = 40
  Align = 16
SPECIFICATION Spec
INVARIANT OthersKept
PROPERTY ImplementsRegionWrite
