CONSTANTS
  TIME_OFFSET = 300
  PSEUDOCLOCK_INCREMENTS = 20
  Int64Max = 1023
  Mantissa = 128
  Spacings = {1, 2, 4, 8, 16, 32, 64, 128, 256}
  Sleeps = {1, 20, 50, 75}
  Horizon = 990
  MaxFd = 5
SPECIFICATION Spec
INVARIANT NothingMadeUp
PROPERTIES Monotonic OnTime SleeperWakes GetsThrough
