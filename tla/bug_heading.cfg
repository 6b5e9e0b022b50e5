SPECIFICATION Spec
CONSTANTS
  Enough = 1
  Warmup = 2
  Window = 3
  MaxFits = 1
  MaxResets = 0
  MaxFaults = 0
  MaxCrashes = 0
PROPERTY HeadingFailsClosed
