SPECIFICATION Spec
CONSTANTS
  Enough = 1
  Warmup = 2
  Window = 3
  MaxFits = 2
  MaxResets = 0
  MaxFaults = 1
  MaxCrashes = 0
PROPERTY PreviousSurvives
