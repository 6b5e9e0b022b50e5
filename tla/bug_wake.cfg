SPECIFICATION Spec
CONSTANTS
  MaxMotions = 1
  MaxMissed = 0
  MaxRequests = 1
  MaxFaults = 1
  MaxCrashes = 1
INVARIANT WakeNotForgotten
CHECK_DEADLOCK FALSE
