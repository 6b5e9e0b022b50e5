SPECIFICATION Spec
CONSTANTS
  VehicleRates = {1, 5}
  c1 = c1
  Callers = {c1}
  RpcRates = {20}
  InitialRate = 5
  Attempts = 2
  MaxFaults = 1
  MaxSets = 2
INVARIANT NoPanic
CHECK_DEADLOCK FALSE
