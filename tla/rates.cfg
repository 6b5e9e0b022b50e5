SPECIFICATION FairSpec
CONSTANTS
  VehicleRates = {5}
  c1 = c1
  c2 = c2
  Callers = {c1, c2}
  RpcRates = {20}
  InitialRate = 0
  Attempts = 2
  MaxFaults = 2
  MaxSets = 3
INVARIANTS TypeOK NoLostWakeup LastWordHeard StreamStops SensorsHeld
PROPERTIES RateTakesEffect ComesUp
CHECK_DEADLOCK FALSE
