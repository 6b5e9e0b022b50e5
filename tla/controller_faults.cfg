SPECIFICATION Spec
CONSTANTS
  AlarmStatuses = {"armed", "level-1-triggered", "level-2-triggered"}
  PmStates = {"hibernating"}
  c1 = c1
  Callers = {c1}
  Methods = {"soft-reset", "clear-latch"}
  NoOne = NoOne
  Serial = TRUE
  HasWatcher = TRUE
  MaxFaults = 1
  MaxCrashes = 1
INVARIANTS TypeOK MutualExclusion GateClosed GateTellsTruth
PROPERTIES GateSpec OutlineSpec AllOrNothing
