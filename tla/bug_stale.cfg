SPECIFICATION Spec
CONSTANTS
  AlarmStatuses = {"disarmed", "armed"}
  PmStates = {"hibernating"}
  c1 = c1
  Callers = {c1}
  Methods = {}
  NoOne = NoOne
  Serial = FALSE
  HasWatcher = TRUE
  MaxFaults = 0
  MaxCrashes = 0
INVARIANT DerivedProfile
