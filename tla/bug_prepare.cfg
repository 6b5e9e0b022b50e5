SPECIFICATION Spec
CONSTANTS
  AlarmStatuses = {"disarmed", "armed"}
  PmStates = {"hibernating-imminent"}
  c1 = c1
  Callers = {c1}
  Methods = {"prepare-hibernation"}
  NoOne = NoOne
  Serial = TRUE
  HasWatcher = TRUE
  MaxFaults = 1
  MaxCrashes = 0
PROPERTY PrepareConfirms
