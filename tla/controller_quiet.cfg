SPECIFICATION Spec
CONSTANTS
  AlarmStatuses = {"armed"}
  PmStates = {"running", "hibernating-imminent"}
  c1 = c1
  c2 = c2
  Callers = {c1, c2}
  Methods = {"prepare-hibernation", "soft-reset", "clear-latch"}
  NoOne = NoOne
  Serial = FALSE
  HasWatcher = TRUE
  MaxFaults = 0
  MaxCrashes = 1
SYMMETRY CallerSymmetry
INVARIANTS QuietChipReady LoneCallbackDecides
PROPERTY PrepareConfirms
