SPECIFICATION FairSpec
CONSTANTS
  AlarmStatuses = {"disarmed"}
  PmStates = {"running"}
  c1 = c1
  Callers = {c1}
  Methods = {"soft-reset", "prepare-hibernation"}
  NoOne = NoOne
  Serial = FALSE
  HasWatcher = TRUE
  MaxFaults = 1
  MaxCrashes = 0
PROPERTIES DispatchContinues CallsAnswered
