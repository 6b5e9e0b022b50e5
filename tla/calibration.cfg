SPECIFICATION FairSpec
CONSTANTS
  Enough = 1
  Warmup = 2
  Window = 3
  MaxFits = 2
  MaxResets = 1
  MaxFaults = 2
  MaxCrashes = 1
INVARIANTS TypeOK RecordsAgree FinishSurvives NeverTorn WindowFresh ValidIsCalibrated
PROPERTIES ResetDisablesHeading StoreSpec
