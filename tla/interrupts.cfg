SPECIFICATION FairSpec
CONSTANTS
  MaxMotions = 2
  MaxMissed = 1
  MaxRequests = 3
  MaxFaults = 1
  MaxCrashes = 1
INVARIANTS TypeOK NothingLost NoEchoes WakeTold
PROPERTIES LatchServed MotionReported
CHECK_DEADLOCK FALSE
