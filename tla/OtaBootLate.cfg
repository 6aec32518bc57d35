SPECIFICATION FairSpec
CONSTANTS
  Class <- OnlyLate
  Files <- FwOnly
  MaxAttempts = 1
  MaxBootLoops = 2
  StableN = 1
  NvsMayFail = FALSE
  MaxFaults = 0
PROPERTY CrashLoopEnds
CHECK_DEADLOCK FALSE
