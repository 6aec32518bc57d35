SPECIFICATION FairSpec
CONSTANTS
  Class <- LateThenDead
  Files <- FwThenWww
  MaxAttempts = 3
  MaxBootLoops = 5
  StableN = 2
  NvsMayFail = TRUE
  MaxFaults = 1
INVARIANTS Bootable AttemptsBounded ValidIsProven StreakBounded
PROPERTY EndsOnceWithdrawn
CHECK_DEADLOCK FALSE
