SPECIFICATION FairSpec
CONSTANTS
  Coords = {"a", "b", "island"}
  Valid = {"a", "b"}
  None = "none"
  ACK_RETRIES = 1
  MaxFaults = 2
  MaxRecoveries = 1
  MaxPushes = 1
INVARIANTS AckedIsTruth NeverResurveys
PROPERTY Converges
CHECK_DEADLOCK FALSE
