SPECIFICATION FairSpec
CONSTANTS
  LoadOrder <- Read
  WriteOrder <- Written
  TakesOld = FALSE
  MaxVersion = 2
  MaxTokens = 4
  MaxCrashes = 2
INVARIANTS TypeOK EnrolledIsKnown
PROPERTY GoesLive
CHECK_DEADLOCK FALSE
