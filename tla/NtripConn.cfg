SPECIFICATION FairSpec
CONSTANTS
  LoadOrder <- Keys
  MaxVersion = 1
  ShortCount = 2
  ShortDelay = 2
  DelayTable <- Pauses
  KeepAliveSteps = 1
  MaxRequests = 1
  MaxStores = 1
INVARIANT BackoffHolds
PROPERTIES WaitingWakes RequestHonoured ImplementsSession
CHECK_DEADLOCK FALSE
