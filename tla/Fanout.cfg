SPECIFICATION FairSpec
CONSTANTS
  Peers = {"p", "q"}
  QueueSize = 2
  MaxFaults = 3
PROPERTIES ReaderNeverStalls HostComesBack
CHECK_DEADLOCK FALSE
