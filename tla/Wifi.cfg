SPECIFICATION WifiFairSpec
CONSTANTS
  Clients = {"phone", "laptop"}
  AP_AUTO_OFF = 1
  AP_MAX_REARMS = 1
  MAX_FAILED = 1
  MaxFaults = 1
  MaxQueue = 1
  MaxJoins = 2
  MaxReboots = 1
INVARIANTS ClientIsSeen ApBounded DnsFollowsAp
PROPERTY StationComesBack
CHECK_DEADLOCK FALSE
