SPECIFICATION Spec
CONSTANTS
  Grace = 2
  ThGnss = 1
  ThCaster = 2
  ThLink = 2
  ThWedge = 3
  DebGnss = 2
  DebCaster = 1
  DebLink = 1
  HeapLow = 2
  LowWord = 4
  AgeMod = 1000
  RecoverS = 1
  MaxClock = 8
  MaxFlips = 2
INVARIANTS SilenceIsReal RecoversInTime WedgeReboots HeapReboots
CHECK_DEADLOCK FALSE
