SPECIFICATION Spec
CONSTANTS
  NTypes = 1
  Budget <- BudgetOne
  Half = 8
  PulseMs = 1
  HoldMs = 1
  Uptime0 = 13
  Resets0 = 1
  Since0 = 8
  MaxTicks = 3
  MaxEmit = 1
  MaxResets = 2
  MaxVerdicts = 1
  MaxQueue = 2
INVARIANT NoRevival
CHECK_DEADLOCK FALSE
