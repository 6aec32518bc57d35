SPECIFICATION Spec
CONSTANTS
  NTypes = 2
  Budget <- BudgetTwo
  Half = 8
  PulseMs = 1
  HoldMs = 1
  Uptime0 = 13
  Resets0 = 1
  Since0 = 8
  MaxTicks = 3
  MaxEmit = 2
  MaxResets = 2
  MaxVerdicts = 1
  MaxQueue = 2
INVARIANTS OnlyHeldRevives FreshIsRecent HealthyIsFresh
CHECK_DEADLOCK FALSE
