SPECIFICATION Spec
CONSTANTS
  i = i
  j = j
  f = f
  Jobs = {i, j}
  Claims = {}
  Foreign = {}
  WATCHDOG_STRIKES = 2
  MAX_ATTEMPTS = 1
  Interval = 1
  Poll = 1
  MaxLaunches = 2
  MaxCrashes = 1
INVARIANTS TypeOK NoConvictionLeak
PROPERTIES TwoInARow ConvictedIsFailed RetryIsExcused
