SPECIFICATION FairSpec
CONSTANTS
  i = i
  j = j
  f = f
  Jobs = {j}
  Claims = {f}
  Foreign = {f}
  WATCHDOG_STRIKES = 2
  MAX_ATTEMPTS = 1
  Interval = 1
  Poll = 1
  MaxLaunches = 2
  MaxCrashes = 1
PROPERTIES RetryIsExcused OverUseEnds
