SPECIFICATION FairSpec
CONSTANTS
  None = None
  NoFile = NoFile
  a = a
  b = b
  x = x
  k = k
  s1 = s1
  s2 = s2
  s3 = s3
  s4 = s4
  c1 = c1
  w1 = w1
  Jobs = {a}
  GpuJobs = {a}
  BadJobs = {}
  Keys = {k}
  KeyOf <- NoKeys
  MaxLaunches = 3
  Submits = {s1}
  SubmitOf <- MCSubmitOf
  Cancels = {c1}
  CancelOf <- MCCancelOf
  Waits = {w1}
  WaitOf <- MCWaitOf
  MAX_ATTEMPTS = 1
  Slots = 1
  MaxCrashes = 1
PROPERTIES JobsSettle WaitReturns
