SPECIFICATION Spec
CONSTANTS
  None = None
  NoFile = NoFile
  a = a
  b = b
  x = x
  k = k
  s1 = s1
  s2 = s2
  s3 = s3
  s4 = s4
  c1 = c1
  w1 = w1
  Jobs = {a, b, x}
  GpuJobs = {}
  BadJobs = {x}
  Keys = {k}
  KeyOf <- OneKey
  MaxLaunches = 5
  Submits = {s1, s2, s3, s4}
  SubmitOf <- MCSubmitOf
  Cancels = {}
  CancelOf <- MCCancelOf
  Waits = {}
  WaitOf <- MCWaitOf
  MAX_ATTEMPTS = 1
  Slots = 2
  MaxCrashes = 2
INVARIANTS DedupeBetweenLooks
PROPERTIES SubmitNeverClobbers
