SPECIFICATION Spec
CONSTANTS
  None = None
  NoFile = NoFile
  a = a
  b = b
  x = x
  k = k
  s1 = s1
  s2 = s2
  s3 = s3
  s4 = s4
  c1 = c1
  w1 = w1
  Jobs = {a, b}
  GpuJobs = {b}
  BadJobs = {}
  Keys = {k}
  KeyOf <- NoKeys
  MaxLaunches = 5
  Submits = {s1, s2}
  SubmitOf <- MCSubmitOf
  Cancels = {}
  CancelOf <- MCCancelOf
  Waits = {}
  WaitOf <- MCWaitOf
  MAX_ATTEMPTS = 1
  Slots = 1
  MaxCrashes = 3
INVARIANTS TypeOK OneState LaunchBound PendingIsIdle SupervisedOnDisk
PROPERTIES FinalIsFinal ImplementsJobLife
