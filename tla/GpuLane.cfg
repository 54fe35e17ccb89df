SPECIFICATION FairSpec
CONSTANTS
  None = None
  a = a
  b = b
  g = g
  s = s
  Jobs = {a, b}
  Users = {g}
  Strangers = {s}
  Wants <- MCWants
  Rank <- MCRank
  UsableMB = 3
  MaxHolders = 2
  TTL = 2
  GPUID_STRIKES = 2
  MAX_ATTEMPTS = 1
  MaxCrashes = 1
INVARIANTS TypeOK ClaimsMatchJobs
PROPERTIES StraysNoticed NoGpuInARow NoHeadOfLine
