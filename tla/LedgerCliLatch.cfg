SPECIFICATION FairSpec
CONSTANTS
  None = None
  r1 = r1
  r2 = r2
  g = g
  h = h
  o = o
  p1 = p1
  p2 = p2
  p3 = p3
  s1 = s1
  Claims = {r1, g}
  Old = {}
  Waiters = {g}
  Askers = {}
  Foreign = {}
  Pids = {p1, p2}
  PidOf <- MCPidOf
  Sweepers = {s1}
  Declarations <- MCDeclarations
  Prompt = TRUE
  UsableMB = 3
  MaxHolders = 2
PROPERTY HopelessRefused
