SPECIFICATION Spec
CONSTANTS
  None = None
  r1 = r1
  r2 = r2
  g = g
  h = h
  o = o
  p1 = p1
  p2 = p2
  p3 = p3
  s1 = s1
  Claims = {r1, r2, g, o}
  Old = {o}
  Waiters = {g}
  Askers = {g}
  Foreign = {g}
  Pids = {p1, p2, p3}
  PidOf <- MCPidOf
  Sweepers = {s1}
  Declarations <- MCDeclarations
  Prompt = FALSE
  UsableMB = 3
  MaxHolders = 2
SYMMETRY RunnersClaims
INVARIANTS TypeOK NoOverbook HolderRecorded CardClosedIsExact NoHopelessWait
PROPERTIES OldHolderUndisturbed ImplementsCard
