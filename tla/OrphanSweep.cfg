SPECIFICATION FairSpec
CONSTANTS
  j = j
  c = c
  g = g
  s = s
  Jobs = {j}
  Claims = {c, s, g}
  Scoped = {s}
  Foreign = {g}
  Dirs = {"env", "default", "config"}
  DirOf <- MCDirOf
  EnvDir = "env"
  DefaultDir = "default"
  ConfigDir = "config"
  MaxCrashes = 1
INVARIANTS TypeOK SparesAccounted
PROPERTY OrphansEnd
