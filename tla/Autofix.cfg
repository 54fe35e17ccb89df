SPECIFICATION FairSpec
CONSTANTS
  None = None
  s = s
  t = t
  Sigs = {s}
  Others = {s, t}
  Stamps = {1, 2, 3}
  max_dispatches_per_day = 1
  report_cooldown_s = 1
  DAY = 2
  Filing = 1
  OPEN_ISSUE_LIMIT = 1
  MaxOpen = 2
  MaxCrashes = 1
  MaxBlind = 1
INVARIANTS TypeOK BudgetPerDay SpentOnRuns
PROPERTIES OneOpenIssue EvidenceFiled
