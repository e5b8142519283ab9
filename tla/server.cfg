\* Two accounts, two requests in flight, two changes of accounts, two starts.
\* The bounds on starts and changes, and a process that is down, may leave nothing to do.
SPECIFICATION Spec
CONSTANTS
  None = None
  admin = admin
  reviewer = reviewer
  Accounts = {admin, reviewer}
  SeedOrder <- TwoAccounts
  SeedRole <- TwoRoles
  Assignable = {"auditor", "reviewer"}
  Routes = {"runs.write", "gaps.transition", "audits.list"}
  Slots = {s1, s2}
  MaxChanges = 2
  MaxStarts = 2
INVARIANTS TypeOK ServedWereEntitled BarredStayOut ShutdownIsOrderly
PROPERTIES SignalEndsProcess
CHECK_DEADLOCK FALSE
