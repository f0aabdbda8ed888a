\* A calendar voucher, generated while the server runs: two Access-Requests, two refreshes,
\* a lost write, a restart; or sessions on two NASes: accounting, sweep, disconnects,
\* reconciliation, restart.
SPECIFICATION Spec
CONSTANTS
  Nil = Nil
  Usernames = {"alice"}
  RowIds = {"c"}
  Vouchers <- MCVouchers
  Limit <- MCLimit
  Window <- MCWindow
  SimUse <- MCSimUse
  Hosts = {"h1", "h2"}
  HostPrefix <- Exact2
  NasIds = {"n1", "n2"}
  AcctIds = {"a1"}
  Readings <- One
  StaleAfter = 0
  MaxSessions = 2
  Requests = {r1, r2}
  Refreshers = {f1, f2}
  Editors = {}
  Reconcilers = {c1}
  Admin = {"generate", "disconnect"}
  SimUses = {}
  Seed <- None
  SeedNas <- TwoNas
  MaxTime = 2
  MaxWrites = 1
  MaxUsage = 3
  MaxJobs = 1
  MaxLost = 1
  MaxRestarts = 1
SYMMETRY Alike
CONSTRAINT Apart
INVARIANTS
  CalendarWindow
  RefusalsKept
  StopStamped
PROPERTIES
  SessionsFollowLifecycle
CHECK_DEADLOCK FALSE
