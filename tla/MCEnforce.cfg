\* A data cap is reached: disconnect on two NASes, disable in the database.
SPECIFICATION LiveSpec
CONSTANTS
  Nil = Nil
  Usernames = {"alice"}
  RowIds = {"d"}
  Vouchers <- MCVouchers
  Limit <- MCLimit
  Window <- MCWindow
  SimUse <- MCSimUse
  Hosts = {"h1", "h2"}
  HostPrefix <- Exact2
  NasIds = {"n1", "n2"}
  AcctIds = {"a1"}
  Readings <- Both
  StaleAfter = 1
  MaxSessions = 2
  Requests = {}
  Refreshers = {f1}
  Editors = {}
  Reconcilers = {}
  Admin = {}
  SimUses = {}
  Seed <- SeedData
  SeedNas <- TwoNas
  MaxTime = 0
  MaxWrites = 1
  MaxUsage = 2
  MaxJobs = 1
  MaxLost = 0
  MaxRestarts = 0
INVARIANTS
  DisableOnItsWay
PROPERTIES
  LimitReachesDatabase
