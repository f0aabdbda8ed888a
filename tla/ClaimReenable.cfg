\* A subscriber is disabled and re-enabled through the API.
SPECIFICATION LiveSpec
CONSTANTS
  Nil = Nil
  Usernames = {"alice"}
  RowIds = {"s"}
  Vouchers <- MCVouchers
  Limit <- MCLimit
  Window <- MCWindow
  SimUse <- MCSimUse
  Hosts = {"h1"}
  HostPrefix <- Exact1
  NasIds = {"n1"}
  AcctIds = {}
  Readings <- Nothing
  StaleAfter = 1
  MaxSessions = 0
  Requests = {}
  Refreshers = {f1}
  Editors = {e1}
  Reconcilers = {}
  Admin = {"edit"}
  SimUses = {}
  Seed <- SeedSubscriber
  SeedNas <- OneNas
  MaxTime = 0
  MaxWrites = 2
  MaxUsage = 3
  MaxJobs = 0
  MaxLost = 0
  MaxRestarts = 0
PROPERTIES
  ReenableTakesEffect
