\* Administration of users and NASes, edits included, while two refreshes overlap.
SPECIFICATION LiveSpec
CONSTANTS
  Nil = Nil
  Usernames = {"alice"}
  RowIds = {"s", "t"}
  Vouchers <- MCVouchers
  Limit <- MCLimit
  Window <- MCWindow
  SimUse <- MCSimUse
  Hosts = {"h1"}
  HostPrefix <- Exact1
  NasIds = {"n1"}
  AcctIds = {}
  Readings <- Nothing
  StaleAfter = 1
  MaxSessions = 0
  Requests = {}
  Refreshers = {f1, f2}
  Editors = {e1}
  Reconcilers = {}
  Admin = {"create", "edit", "delete", "nas"}
  SimUses = {}
  Seed <- SeedSubscriber
  SeedNas <- OneNas
  MaxTime = 0
  MaxWrites = 2
  MaxUsage = 3
  MaxJobs = 0
  MaxLost = 0
  MaxRestarts = 0
PROPERTIES
  CacheConverges
  DisableReachesCache
