\* A usage voucher: an Access-Request, accounting updates in any order, a refresh, a lost write.
SPECIFICATION Spec
CONSTANTS
  Nil = Nil
  Usernames = {"alice"}
  RowIds = {"u"}
  Vouchers <- MCVouchers
  Limit <- MCLimit
  Window <- MCWindow
  SimUse <- MCSimUse
  Hosts = {"h1"}
  HostPrefix <- Exact1
  NasIds = {"n1"}
  AcctIds = {"a1"}
  Readings <- Seconds
  StaleAfter = 1
  MaxSessions = 1
  Requests = {r1}
  Refreshers = {f1}
  Editors = {}
  Reconcilers = {}
  Admin = {}
  SimUses = {}
  Seed <- SeedUsage
  SeedNas <- OneNas
  MaxTime = 0
  MaxWrites = 2
  MaxUsage = 2
  MaxJobs = 1
  MaxLost = 1
  MaxRestarts = 0
INVARIANTS
  TypeOK
  SpentRefused
  UsageLedger
  AnsweredOnce
PROPERTIES
  CacheMonotone
