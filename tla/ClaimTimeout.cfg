\* First login of a calendar voucher.
SPECIFICATION Spec
CONSTANTS
  Nil = Nil
  Usernames = {"alice"}
  RowIds = {"c"}
  Vouchers <- MCVouchers
  Limit <- MCLimit
  Window <- MCWindow
  SimUse <- MCSimUse
  Hosts = {"h1"}
  HostPrefix <- Exact1
  NasIds = {"n1"}
  AcctIds = {}
  Readings <- Nothing
  StaleAfter = 1
  MaxSessions = 0
  Requests = {r1}
  Refreshers = {f1}
  Editors = {}
  Reconcilers = {}
  Admin = {}
  SimUses = {}
  Seed <- SeedCalendar
  SeedNas <- OneNas
  MaxTime = 1
  MaxWrites = 2
  MaxUsage = 3
  MaxJobs = 0
  MaxLost = 0
  MaxRestarts = 0
PROPERTIES
  CalendarTimeout
