\* Three NASes; the address of one is a prefix of another's (10.0.0.1, 10.0.0.11).
SPECIFICATION Spec
CONSTANTS
  Nil = Nil
  Usernames = {"alice"}
  RowIds = {"s"}
  Vouchers <- MCVouchers
  Limit <- MCLimit
  Window <- MCWindow
  SimUse <- MCSimUse
  Hosts = {"h1", "h2", "h3"}
  HostPrefix <- Overlapping
  NasIds = {"n1", "n2", "n3"}
  AcctIds = {"a1"}
  Readings <- Nothing
  StaleAfter = 1
  MaxSessions = 3
  Requests = {}
  Refreshers = {f1}
  Editors = {}
  Reconcilers = {}
  Admin = {"disconnect"}
  SimUses = {}
  Seed <- SeedSubscriber
  SeedNas <- ThreeNas
  MaxTime = 0
  MaxWrites = 2
  MaxUsage = 3
  MaxJobs = 1
  MaxLost = 0
  MaxRestarts = 0
PROPERTIES
  AckEndsItsNas
