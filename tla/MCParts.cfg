\* Access-Accepts with octet limits up to one more than fits; two changes of
\* settings over three sessions; two edits of a row; octets
\* around a word of two bits.
SPECIFICATION PartsSpec
CONSTANTS
  OwnSettings = {"ip", "rate", "group", "bandwidth", "session", "idle"}
  ProfileSettings = {"pool", "dns", "rate", "bandwidth", "session"}
  PackageSettings = {"pool", "dns"}
  Octets = {0, 2, 3, 4}
  Word = 3
  a1 = a1
  a2 = a2
  a3 = a3
  n1 = n1
  n2 = n2
  c1 = c1
  c2 = c2
  Changes = {c1, c2}
  Wanted = {{"rate"}, {"rate", "group"}}
  UserSessions = {a1, a2, a3}
  NasOf <- MCNasOf
  Configured = {n1, n2}
  HostPrefix <- MCHostPrefix
  None = None
  Operators = {o1, o2}
  Texts = {"text"}
  Empty = ""
  Gone = Gone
  Two32 = 4
  MaxInt32 = 1
  Caps = {0, 1, 2, 5}
  MaxTraffic = 5
  MaxSent = 2
  MaxUsed = 8
SYMMETRY MCSymmetry
INVARIANTS
  PartsTypeOK
  LimitsDelivered
  OctetsWithinPolicy
  ShownIsApplied
  OnlyOverlapsAreLost
  SuccessIsWritten
  AllBytesCharged
  BalanceHonest
CHECK_DEADLOCK FALSE
