\* The attributes of a PPPoE profile.
SPECIFICATION ReplySpec
CONSTANTS
  OwnSettings = {"ip", "rate", "group", "bandwidth", "session", "idle"}
  ProfileSettings = {"pool", "dns", "rate", "bandwidth", "session"}
  PackageSettings = {"pool", "dns"}
  Octets = {0, 2, 3, 4}
  Word = 3
INVARIANTS
  ProfileDelivered
CHECK_DEADLOCK FALSE
