\* One voucher, a package whose address pool is edited, one refresh at a time.
SPECIFICATION LiveSpec
CONSTANTS
  Nil = Nil
  Users = {u1}
  Packages = {k1}
  Profiles = {}
  Values = {1}
  Extras = {x1, x2}
  Workers = {w1}
  Refreshers = {f1}
  Limits = {""}
  MaxCount = 1
  MaxRequests = 3
PROPERTIES
  NoRetroactiveChange
CHECK_DEADLOCK FALSE
