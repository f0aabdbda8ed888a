\* Two users, a package and a profile; a batch of two vouchers; four requests,
\* two of them and one refresh in progress at a time.
SPECIFICATION LiveSpec
CONSTANTS
  Nil = Nil
  Users = {u1, u2}
  Packages = {k1}
  Profiles = {p1}
  Values = {1, 2}
  Extras = {x1}
  Workers = {w1, w2}
  Refreshers = {f1}
  Limits = {""}
  MaxCount = 2
  MaxRequests = 4
INVARIANTS
  TypeOK
  NeverBoth
  AssignedProfilesExist
  BatchUniform
PROPERTIES
  TermsSold
  CatalogReachesCache
CHECK_DEADLOCK FALSE
