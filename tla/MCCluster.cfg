\* Two instances, one a release behind, that start, stop, fail and come back
\* while they serve one session.
SPECIFICATION LiveSpec
CONSTANTS
  a = a
  b = b
  Instances = {a, b}
  Files = 2
  Version <- TwoReleases
  MaxFaults = 1
  Sessions = {s1}
  Limit = 2
  SimultaneousUse = 0
  MaxReading = 2
  Nil = Nil
INVARIANTS
  TypeOK
  AppliedOnce
  SchemaReady
  NoInstanceAhead
  SessionBooks
  NoPhantomUsage
PROPERTIES
  AccountHonest
  CachesCatchUp
  OverspentSessionsEnd
CHECK_DEADLOCK FALSE
