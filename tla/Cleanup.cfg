CONSTANTS
  k1 = k1
  k2 = k2
  k3 = k3
  r1 = r1
  r2 = r2
  None = None
  Null = Null
  Keys = {k1, k2}
  Requests = {r1}
  Ttls = {1, Null}
  Batches = {1}
  Retention = 1
  LogDays = {0}
  MaxDay = 2
  MaxFaults = 1
SPECIFICATION FairSpec
INVARIANTS
  TypeOK
  PurgeComplete
PROPERTIES
  PurgeSparesRecent
  RoundsEnd
  ExpiredGoes
CHECK_DEADLOCK FALSE
