CONSTANTS
  r1 = r1
  r2 = r2
  r3 = r3
  p1 = p1
  p2 = p2
  p3 = p3
  Requests = {r1, r2, r3}
  Providers = {p1, p2}
  Existing = {p1}
  Urls = {"a", "b"}
  Strategies = {"shuffle", "unknown"}
  Rejected = {"unknown"}
  Timeouts = {1, 2}
  None = None
  MaxFaults = 1
SPECIFICATION Spec
SYMMETRY Symmetry
INVARIANTS
  TypeOK
  RouterFollowsDatabase
  DeletedNeverServed
CHECK_DEADLOCK FALSE
