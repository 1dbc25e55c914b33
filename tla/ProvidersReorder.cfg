CONSTANTS
  r1 = r1
  r2 = r2
  r3 = r3
  p1 = p1
  p2 = p2
  p3 = p3
  Requests = {r1, r2}
  Providers = {p1, p2, p3}
  Existing = {p1, p2, p3}
  Urls = {"a"}
  Strategies = {"shuffle", "unknown"}
  Rejected = {"unknown"}
  Timeouts = {1}
  None = None
  MaxFaults = 0
SPECIFICATION Spec
SYMMETRY Symmetry
INVARIANTS
  OrderAsAsked
CHECK_DEADLOCK FALSE
