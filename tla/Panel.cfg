CONSTANTS
  a = a
  b = b
  c = c
  l1 = l1
  d1 = d1
  None = None
  Questions = {a, b, c}
  Filters <- MCFilters
  PageSize = 1
  Loads = {l1}
  Removals = {d1}
  MaxId = 3
  MaxSent = 3
  MaxImports = 1
  Stored <- MCStored
SPECIFICATION Spec
INVARIANTS
  TypeOK
  DeletesWhatWasConfirmed
  WalkSkipsNothing
