CONSTANTS
  q1 = q1
  q2 = q2
  q3 = q3
  k1 = k1
  k2 = k2
  a1 = a1
  a2 = a2
  None = None
  Queries = {q1, q2}
  Keys = {k1, k2}
  Answers = {a1}
  Imported = {}
  MaxDay = 2
  Raising = {"select", "stats", "insert"}
  Evictions = TRUE
  MaxImports = 1
SPECIFICATION Spec
SYMMETRY Symmetry
INVARIANTS
  TypeOK
  SingleFlight
  RegistryExact
  GroundedAnswers
  LedgerOrdered
  RecordedBeforeAnswered
CHECK_DEADLOCK FALSE
