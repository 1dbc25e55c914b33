CONSTANTS
  q1 = q1
  q2 = q2
  q3 = q3
  k1 = k1
  k2 = k2
  a1 = a1
  a2 = a2
  None = None
  Queries = {q1, q2}
  Keys = {k1}
  Answers = {a1, a2}
  Imported = {a2}
  MaxDay = 1
  Raising = {"stats"}
  Evictions = FALSE
  MaxImports = 0
SPECIFICATION FairSpec
PROPERTIES
  FirstAnswerWins
  EveryRequestEnds
  RegistryDrains
  OrphanStored
  KeepsPromise
CHECK_DEADLOCK FALSE
