CONSTANTS
  Scripts <- MCScripts
  Releases = {1, 2}
  Legacy = {"idx_questions_created"}
  MaxKills = 3
SPECIFICATION Spec
INVARIANTS
  TypeOK
  VersionNeverAhead
  ServesFullSchema
  FailsOnlyAfterInterruption
CHECK_DEADLOCK FALSE
