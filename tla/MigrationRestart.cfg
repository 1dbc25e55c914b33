CONSTANTS
  Scripts <- MCScripts
  Releases = {2}
  Legacy = {"idx_questions_created"}
  MaxKills = 1
SPECIFICATION FairSpec
PROPERTY RestartSafe
CHECK_DEADLOCK FALSE
