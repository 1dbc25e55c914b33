\* Two calls and their attempts while a provider is edited, a rebuild fails, and midnight comes.
SPECIFICATION Spec

CONSTANTS
  Calls = {c1, c2}
  Providers = {p, q}
  Urls = {u, v}
  None = None
  MaxTries = 2
  MaxAttempts = 2
  MaxDay = 1
  MaxEdits = 1
  MaxFaults = 1

INVARIANTS
  TypeOK
  CountedForItsOwn
  NoAttemptForgotten
  StatusCoversWindow

SYMMETRY Symmetry
CHECK_DEADLOCK FALSE
