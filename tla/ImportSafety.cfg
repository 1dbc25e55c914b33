CONSTANTS
  i1 = i1
  i2 = i2
  w1 = w1
  k1 = k1
  k2 = k2
  k3 = k3
  None = None
  Bad = Bad
  Importers = {i1, i2}
  Writers = {w1}
  Keys = {k1, k2, k3}
  Broken = Broken
  Uploads <- MCUploads
  MaxEntries = 2
  ChunkSize = 2
  Deletable = {k3}
SPECIFICATION FairSpec
INVARIANTS
  TypeOK
  TransactionOwned
  OnlyCommittedChunks
  RestoreComplete
  LossIsReported
PROPERTY
  TransactionEnds
CHECK_DEADLOCK FALSE
