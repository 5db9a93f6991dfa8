\* Renamed and compressed logs, a reindex beside the background thread, a crash.
SPECIFICATION FairSpec
CONSTANTS
  Background = Background
  Refills = {refill}
  Inodes = {1, 2, 3}
  MaxLines = 2
  MaxRotations = 2
  MaxExpired = 1
  MaxCrashes = 1
  MaxIncidents = 2
  MaxBatch = 1
  PruneBatch = 1
  Fingerprint = 2
  Rotations = {"rename", "copytruncate"}
  Mishaps = {}
  None = None
INVARIANTS
  TypeOK
  ResumesWhereItStopped
  EachSourceInOrder
  ReadOnceAlone
PROPERTIES
  AlwaysCatchesUp
