\* A reindex beside the background thread, and a log that grows between two stats.
SPECIFICATION Spec
CONSTANTS
  Background = Background
  Refills = {refill}
  Inodes = {1}
  MaxLines = 2
  MaxRotations = 0
  MaxExpired = 0
  MaxCrashes = 0
  MaxIncidents = 3
  MaxBatch = 2
  PruneBatch = 1
  Fingerprint = 2
  Rotations = {}
  Mishaps = {}
  None = None
INVARIANTS
  ReadOncePerFile
