\* gzip leaves an archive without its end beside the live log.
SPECIFICATION FairSpec
CONSTANTS
  Background = Background
  Refills = {}
  Inodes = {1, 2, 3}
  MaxLines = 2
  MaxRotations = 1
  MaxExpired = 0
  MaxCrashes = 0
  MaxIncidents = 3
  MaxBatch = 1
  PruneBatch = 2
  Fingerprint = 2
  Rotations = {"rename"}
  Mishaps = {"gzip_dies"}
  None = None
PROPERTIES
  AlwaysCatchesUp
