\* A request that waited for the lock of the file the pointer has left; every file exists.
SPECIFICATION FilesExist
CONSTANTS
  Requests = {r1, r2, r3}
  Versions = {v4}
  Paths = {pathA, pathB}
  v4 = v4
  v6 = v6
  pathA = pathA
  pathB = pathB
  VersionOf <- TwoPaths
  NoRequest = NoRequest
  Kinds = {"edit", "repoint"}
  Faults = {}
  Clock = {}
  Keep = 3
SYMMETRY Symmetry
INVARIANTS
  CyclesNeverInterleave
