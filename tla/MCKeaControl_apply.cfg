\* Two requests of any kind, repoints included, beside an apply, with every failure.
SPECIFICATION KeaSpec
CONSTANTS
  Requests = {r1, r2}
  Applies = {a1}
  Versions = {v4}
  Paths = {pathA, pathB}
  v4 = v4
  pathA = pathA
  pathB = pathB
  VersionOf <- TwoPaths
  KeaFile <- StartedWith
  NoRequest = NoRequest
  Kinds = {"edit", "view", "backup", "restore", "repoint"}
  Faults = {"copy_fails", "write_fails", "crash"}
  Clock = {}
  Keep = 1
  Strategies = {"control-socket", "signal"}
INVARIANTS
  KeaTypeOK
  OnlyWrittenEditsRun
PROPERTIES
  EveryRequestAnswered
  AppliedMeansRunning
  EveryApplyAnswered
