\* Both daemons' files and one backup directory: edits, views, backups and
\* restores, every failure, two backups in one second allowed, one backup kept.
SPECIFICATION Spec
CONSTANTS
  Requests = {r1, r2, r3}
  Versions = {v4, v6}
  Paths = {pathA, pathB}
  v4 = v4
  v6 = v6
  pathA = pathA
  pathB = pathB
  VersionOf <- OnePathEach
  NoRequest = NoRequest
  Kinds = {"edit", "view", "backup", "restore"}
  Faults = {"copy_fails", "write_fails", "crash"}
  Clock = {"repeats"}
  Keep = 1
SYMMETRY Symmetry
INVARIANTS
  TypeOK
  CyclesNeverInterleave
  Recoverable
  FilesNeverMix
PROPERTIES
  ImplementsAtomicConfig
