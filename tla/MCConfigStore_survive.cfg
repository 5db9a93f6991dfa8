\* Four edits, backups or repoints of one daemon with every failure; nothing is pruned.
\* A repoint that overlaps with another request is what MCConfigStore_stale_lock shows.
SPECIFICATION Spec
CONSTANTS
  Requests = {r1, r2, r3, r4}
  Versions = {v4}
  Paths = {pathA, pathB}
  v4 = v4
  v6 = v6
  pathA = pathA
  pathB = pathB
  VersionOf <- TwoPaths
  NoRequest = NoRequest
  Kinds = {"edit", "backup", "repoint"}
  Faults = {"copy_fails", "write_fails", "crash"}
  Clock = {}
  Keep = 4
SYMMETRY Symmetry
CONSTRAINT RepointsAlone
INVARIANTS
  AnsweredEditsSurvive
  EveryReplacedVersionKept
