\* Saves and repoints of both versions that overlap, with every failure and restarts.
SPECIFICATION Spec
CONSTANTS
  Requests = {r1, r2, r3}
  Versions = {"4", "6"}
  Installed = {"4", "6"}
  Kinds = {"save", "repoint"}
  Forms <- SomeForms
  Faults = {"write_fails", "crash"}
SYMMETRY Symmetry
INVARIANTS
  TypeOK
  PointersPersisted
  SerialSavesAgree
PROPERTIES
  NeverDemotedBySaves
