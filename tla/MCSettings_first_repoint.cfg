\* The first settings ever saved are a repoint of one version.
SPECIFICATION Spec
CONSTANTS
  Requests = {r1}
  Versions = {"4", "6"}
  Installed = {"4", "6"}
  Kinds = {"save", "repoint"}
  Forms <- SomeForms
  Faults = {"crash"}
PROPERTIES
  NeverDemoted
