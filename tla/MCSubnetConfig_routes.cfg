\* Either daemon's routes, with two shared networks and two clients; one name is the
\* other with a blank after it.
SPECIFICATION Spec
CONSTANTS
  n1 = n1
  n2 = n2
  m1 = m1
  m2 = m2
  i1 = i1
  i2 = i2
  Families = {"4", "6"}
  Slots = {i1, i2}
  Names = {n1, n2}
  Cidrs <- SomeCidrs
  Ranges <- SomeRanges
  Strip <- Stripped
  Clients = {m1, m2}
  Others = {"dns"}
  MaxId = 3
  MaxRes = 2
  Alone = Alone
  None = None
SYMMETRY Symmetry
INVARIANTS
  TypeOK
  NoOverlaps
  IdsDiffer
  NamesDiffer
PROPERTIES
  IdentityKept
  ReservationsKept
  SubnetsGoOneByOne
  OptionsKept6
