\* Two browsers on the break-glass account and another one.
SPECIFICATION Spec
CONSTANTS
  Users = {1, 2}
  BreakGlass = 1
  Browsers = {b1, b2}
  None = None
  MaxRequests = 8
SYMMETRY Symmetry
INVARIANTS
  TypeOK
  SomeoneAdministers
  EnabledIsConfirmed
  SpentCodesStaySpent
  AssignedMustChange
PROPERTIES
  RightsFollowToggles
