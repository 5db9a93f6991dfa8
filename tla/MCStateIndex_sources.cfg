\* Two saves, one of which reindexes, the background thread, two transactions
\* of one lease.
SPECIFICATION FairSpec
CONSTANTS
  Background = Background
  Savers = {s1, s2}
  Nudgers = {s1}
  Addresses = {a1}
  Advance = {0}
  MaxGrants = 2
  None = None
INVARIANTS
  TypeOK
  FreshIfUnchanged
PROPERTIES
  RowsNeverGoBack
  AnsweredSaveIsShown
  IndexSettles
