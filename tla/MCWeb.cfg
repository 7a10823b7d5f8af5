\* A visit ends: nothing is left to do.
SPECIFICATION FairSpec
CHECK_DEADLOCK FALSE
CONSTANTS
  t1 = t1
  t2 = t2
  Text = {t1, t2}
  Short = Short
  None = None
  Visits <- MCVisits
INVARIANTS
  TypeOK
  SettledShowsTheQuery
  OwnWritesAreShown
PROPERTIES
  RevocationIsExact
  PageSettles
