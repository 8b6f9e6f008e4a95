SPECIFICATION FairSpec
CONSTANTS
  Procs = {p1}
  Tasks = {t1, t2}
  Tolerance = 1
  Skew = 1
  None = None
  MaxTime = 2
  MaxMishaps = 1
INVARIANTS
  OnlyOwnDurables
PROPERTY
  InboxComesBack
