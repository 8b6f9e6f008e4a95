SPECIFICATION DurablesSpec
CONSTANTS
  Procs = {p1}
  Tasks = {t1, t2}
  Tolerance = 1
  Skew = 1
  None = None
  MaxTime = 3
  MaxMishaps = 0
INVARIANT
  NoInheritedMail
