SPECIFICATION Spec
CONSTANTS
  a1 = a1
  a2 = a2
  p1 = p1
  p2 = p2
  c1 = c1
  c2 = c2
  n1 = n1
  n2 = n2
  Agents = {a1, a2}
  Names = {n1, n2}
  NoName = noname
  Procs = {p1, p2}
  NoProc = noproc
  MaxActive = 2
  MaxTokens = 2
  Clients = {x}
  Guards = {p1, p2}
  FailureLimit = 1
  FailureWindow = 2
  MaxTracked = 1
  EvictDownTo = 1
  RegTokens = {r}
  NoRegToken = nor
  Calls = {c1, c2}
  NoCall = nocall
  MaxPerHour = 1
  MaxInflight = 1
  Hour = 1
  Retention = 1
  Lifetime = 1
  MaxFaults = 1
SYMMETRY Symmetry
INVARIANTS
  SlotsAreHeld
  BlockEnds
PROPERTIES
  EndedTokenMakesNothing
  HourlyCap
