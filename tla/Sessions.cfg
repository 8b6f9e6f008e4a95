SPECIFICATION Spec
CONSTANTS
  kate = kate
  p1 = p1
  p2 = p2
  t1 = t1
  t2 = t2
  Agents = {kate}
  Names = {n1}
  NoName = noname
  Procs = {p1, p2}
  NoProc = noproc
  MaxActive = 1
  MaxTokens = 2
  Tabs = {t1, t2}
  Operator = operator
  AdminTokens <- AdminToken
  RenewAfter = 0
  IdleMax = 2
  AbsoluteMax = 3
  SignInAge = 0
  FormAge = 0
  MaxNonces = 2
SYMMETRY Symmetry
INVARIANTS
  ActiveUserStays
PROPERTIES
  EndedTokenEndsSessions
  SessionsEnd
