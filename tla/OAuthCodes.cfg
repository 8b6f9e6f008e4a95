SPECIFICATION OAuthSpec
CONSTANTS
  a1 = a1
  p1 = p1
  p2 = p2
  k1 = k1
  k2 = k2
  c1 = c1
  c2 = c2
  s1 = s1
  s2 = s2
  Agents = {a1}
  Names = {n}
  NoName = noname
  Procs = {p1, p2}
  NoProc = noproc
  MaxActive = 1
  MaxTokens = 1
  Clients = {x}
  Guards = {p1, p2}
  FailureLimit = 1
  FailureWindow = 2
  MaxTracked = 1
  EvictDownTo = 1
  Connectors = {k1, k2}
  NoPage = nopage
  Codes = {c1, c2}
  Secrets = {s1, s2}
  NoSecret = nosecret
  AdminTokens = {admin}
  CodeLife = 2
SYMMETRY Symmetry
INVARIANTS
  GoodCodeWorks
PROPERTIES
  OneTryForItsConnector
