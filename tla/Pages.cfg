SPECIFICATION PagesSpec
CONSTANTS
  a1 = a1
  a2 = a2
  n1 = n1
  n2 = n2
  p1 = p1
  p2 = p2
  Agents = {a1, a2}
  Names = {n1, n2}
  NoName = noname
  Procs = {p1, p2}
  NoProc = noproc
  MaxActive = 1
  MaxTokens = 2
  Never <- None
  MaxTime = 2
  LiveFor = 1
  StaleFor = 2
  SessionLife = 2
  MaxPending = 1
  NoAgent = noagent
  Nil = nil
  Everybody = everybody
  A = A
  B = B
  C = C
  Kate = kate
  Tom = tom
  Tim = tim
  Tom2 = tom2
  Zoe = zoe
  Ids <- MCIds
  Old = old
  Exchanges <- MCExchanges
  HistoryLimits = {1, 2}
  PerSource = 1
  MaxDrafts = 1
  LastTime = 2
  Green = 1
  Quiet = 2
  Window = 3
  PairsListed = 2
  HistoryListed = 2
  QuietListed = 1
  Today = 5
  Links = {A, B, C}
  MaxInFlight = 1
  MaxEntries = 2
  TitleTtl = 2
  FailureTtl = 1
  LastMoment = 3
SYMMETRY Symmetry
INVARIANTS
  HandshakeIsOwn
  ThreadsAgree
  IncidentsAgree
  BoardTellsTheBall
  NothingWaitsForNobody
PROPERTIES
  PaneStays
CHECK_DEADLOCK FALSE
