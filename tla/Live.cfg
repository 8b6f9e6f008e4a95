SPECIFICATION LiveFairSpec
CONSTANTS
  pane = pane
  t1 = t1
  t2 = t2
  c1 = c1
  Conns = {c1}
  MaxStreams = 1
  MaxQueued = 1
  Threads = {t1, t2}
  Comment = comment
  Sections = {pane}
  Pin <- PinDef
  NoThread = nothread
  NoConn = noconn
  NoMarkup = nomarkup
  MaxMessages = 2
  MaxEvents = 2
INVARIANTS
  CaughtUp
PROPERTIES
  EveryMessageShows
