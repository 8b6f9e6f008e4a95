SPECIFICATION ProcessSpec
CONSTANTS
  c1 = c1
  c2 = c2
  Calls = {c1, c2}
  MaxGeneration = 3
  MaxDrops = 2
  MaxSlow = 1
  p1 = p1
  p2 = p2
  Servers = {p1, p2}
  NoServer = noserver
  Releases <- MCReleases
  Sealing = 3
  DailyKeep = 1
  BeforeKeep = 1
  MaxDay = 1
  MaxStops = 1
PROPERTIES
  HealsItself
CHECK_DEADLOCK FALSE
