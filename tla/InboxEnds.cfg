SPECIFICATION FairSpec
CONSTANTS
  Ids = {direct}
  Broadcasts = {}
  Own = {}
  Namesake = {}
  Pulls = {p1}
  Limit = 2
  MaxRounds = 2
  MaxDeliver = 2
  QuickPulls = FALSE
  MaxCopies = 2
  MaxFaults = 1
PROPERTIES
  EveryCopyEnds
  ExpiredIsNoted
