SPECIFICATION MCSpec
CONSTANTS
  Ids = {direct, theirs, mine}
  Broadcasts = {theirs, mine}
  Own = {mine}
  Namesake = {}
  Pulls = {p1}
  Counters = {c1}
  Limit = 2
  MaxRounds = 2
  MaxDeliver = 2
  QuickPulls = TRUE
  MaxCopies = 2
  MaxFaults = 2
INVARIANTS
  OncePerReader
  AckedIsAccountedFor
  CountsHideNothing
  UnreadCanCome
