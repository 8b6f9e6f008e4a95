SPECIFICATION Spec
CONSTANTS
  Ids = {direct, other}
  Broadcasts = {}
  Own = {}
  Namesake = {}
  Pulls = {p1}
  Limit = 2
  MaxRounds = 2
  MaxDeliver = 2
  QuickPulls = FALSE
  MaxCopies = 3
  MaxFaults = 0
INVARIANTS
  KeptIsNotAcked
