SPECIFICATION Spec
CONSTANTS
  Ids = {direct}
  Broadcasts = {}
  Own = {}
  Namesake = {}
  Pulls = {p1, p2}
  Limit = 1
  MaxRounds = 2
  MaxDeliver = 1
  QuickPulls = TRUE
  MaxCopies = 2
  MaxFaults = 0
INVARIANTS
  NeverHandedOutAgain
