SPECIFICATION FairSpec
CONSTANTS
  a1 = a1
  a2 = a2
  kate = kate
  max = max
  k_kate = k_kate
  k_max = k_max
  k_new = k_new
  c1 = c1
  c2 = c2
  Agents = {a1, a2}
  Ids = {i1}
  Names = {}
  BroadcastName = broadcast
  Keys = {}
  Base <- NoBase
  BroadcastKey = k_all
  NoKey = nokey
  Bodies = {b1}
  Extras = {x1, x2}
  Calls = {c1, c2}
  None = none
  MaxFaults = 2
  MaxCopies = 2
INVARIANTS
  ToldToRepeatCanRepeat
PROPERTY
  RepeatsMendHistory
CHECK_DEADLOCK FALSE
