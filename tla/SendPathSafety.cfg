SPECIFICATION Spec
CONSTANTS
  a1 = a1
  a2 = a2
  kate = kate
  max = max
  k_kate = k_kate
  k_max = k_max
  k_new = k_new
  c1 = c1
  c2 = c2
  Agents = {a1, a2}
  Ids = {i1}
  Names = {kate, max}
  BroadcastName = broadcast
  Keys = {k_kate, k_max, k_new}
  Base <- TwoBases
  BroadcastKey = k_all
  NoKey = nokey
  Bodies = {b1}
  Extras = {x1}
  Calls = {c1, c2}
  None = none
  MaxFaults = 1
  MaxCopies = 2
SYMMETRY Symmetry
INVARIANTS
  OneMessagePerId
  AnnouncedOncePerCopy
PROPERTY
  ImplementsMessageLog
