SPECIFICATION FairSpec
CONSTANTS
  Procs = {p1, p2}
  Messages = {m1, m2}
  Window = 3
  Lease = 3
  Interval = 3
  RetryDelays <- MCRetryDelays
  Deferral = 6
  CallTime = 1
  DisableAfter = 2
  None = None
  MaxSets = 2
  MaxFaults = 2
INVARIANTS
  NothingSlipsThrough
  NotCalledTwiceAtOnce
PROPERTIES
  ReplacedHookLeftAlone
  EveryMessageSettles
