SPECIFICATION FairSpec
CONSTANTS
  Fds = {f1, f2}
  Conns = {c1, c2, c3}
  Workers = {w1}
  NULL = NULL
  MAX_FD = 2
  Lifetime = 1
  MaxActs <- OneTalks
CHECK_DEADLOCK FALSE
INVARIANTS
  TypeOK
  OpenHasTimer
PROPERTIES
  StaleFromWorkers
  CountFollowsTimers
  SilentClosed
