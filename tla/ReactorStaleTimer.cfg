SPECIFICATION Spec
CONSTANTS
  Fds = {f1, f2}
  Conns = {c1, c2}
  Workers = {w1}
  NULL = NULL
  MAX_FD = 2
  Lifetime = 2
  MaxActs <- AllTalk
CHECK_DEADLOCK FALSE
PROPERTY TickClosesInactive
