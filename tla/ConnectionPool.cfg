SPECIFICATION FairSpec
CONSTANTS
  Threads = {t1, t2, t3}
  Conns = {c1, c2, c3}
  NULL = NULL
  UIntRange = 8
CHECK_DEADLOCK FALSE
INVARIANTS
  TypeOK
  FrontExists
  HandleExclusive
  CountersExact
  NeverShort
  NoUseAfterClose
PROPERTY WaitEnds
