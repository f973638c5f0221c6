SPECIFICATION FairSpec
CONSTANTS
  Workers = {w1, w2}
  Requests = {r1, r2}
  m_max_requests = 2
  NULL = NULL
CHECK_DEADLOCK FALSE
INVARIANTS
  TypeOK
  WakeupPerJob
PROPERTIES
  JobsRun
