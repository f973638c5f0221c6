SPECIFICATION FairSpec
CONSTANTS
  Writers = {w1, w2}
  log_thread = log_thread
  MaxLines = 2
  Days = 2
  m_split_lines = 2
  m_max_size = 2
  NULL = NULL
CHECK_DEADLOCK FALSE
INVARIANTS
  TypeOK
  EachLineOnce
  OrderKept
  
PROPERTIES
  ImplementsFifo
  Drained
