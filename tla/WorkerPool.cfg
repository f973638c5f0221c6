SPECIFICATION Spec
CONSTANTS
  Workers = {w1, w2}
  Requests = {r1, r2}
  m_max_requests = 1
  Conns = {c1, c2}
  NULL = NULL
  UIntRange = 4
SYMMETRY Symmetry
INVARIANTS
  TypeOK
  
  
PROPERTY ImplementsPool
