SPECIFICATION Spec
CONSTANTS
  Timers = {t1, t2, t3, t4}
  Times = {1, 2, 3}
  NULL = NULL
SYMMETRY Symmetry
INVARIANTS
  TypeOK
  WellLinked
PROPERTY ImplementsTimerSet
