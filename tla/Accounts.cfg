SPECIFICATION FairSpec
CONSTANTS
  Workers = {w1, w2}
  Names = {alice}
  Passwords = {Empty, p}
  NULL = NULL
  Empty = Empty
INVARIANTS
  TypeOK
  AckedDurable
  MapFollowsTable
  WelcomeRegistered
PROPERTY Answered
