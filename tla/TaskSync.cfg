\* Two peers, clocks of three readings, three writes, one full state on request.
SPECIFICATION Spec
CONSTANTS
  a = a
  b = b
  c = c
  t1 = t1
  Peers = {a, b}
  TaskIds = {t1}
  Nobody = Nobody
  NoTask = NoTask
  Rank <- MCRank
  Statuses = {"open", "deleted"}
  Assignees = {"none"}
  MaxClock = 3
  MaxWrites = 3
  MaxSnapshots = 1
INVARIANTS
  TypeOK
  LatestKnownWins
  Convergence
PROPERTY
  NoRollback
CHECK_DEADLOCK FALSE
