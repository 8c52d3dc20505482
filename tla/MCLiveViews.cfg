SPECIFICATION FairViews
CONSTANTS
  a = a
  b = b
  Upstreams = {a, b}
  RegisteredFirst = {a}
  Kinds <- MCKinds
  Fade <- MCFade
  Windows = {60, 300}
  SnapshotLimit = 1
  QueueMax = 1
  ListLimit = 1
  TableMax = 1
  Buckets = 2
  Width = 2
  MaxTime = 4
  MaxRecords = 2
  MaxChanges = 1
  MaxPolls = 2
  MaxOutages = 1
INVARIANTS TableIsComplete ChartIsHistogram GraphIsExact
PROPERTIES OnePulsePerFrame PageCatchesUp
CHECK_DEADLOCK FALSE
