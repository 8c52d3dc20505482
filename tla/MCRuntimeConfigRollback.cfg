SPECIFICATION Spec
CONSTANTS
  x = x
  y = y
  s1 = s1
  s2 = s2
  t1 = t1
  t2 = t2
  Names = {x, y}
  Settings = {s1, s2}
  Telemetries = {t1, t2}
  Configs <- MCConfigs
  Initial <- MCInitial
  Calls = {c1, c2}
  Boot = Boot
  NoCall = NoCall
  Absent = Absent
INVARIANTS
  RollbackRestoresUpstreams
CHECK_DEADLOCK FALSE
