SPECIFICATION FanOutSpec
CONSTANTS
  x1 = x1
  x2 = x2
  k1 = k1
  t1 = t1
  t2 = t2
  ssp = ssp
  poam = poam
  Keys = {k1}
  Subs = {x1, x2}
  OscalModels = {ssp, poam}
  Events <- TwoEvents
  Filters <- OnlySsp
  Tasks = {t1, t2}
  MaxRecorded = 2
  MaxStops = 1
  MaxFailures = 2
SYMMETRY Interchangeable
INVARIANTS
  SuspensionWasEarned
  CursorWasHeard
PROPERTY
  TaskReachesAll
CHECK_DEADLOCK FALSE
