SPECIFICATION Spec
CONSTANTS
  w1 = w1
  w2 = w2
  s1 = s1
  ssp = ssp
  poam = poam
  Writers = {w1, w2}
  MaxChanges = 3
  MaxCrashes = 0
  Models = {ssp}
  Streams = {s1}
  MaxDrops = 0
  Pollers = {}
  Wants <- OneFilters
  Limit = 2
INVARIANT StreamSkipsNothing
CHECK_DEADLOCK FALSE
