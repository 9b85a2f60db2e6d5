SPECIFICATION Spec
CONSTANTS
  w1 = w1
  w2 = w2
  s1 = s1
  ssp = ssp
  poam = poam
  Writers = {w1, w2}
  MaxChanges = 3
  MaxCrashes = 2
  Models = {ssp, poam}
  Streams = {s1}
  MaxDrops = 2
  Pollers = {"filtering"}
  Wants <- OneFilters
  Limit = 2
INVARIANTS
  Gapless
  LostOnlyToCrashes
  StreamMissesNothing
  PollMissesOnlyRaces
CHECK_DEADLOCK FALSE
