SPECIFICATION FairSpec
CONSTANTS
  w1 = w1
  w2 = w2
  s1 = s1
  ssp = ssp
  poam = poam
  Writers = {w1}
  MaxChanges = 5
  MaxCrashes = 1
  Models = {ssp}
  Streams = {s1}
  MaxDrops = 2
  Pollers = {"all"}
  Wants <- OneFilters
  Limit = 2
PROPERTY
  ImplementsFeed
  UnfilteredPollCatchesUp
CHECK_DEADLOCK FALSE
