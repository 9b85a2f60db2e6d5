SPECIFICATION FanOutSpec
CONSTANTS
  x1 = x1
  x2 = x2
  k1 = k1
  t1 = t1
  t2 = t2
  ssp = ssp
  poam = poam
  Keys = {k1}
  Subs = {x1}
  OscalModels = {ssp}
  Events <- OneEvent
  Filters <- All
  Tasks = {t1}
  MaxRecorded = 2
  MaxStops = 0
  MaxFailures = 2
PROPERTY CutKeyStopsDelivery
CHECK_DEADLOCK FALSE
