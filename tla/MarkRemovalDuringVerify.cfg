SPECIFICATION MarkSpec
CONSTANTS
  d1 = d1
  d2 = d2
  c1 = c1
  c2 = c2
  Domains = {d1, d2}
  MaxRows = 2
  Calls = {c1, c2}
INVARIANT MarkNeedsDomain
CHECK_DEADLOCK FALSE
