SPECIFICATION Spec
CONSTANTS
  t1 = t1
  t2 = t2
  Tabs = {t1, t2}
  Found = {}
  Docs <- OneDoc
  Nda = TRUE
  MaxRows = 1
  MaxRuns = 1
  MaxFaults = 1
INVARIANTS
  PausesAfterRequest
CHECK_DEADLOCK FALSE
