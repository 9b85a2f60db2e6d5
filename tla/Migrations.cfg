SPECIFICATION FairSpec
CONSTANTS
  t1 = t1
  t2 = t2
  Tabs = {t1, t2}
  Found = {"faqs"}
  Docs <- TwoDocs
  Nda = TRUE
  MaxRows = 1
  MaxRuns = 3
  MaxFaults = 1
INVARIANTS
  RowIsTrue
PROPERTIES
  CompletionHolds
  PhasesEnd
CHECK_DEADLOCK FALSE
