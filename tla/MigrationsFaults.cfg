SPECIFICATION Spec
CONSTANTS
  t1 = t1
  t2 = t2
  Tabs = {t1, t2}
  Found = {"faqs"}
  Docs <- TwoDocs
  Nda = TRUE
  MaxRows = 1
  MaxRuns = 3
  MaxFaults = 2
SYMMETRY Symmetry
INVARIANTS
  RowIsTrue
PROPERTIES
  CompletionHolds
CHECK_DEADLOCK FALSE
