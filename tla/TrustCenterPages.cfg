SPECIFICATION Spec
CONSTANTS
  t1 = t1
  t2 = t2
  MaxActs = 4
  Ids = {"a1", "a2"}
  FirstIds = {"a1"}
  Tabs <- MCTabs
  Sections = {"controls", "badges", "claims"}
  Names = {"n1", "n2"}
  MaxTouched = 1
  FirstRows = {"n1"}
  Visitors = {"v1"}
  Reqs = {"r1", "r2"}
  FirstReqs = {"r1"}
SYMMETRY Symmetry
INVARIANTS Inv KeyReachesRequester GrantStaysNarrow
PROPERTIES EditsStay EvidenceIsThere
CHECK_DEADLOCK FALSE
