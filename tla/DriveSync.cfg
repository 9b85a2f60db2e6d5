SPECIFICATION Spec
CONSTANTS
  f1 = f1
  c1 = c1
  c2 = c2
  Files = {f1}
  Verdict <- Included
  Calls = {c1, c2}
  MaxRows = 2
  MaxArtifacts = 2
  MaxRevision = 2
  MaxVersion = 3
  MaxLinks = 2
  MaxCalls = 3
SYMMETRY Interchangeable
INVARIANTS
  OneOfEach
  HistoryIsWhole
  SyncCatchesUp
PROPERTIES
  PublicationHadConsent
CHECK_DEADLOCK FALSE
