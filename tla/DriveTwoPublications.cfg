SPECIFICATION Spec
CONSTANTS
  f1 = f1
  c1 = c1
  c2 = c2
  Files = {f1}
  Verdict <- Included
  Calls = {c1, c2}
  MaxRows = 1
  MaxArtifacts = 1
  MaxRevision = 2
  MaxVersion = 3
  MaxLinks = 1
  MaxCalls = 3
SYMMETRY Interchangeable
INVARIANT
  HashIsOfBytes
CHECK_DEADLOCK FALSE
