SPECIFICATION Spec
CONSTANTS
  a1 = a1
  a2 = a2
  o1 = o1
  o2 = o2
  k1 = k1
  k2 = k2
  NoKey = NoKey
  Artifacts = {a1, a2}
  MaxRequests = 1
  Keys = {k1, k2}
  Limits <- AllOrOne
  Forms <- OneBuyer
  Policies <- NoRule
  OwnerCalls = {o1}
  ReclaimCalls = {"i1"}
  ReaderCalls = {"b1"}
  MaxTime = 2
  KeyTtl = 1
  UrlTtl = 1
  MaxUrls = 1
INVARIANT RevokingEndsAccess
CHECK_DEADLOCK FALSE
