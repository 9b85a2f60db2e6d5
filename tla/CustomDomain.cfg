SPECIFICATION FairSpec
CONSTANTS
  t1 = t1
  t2 = t2
  trust = trust
  status = status
  Tabs = {t1, t2}
  Hosts = {trust, status}
  MaxCalls = 3
  MaxTurns = 1
INVARIANTS
  Inv
  ServedWasProved
PROPERTIES
  HostStays
  VerifiedGoesLive
CHECK_DEADLOCK FALSE
