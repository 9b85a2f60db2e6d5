SPECIFICATION Spec
CONSTANTS
  t1 = t1
  t2 = t2
  trust = trust
  status = status
  Tabs = {t1, t2}
  Hosts = {trust, status}
  MaxCalls = 3
  MaxTurns = 1
PROPERTY
  WideLogoStays
CHECK_DEADLOCK FALSE
