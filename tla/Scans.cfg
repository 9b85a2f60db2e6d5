SPECIFICATION FairSpec
CONSTANTS
  t1 = t1
  Tabs = {t1}
  Server <- ThreeTools
  STATIC_CONTROLS <- TwoControls
  Clauses <- OneClause
  Probes <- AllReadOnly
  Verdicts <- OneFails
  Scores <- Grave
  MaxScans = 1
  MaxRuns = 2
  MaxTurns = 2
  MaxCredentials = 1
  MaxCalls = 2
  MaxFaults = 1
INVARIANTS
  Inv
  ScoreIsBacked
  FinishedIsWhole
PROPERTIES
  ScansEnd
CHECK_DEADLOCK FALSE
