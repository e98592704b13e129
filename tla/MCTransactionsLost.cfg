\* What is listed from immudb alone.
CONSTANTS
  Tx = {t1, t2}
  Verify = {r1}
  SepayId = {x1}
  ScanCap = 2
  None = None
SPECIFICATION Spec
INVARIANTS LogSurvivesMysqlLoss
CHECK_DEADLOCK FALSE
