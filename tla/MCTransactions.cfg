CONSTANTS
  Tx = {t1, t2}
  Verify = {r1, r2}
  SepayId = {x1, x2}
  ScanCap = 2
  None = None
SPECIFICATION Spec
SYMMETRY Symmetric
INVARIANTS TypeOK IdMeansEntry MissingIdIsExplained ReverifyIsKept
CHECK_DEADLOCK FALSE
