\* Settled payments reach their order, with failures and staff edits.
CONSTANTS
  o1 = o1 o2 = o2 p1 = p1 p2 = p2
  Order = {o1}
  Payment = {p1}
  Transfer = {t1}
  Request = {r1, r2}
  OrderOf <- OneOrder
  PatchInput = {"PENDING", "CANCELLED"}
  None = None
SPECIFICATION FairSpec
PROPERTIES CompletionReachesOrder NeverReopened
CHECK_DEADLOCK FALSE
