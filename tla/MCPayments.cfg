\* Two payments of two orders, two transfers, every failure and edit.
CONSTANTS
  o1 = o1 o2 = o2 p1 = p1 p2 = p2
  Order = {o1, o2}
  Payment = {p1, p2}
  Transfer = {t1, t2}
  Request = {r1, r2}
  OrderOf <- OrderPerPayment
  PatchInput = {"CANCELLED"}
  None = None
SPECIFICATION Spec
SYMMETRY Symmetric
INVARIANTS TypeOK LoggedIsSettled EvidenceIsGenuine UnloggedIsExplained
PROPERTIES CompletedIsFinal ImplementsLedger
CHECK_DEADLOCK FALSE
