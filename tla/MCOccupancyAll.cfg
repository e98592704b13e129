\* Everything at once: moves, item edits, table edits, payments, failures.
CONSTANTS
  Table = {ta, tb}
  Order = {o1, o2}
  Request = {r1, r2, r3, r4}
  PatchInput = {"PENDING", "COMPLETED"}
  TableInput = {"EMPTY", "OCCUPIED"}
  None = None
SPECIFICATION Spec
SYMMETRY SymmetricTables
INVARIANTS SeatedOrderIsSeen
PROPERTIES LeftTableIsExplained
CHECK_DEADLOCK FALSE
