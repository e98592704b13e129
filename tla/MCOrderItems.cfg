CONSTANTS
  Category = {k1, k2}
  Product = {a1}
  Edit = {e1}
  Price = {1, 2}
  Order = {o1}
  Item = {i1, i2}
  Request = {r1, r2}
  Quantity = {1, 2}
  PatchInput = {"CANCELLED"}
  NewLines = 2
  None = None
SPECIFICATION Spec
SYMMETRY Symmetric
INVARIANTS TypeOK TotalMatchesLines LinesAreKept StatusIsKept ReferencesHold
CHECK_DEADLOCK FALSE
