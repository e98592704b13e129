CONSTANTS
  Request = {r1, r2, r3}
  User = {u1, u2}
  Employee = {e1, e2}
  Name = {n1, n2}
  Email = {m1, m2}
  None = None
SPECIFICATION Spec
SYMMETRY Symmetric
INVARIANTS TypeOK ColumnsAreKept HiredAccountsAreExplained
CHECK_DEADLOCK FALSE
