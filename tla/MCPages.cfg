\* Every page by itself; two orders at one table and one at another.
CONSTANTS
  ta = ta tb = tb
  Table = {ta, tb}
  TableOf <- TableOfOrder
  Job = {1, 2}
  NoTable = NoTable
  Row = {x1, x2}
  Call = {1, 2, 3, 4}
  None = None
SPECIFICATION Spec
SYMMETRY Symmetric
INVARIANTS TypeOK OwnChangesShow FormMakesOneRow PanelIsOneEmployees CompletedWereBilled
CHECK_DEADLOCK FALSE
