\* Paying a table with two orders pays one and completes both.
CONSTANTS
  ta = ta tb = tb
  Table = {ta, tb}
  TableOf <- TableOfOrder
  Job = {1, 2}
  NoTable = NoTable
  Row = {x1}
  Call = {1}
  None = None
SPECIFICATION Spec
INVARIANTS CompletedWerePaid
CHECK_DEADLOCK FALSE
