\* Orders are created, ended, reopened and deleted concurrently at one table.
CONSTANTS
  Table = {ta}
  Order = {o1, o2, o3}
  Request = {r1, r2, r3}
  PatchInput = {"PENDING", "COMPLETED"}
  TableInput = {"EMPTY", "RESERVED"}
  None = None
SPECIFICATION FairServeSpec
INVARIANTS NoStuckTable
PROPERTIES TablesAreReleased RequestsAreAnswered
CHECK_DEADLOCK FALSE
