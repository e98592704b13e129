CONSTANTS
  k1 = k1
  k2 = k2
  a1 = a1
  Request = {r1, r2, r3, r4}
  ClientCalls = 3
  ApiKey = {k1, k2}
  Account = {a1, a2}
  EnvKey = k2
  EnvAccount = a2
  None = None
  Owner <- OwnerOf
SPECIFICATION Spec
SYMMETRY Symmetric
INVARIANTS TypeOK SettingsAreLastWritten AccountBelongsToKey
PROPERTIES ReadsFollowWrites
CHECK_DEADLOCK FALSE
