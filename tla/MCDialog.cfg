\* Two sales, two payments, two instances of the dialog, late answers.
CONSTANTS
  Sale = {s1, s2}
  Payment = {p1, p2}
  Mount = {m1, m2}
  Call = {c1, c2}
  None = None
SPECIFICATION FairSpec
INVARIANTS TypeOK SuccessIsEarned ShownQrIsPolled OrderedTwiceOnRequest
PROPERTIES PollersStop CreatingEnds
CHECK_DEADLOCK FALSE
