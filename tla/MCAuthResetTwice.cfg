SPECIFICATION Spec
CONSTANTS
  None = None
  r1 = r1
  r2 = r2
  r3 = r3
  u1 = u1
  Requests = {u1, r1, r2, r3}
  Registered = {u1}
  Emails = {u1}
  Ops = {"forgot", "reset"}
SYMMETRY Symmetry
INVARIANTS OneTimeReset
CHECK_DEADLOCK FALSE
