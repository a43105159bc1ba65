SPECIFICATION Spec
CONSTANTS
  None = None
  r1 = r1
  r2 = r2
  u1 = u1
  Requests = {u1, r1, r2}
  Registered = {u1}
  Emails = {u1}
  Ops = {"login", "change"}
SYMMETRY Symmetry
INVARIANTS PasswordChangeRevokesSessions
CHECK_DEADLOCK FALSE
