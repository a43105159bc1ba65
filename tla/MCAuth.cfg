SPECIFICATION Spec
CONSTANTS
  None = None
  r1 = r1
  r2 = r2
  r3 = r3
  u1 = u1
  Requests = {u1, r1, r2, r3}
  Registered = {u1}
  Emails = {u1}
  Ops <- AllOps
SYMMETRY Symmetry
INVARIANTS TypeOK NoStaleSession UniqueEmail
PROPERTIES SpentNeverAccepted ImplementsRegistry UsedResetTokenRefused WelcomeNotLost
CHECK_DEADLOCK FALSE
