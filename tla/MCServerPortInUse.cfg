SPECIFICATION Spec
CONSTANTS
  None = None
  c1 = c1
  c2 = c2
  Clients = {c1, c2}
  Causes = {"SIGTERM", "uncaughtException"}
INVARIANTS FailedStartFails
CHECK_DEADLOCK FALSE
