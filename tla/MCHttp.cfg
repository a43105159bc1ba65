SPECIFICATION HttpSpec
CONSTANTS
  None = None
  c1 = c1
  Clients = {c1}
  Causes = {"uncaughtException"}
  Max = 1
  SensitiveMax = 1
  Called <- Routes
INVARIANTS HTypeOK MailBudget LoggedOnce
PROPERTY BlamesItself
CHECK_DEADLOCK FALSE
