SPECIFICATION ClocksSpec
CONSTANTS
  None = None
  b1 = b1
  b2 = b2
  Browsers = {b1, b2}
  Formats <- ManyFormats
  Prefixes = {"/api/v1", "/v2"}
  MaxIssues = 2
  max <- Maxima
  windowMs <- Lengths
  Horizon = 7
SYMMETRY Symmetry
INVARIANTS TypeOK PowerBounded SignedOutBounded SessionLasts
  LTypeOK SpanBudget NoneRefusedEarly
CHECK_DEADLOCK FALSE
