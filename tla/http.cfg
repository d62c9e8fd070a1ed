SPECIFICATION Spec
CONSTANTS
  MAX_BODY = 20
  LONGEST = 3
  Contained <- MCContained
  Requests <- MCRequests
INVARIANTS SeenByLoop ServedWhole AnsweredWhole CutsDontMatter StoredAsSent HandledOnce
PROPERTY ImplementsExchange
CHECK_DEADLOCK FALSE
