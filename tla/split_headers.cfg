SPECIFICATION Spec
CONSTANTS
  MAX_BODY = 20
  LONGEST = 3
  Contained <- MCContained
  Requests <- MCRequests
INVARIANTS NotABadRequest
CHECK_DEADLOCK FALSE
