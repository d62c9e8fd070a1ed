SPECIFICATION Spec
CONSTANTS
  MAX_BODY = 20
  LONGEST = 3
  Contained <- MCContained
  Requests <- Binary
INVARIANTS UploadAnswered
CHECK_DEADLOCK FALSE
