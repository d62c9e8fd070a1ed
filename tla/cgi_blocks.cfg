SPECIFICATION FairSpec
CONSTANTS
  CAPACITY = 3
  BUFFER = 2
  MAX_FDS = 4
  MAX_CALLS = 5
  SIZES = {0, 1, 3, 4}
  Scripts <- MCScripts
PROPERTY NonBlocking
CHECK_DEADLOCK FALSE
