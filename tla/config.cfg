SPECIFICATION WrittenSpec
CONSTANTS
  PORTS = 65536
  SIZES = 65536
  MAX_SERVERS = 2
  MAX_LINES = 6
  Indeterminate = Indeterminate
  Lines <- MCLines
  Number <- MCNumber
  Uris <- MCUris
INVARIANTS TypeOK AllBound UploadFlagKnown LocationFound LongestPrefix AsWritten
CHECK_DEADLOCK FALSE
