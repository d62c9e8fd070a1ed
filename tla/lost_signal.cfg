SPECIFICATION FairSpec
CONSTANTS
  Servers = {s1}
  Fds = {f1}
  Conns = {c1}
  Addrs = {a1, a2}
  NULL = NULL
  MAX_EVENTS = 2
  TIMEOUT = 1
  MAX_IDLE = 2
  Inputs = {"file", "part"}
  CHUNKS = 2
  Silent = {}
  MAX_CHUNKS <- MCChunks
  client_timeout <- MCTimeouts
PROPERTY SignalStops
