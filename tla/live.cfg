SPECIFICATION FairSpec
CONSTANTS
  Servers = {s1}
  Fds = {f1}
  Conns = {c1, c2}
  Addrs = {a1, a2}
  NULL = NULL
  MAX_EVENTS = 2
  TIMEOUT = 0
  MAX_IDLE = 1
  Inputs = {"gone", "part"}
  CHUNKS = 2
  Silent = {c2}
  MAX_CHUNKS <- MCChunks
  client_timeout <- MCTimeouts
PROPERTIES BatchCompletes ReadyAnswered QueuedAccepted StopsOnEvent
