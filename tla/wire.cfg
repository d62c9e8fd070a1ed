SPECIFICATION Spec
CONSTANTS
  Servers = {s1}
  Fds = {f1}
  Conns = {c1}
  Addrs = {a1, a2}
  NULL = NULL
  MAX_EVENTS = 2
  TIMEOUT = 1
  MAX_IDLE = 2
  Inputs = {"file", "dir", "gone", "bad", "part"}
  CHUNKS = 3
  Silent = {}
  MAX_CHUNKS <- MCChunks
  client_timeout <- MCTimeouts
INVARIANTS NoAnswerTwice LastWords ArmedInVain
PROPERTY NoAnswerDropped
