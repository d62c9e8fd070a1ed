SPECIFICATION Spec
CONSTANTS
  Servers = {s1}
  Fds = {f1, f2}
  Conns = {c1, c2}
  Addrs = {a1, a2, a3}
  NULL = NULL
  MAX_EVENTS = 2
  TIMEOUT = 0
  MAX_IDLE = 1
  Inputs = {"file", "gone", "bad", "part"}
  CHUNKS = 1
  Silent = {}
  MAX_CHUNKS <- MCChunks
  client_timeout <- MCTimeouts
SYMMETRY Symmetric
INVARIANTS IInv TablesAgree NoDanglingPointer OwnConnection NothingForgotten NoOtherLeak
PROPERTY ImplementsConversations
