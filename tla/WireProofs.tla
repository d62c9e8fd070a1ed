----------------------------- MODULE WireProofs -----------------------------
(***************************************************************************)
(* What the event loop writes to a connection, when, and for what: for any *)
(* number of servers, descriptors, connections and addresses.              *)
(***************************************************************************)
EXTENDS ConversationsProofs, FiniteSetTheorems

Waiting(c)    == rx[c] # <<>> \/ peer[c] \in {"shut", "reset"}
JustAnswered(c) == tx[c] # <<>> /\ tx[c][Len(tx[c])] \in {"page", "cut"}

(* What epoll_wait said of a client stays true until its entry is handled. *)
EntriesHold ==
  \A e \in request : LiveClientNode(e.ptr) =>
    LET n == heap[e.ptr] IN
    /\ "IN" \in e.events => Waiting(n.client)
    /\ "OUT" \in e.events => "OUT" \in epoll[n.fd].events

(* A client that is read while its answer waits has sent more, or left;    *)
(* one that is written to has an answer ready, or has just had one.        *)
HandHolds ==
  /\ pc = "recv" /\ me.ex.state = "RS_READY" => Waiting(to)
  /\ pc = "send" => me.ex.state = "RS_READY" \/ (me.ex = NewExchange /\ JustAnswered(to))

(* What NoAnswerTwice counts as due, and an error that waits to be said:   *)
(* each takes a piece of what was read.                                    *)
Owed(c) ==
  IF client[c] # NULL /\ client[c].ex.state \in {"RS_READY", "RS_CLOSE"} /\ ~Past(c)
    THEN 1 ELSE 0
Paid == \A c \in Conns : Cardinality(Answers(c)) + Owed(c) <= sent[c] - Len(rx[c])

-----------------------------------------------------------------------------
(* What is armed, and who waits.                                           *)

ArmedAt(a) ==
  "OUT" \in epoll[heap[a].fd].events /\ client[heap[a].client].ex = NewExchange
    => JustAnswered(heap[a].client)

HInv == RInv /\ EntriesHold /\ HandHolds /\ ArmedInVain

LEMMA Armed ==
  ArmedInVain <=> \A a \in Addrs : LiveClientNode(a) /\ (cur = NULL \/ cur.ptr # a) => ArmedAt(a)
BY DEF ArmedInVain, ArmedAt, JustAnswered

(* Two nodes have two descriptors and two clients.                         *)
LEMMA Apart ==
  ASSUME RInv, pc # "ended", NEW a \in Addrs, LiveClientNode(a), NEW b \in Addrs,
         LiveClientNode(b), a # b
  PROVE  /\ heap[a].fd \in Fds /\ heap[a].client \in Conns
         /\ heap[a].fd # heap[b].fd /\ heap[a].client # heap[b].client
<1>1. /\ heap[a].fd \in Fds /\ heap[a].client \in Conns /\ node_map[heap[a].fd] = a
      /\ sock[heap[a].fd] = heap[a].client
  BY LiveClient DEF RInv
<1>2. /\ heap[b].fd \in Fds /\ heap[b].client \in Conns /\ node_map[heap[b].fd] = b
      /\ sock[heap[b].fd] = heap[b].client
  BY LiveClient DEF RInv
<1>3. heap[a].client # heap[b].client
  BY <1>1, <1>2, OneDescriptor, ConstantsAssumption DEF RInv
<1> QED BY <1>1, <1>2, <1>3

(* A handler changes nothing of the clients it does not handle.            *)
LEMMA OthersHold ==
  ASSUME HInv, pc \in InHand, UNCHANGED <<request, peer>>,
         \A a \in Addrs \ {cur.ptr} : heap'[a] = heap[a],
         \A fd \in Fds \ {node.fd} : epoll'[fd] = epoll[fd],
         \A c \in Conns \ {node.client} : client'[c] = client[c] /\ tx'[c] = tx[c] /\ rx'[c] = rx[c]
  PROVE  /\ EntriesHold'
         /\ \A a \in Addrs \ {cur.ptr} : LiveClientNode(a)' => ArmedAt(a)'
<1>1. RInv /\ EntriesHold /\ IInv /\ pc # "ended"
  BY DEF HInv, RInv, InHand
<1>2. /\ LiveClientNode(cur.ptr) /\ cur.ptr \in Addrs /\ heap[cur.ptr] = node /\ cur # NULL
      /\ \A e \in request : e.ptr \in Addrs \ {cur.ptr}
  <2>1. NoDanglingPointer /\ request \in SUBSET Entry /\ Control
    BY <1>1 DEF IInv, TypeOK
  <2>2. cur.ptr \in Addrs
    BY <1>1, Handled
  <2> QED BY <2>1, <2>2 DEF NoDanglingPointer, Entry, Control, node
<1>3. ASSUME NEW a \in Addrs \ {cur.ptr}, LiveClientNode(a)'
      PROVE  /\ LiveClientNode(a) /\ heap'[a] = heap[a] /\ heap[a].fd \in Fds
             /\ heap[a].client \in Conns \ {node.client}
             /\ epoll'[heap[a].fd] = epoll[heap[a].fd]
  <2>1. LiveClientNode(a) /\ heap'[a] = heap[a]
    BY <1>3 DEF LiveClientNode, Live
  <2> QED BY <1>1, <1>2, <2>1, Apart
<1>4. EntriesHold'
  <2> SUFFICES ASSUME NEW e \in request, LiveClientNode(e.ptr)'
               PROVE  /\ "IN" \in e.events => Waiting(heap[e.ptr].client)'
                      /\ "OUT" \in e.events => "OUT" \in epoll'[heap'[e.ptr].fd].events
    BY DEF EntriesHold
  <2>1. PICK a \in Addrs \ {cur.ptr} : a = e.ptr
    BY <1>2
  <2>2. /\ LiveClientNode(a) /\ heap'[a] = heap[a] /\ heap[a].client \in Conns \ {node.client}
        /\ epoll'[heap[a].fd] = epoll[heap[a].fd]
    BY <1>3, <2>1
  <2>3. /\ "IN" \in e.events => Waiting(heap[a].client)
        /\ "OUT" \in e.events => "OUT" \in epoll[heap[a].fd].events
    BY <1>1, <2>1, <2>2 DEF EntriesHold
  <2> QED BY <2>1, <2>2, <2>3 DEF Waiting
<1>5. ASSUME NEW a \in Addrs \ {cur.ptr}, LiveClientNode(a)' PROVE ArmedAt(a)'
  <2>1. ArmedAt(a)
    BY <1>2, <1>3, <1>5, Armed DEF HInv
  <2> QED BY <1>3, <1>5, <2>1 DEF ArmedAt, JustAnswered
<1> QED BY <1>4, <1>5

(* A connection that is closed has nothing left to be armed.               *)
LEMMA ClosedHolds ==
  ASSUME HInv, close_client
  PROVE  EntriesHold' /\ HandHolds' /\ ArmedInVain'
<1>0. pc = "close" /\ pc \in InHand /\ UNCHANGED <<request, peer, rx>>
  BY DEF close_client, InHand
<1>1. RInv /\ IInv /\ pc # "ended"
  BY <1>0 DEF HInv, RInv
<1>2. /\ cur.ptr \in Addrs /\ node.fd \in Fds /\ node.client \in Conns /\ to = node.client
      /\ sock[node.fd] = node.client
  BY <1>0, <1>1, ClientInHand
<1>3. /\ client \in [Conns -> Client \cup {NULL}] /\ heap \in [Addrs -> t_node \cup {NULL}]
      /\ epoll \in [Handles -> Entry \cup {NULL}] /\ tx \in [Conns -> Seq(Wire)]
      /\ Fds \subseteq Handles
  BY <1>1 DEF IInv, TypeOK, Handles
<1>4. /\ heap' = [heap EXCEPT ![cur.ptr] = NULL] /\ epoll' = [epoll EXCEPT ![node.fd] = NULL]
      /\ client' = [client EXCEPT ![node.client] = NULL] /\ pc' = "dispatch" /\ cur' = NULL
      /\ tx' = tx \/ \E s : tx' = [tx EXCEPT ![node.client] = s]
  BY <1>2 DEF close_client, delete_client, BackToBatch, Write, WriteNothing
<1>5. /\ \A a \in Addrs \ {cur.ptr} : heap'[a] = heap[a]
      /\ \A fd \in Fds \ {node.fd} : epoll'[fd] = epoll[fd]
      /\ \A c \in Conns \ {node.client} : client'[c] = client[c] /\ tx'[c] = tx[c] /\ rx'[c] = rx[c]
  BY <1>0, <1>2, <1>3, <1>4
<1>6. /\ EntriesHold'
      /\ \A a \in Addrs \ {cur.ptr} : LiveClientNode(a)' => ArmedAt(a)'
  BY <1>0, <1>5, OthersHold
<1>7. \A a \in Addrs : LiveClientNode(a)' => a # cur.ptr
  BY <1>2, <1>3, <1>4 DEF LiveClientNode, Live
<1>8. \A a \in Addrs : LiveClientNode(a)' => ArmedAt(a)'
  BY <1>6, <1>7
<1> QED BY <1>4, <1>6, <1>8 DEF HandHolds, ArmedInVain, ArmedAt, JustAnswered

LEMMA RecvDataHolds ==
  ASSUME HInv, recv_data
  PROVE  EntriesHold' /\ HandHolds' /\ ArmedInVain'
<1>0. /\ RInv /\ IInv /\ pc = "recv" /\ pc \in InHand
      /\ UNCHANGED <<request, peer, sock, tx, epoll, node_map, heap>>
  BY DEF HInv, RInv, recv_data, InHand
<1>1. PICK n \in 1..Len(rx[to]) :
        LET ex == process(me.ex, SubSeq(rx[to], 1, n)) IN
        /\ rx' = [rx EXCEPT ![to] = SubSeq(@, n + 1, Len(@))]
        /\ client' = [client EXCEPT ![node.client] =
             [socket |-> @.socket, ex |-> ex,
              idle |-> IF Breaks(ex) /\ "OUT" \in cur.events THEN 0 ELSE @.idle]]
        /\ \/ pc' = "last" /\ cur' = cur
           \/ ~Breaks(ex) /\ pc' = pc /\ cur' = cur
           \/ Breaks(ex) /\ pc' = "send" /\ cur' = cur
           \/ Breaks(ex) /\ pc' = "dispatch" /\ cur' = NULL
  BY DEF recv_data, BackToBatch
<1> DEFINE ex == process(me.ex, SubSeq(rx[to], 1, n))
           new == [socket |-> me.socket, ex |-> ex,
                   idle |-> IF Breaks(ex) /\ "OUT" \in cur.events THEN 0 ELSE me.idle]
<1>2. /\ client' = [client EXCEPT ![node.client] = new]
      /\ \/ pc' = "last" /\ cur' = cur
         \/ ~Breaks(ex) /\ pc' = pc /\ cur' = cur
         \/ Breaks(ex) /\ pc' = "send" /\ cur' = cur
         \/ Breaks(ex) /\ pc' = "dispatch" /\ cur' = NULL
  BY <1>1 DEF me
<1>3. new.ex = ex /\ new.socket = me.socket
  OBVIOUS
<1> HIDE DEF ex, new
<1>4. /\ node.client \in Conns /\ to = node.client /\ cur.ptr \in Addrs /\ heap[cur.ptr] = node
      /\ client[node.client] = me /\ cur # NULL /\ sock[node.fd] = node.client
      /\ me.socket = node.fd
  BY <1>0, ClientInHand DEF IInv, Control
<1>5. client \in [Conns -> Client \cup {NULL}] /\ rx \in [Conns -> Seq(Chunk)]
  BY <1>0 DEF IInv, TypeOK
<1>6. \A c \in Conns \ {node.client} : client'[c] = client[c] /\ tx'[c] = tx[c] /\ rx'[c] = rx[c]
  BY <1>0, <1>1, <1>2, <1>4, <1>5
<1>7. /\ EntriesHold'
      /\ \A a \in Addrs \ {cur.ptr} : LiveClientNode(a)' => ArmedAt(a)'
  BY <1>0, <1>6, OthersHold
<1>8. client'[node.client].ex = ex
  BY <1>2, <1>3, <1>4, <1>5
<1>9. ex.state = "RS_READY" => ex # NewExchange
  BY WordsOf
<1>10. HandHolds'
  <2>1. pc' # "dispatch" => node' = node /\ me'.ex = ex
    BY <1>0, <1>2, <1>8 DEF node, me
  <2> QED BY <1>0, <1>2, <2>1 DEF HandHolds, Breaks
<1>11. ArmedInVain'
  <2>1. ASSUME pc' = "dispatch", LiveClientNode(cur.ptr) PROVE
        client'[heap'[cur.ptr].client].ex # NewExchange
    BY <1>0, <1>2, <1>4, <1>8, <1>9, <2>1 DEF Breaks
  <2>2. ASSUME NEW a \in Addrs, LiveClientNode(a)', cur' = NULL \/ cur'.ptr # a PROVE ArmedAt(a)'
    <3>1. CASE a # cur.ptr
      BY <1>7, <2>2, <3>1
    <3>2. CASE a = cur.ptr
      <4>1. pc' = "dispatch" /\ LiveClientNode(cur.ptr)
        BY <1>0, <1>2, <1>4, <2>2, <3>2 DEF LiveClientNode, Live
      <4> QED BY <2>1, <3>2, <4>1 DEF ArmedAt
    <3> QED BY <3>1, <3>2
  <2> QED BY <2>2 DEF ArmedInVain, ArmedAt, JustAnswered
<1> QED BY <1>7, <1>10, <1>11

(* A connection that is given up stays in hand until it is closed.         *)
LEMMA FailsHold ==
  ASSUME HInv, recv_fails \/ send_fails \/ send_file_fails \/ send_last
  PROVE  EntriesHold' /\ HandHolds' /\ ArmedInVain'
<1>1. /\ UNCHANGED <<request, peer, rx, heap, epoll, client, cur, sock>> /\ pc \in InHand
      /\ pc' \in {"last", "close"} /\ (tx' = tx \/ \E s : tx' = [tx EXCEPT ![to] = s])
  BY DEF recv_fails, send_fails, send_file_fails, send_last, AfterLast, InHand, kernel, tables,
         Write, WriteNothing
<1>2. /\ to = node.client /\ to \in Conns /\ tx \in [Conns -> Seq(Wire)] /\ RInv
      /\ cur # NULL /\ cur.ptr \in Addrs
  BY <1>1, ClientInHand DEF HInv, RInv, IInv, TypeOK, Control
<1>3. \A c \in Conns \ {node.client} : tx'[c] = tx[c]
  BY <1>1, <1>2
<1>4. /\ EntriesHold'
      /\ \A a \in Addrs \ {cur.ptr} : LiveClientNode(a)' => ArmedAt(a)'
  BY <1>1, <1>3, OthersHold
<1>5. ArmedInVain'
  <2>1. ASSUME NEW a \in Addrs, LiveClientNode(a)', cur' = NULL \/ cur'.ptr # a PROVE ArmedAt(a)'
    BY <1>1, <1>2, <1>4, <2>1
  <2> QED BY <2>1 DEF ArmedInVain, ArmedAt, JustAnswered
<1> QED BY <1>1, <1>4, <1>5 DEF HandHolds

LEMMA SendResponseHolds ==
  ASSUME HInv, send_response
  PROVE  EntriesHold' /\ HandHolds' /\ ArmedInVain'
<1>0. /\ RInv /\ IInv /\ pc = "send" /\ pc \in InHand
      /\ UNCHANGED <<request, peer, rx, heap, epoll>>
  BY DEF HInv, RInv, send_response, InHand
<1>1. /\ node.client \in Conns /\ to = node.client /\ cur.ptr \in Addrs /\ heap[cur.ptr] = node
      /\ client \in [Conns -> Client \cup {NULL}] /\ tx \in [Conns -> Seq(Wire)]
  BY <1>0, ClientInHand DEF IInv, TypeOK, InHand
<1>2. \/ pc' = "file" /\ cur' = cur /\ client' = client
      \/ pc' = "dispatch" /\ cur' = NULL /\ client' = [client EXCEPT ![node.client].ex = NewExchange]
  BY DEF send_response, Clear_exchange, BackToBatch
<1>3. \/ tx' = tx /\ me.ex \in {Reading, NewExchange}
      \/ \E w \in {"page", "cut"} : tx' = [tx EXCEPT ![to] = Append(@, w)]
  BY <1>0, ResponseSent
<1>4. \A c \in Conns \ {node.client} : client'[c] = client[c] /\ tx'[c] = tx[c]
  BY <1>1, <1>2, <1>3
<1>5. /\ EntriesHold'
      /\ \A a \in Addrs \ {cur.ptr} : LiveClientNode(a)' => ArmedAt(a)'
  BY <1>0, <1>4, OthersHold
<1> PICK c \in Conns : c = node.client
  BY <1>1
<1>6. JustAnswered(c)'
  <2>1. CASE tx' = tx /\ me.ex \in {Reading, NewExchange}
    <3>1. me.ex.state # "RS_READY"
      BY <2>1, WordsOf
    <3>2. JustAnswered(to)
      BY <1>0, <3>1 DEF HInv, HandHolds
    <3> QED BY <1>0, <1>1, <2>1, <3>2 DEF JustAnswered
  <2>2. CASE \E w \in {"page", "cut"} : tx' = [tx EXCEPT ![to] = Append(@, w)]
    <3>1. PICK w \in {"page", "cut"} : tx' = [tx EXCEPT ![to] = Append(@, w)]
      BY <2>2
    <3>2. tx'[c] = Append(tx[c], w) /\ tx[c] \in Seq(Wire)
      BY <1>1, <3>1
    <3>3. tx'[c] # <<>> /\ tx'[c][Len(tx'[c])] = w
      BY <3>2, AppendLast
    <3> QED BY <3>3 DEF JustAnswered
  <2> QED BY <1>3, <2>1, <2>2
<1>7. ArmedInVain'
  <2>1. ASSUME NEW a \in Addrs, LiveClientNode(a)', cur' = NULL \/ cur'.ptr # a PROVE ArmedAt(a)'
    <3>1. CASE a # cur.ptr
      BY <1>5, <2>1, <3>1
    <3>2. CASE a = cur.ptr
      BY <1>0, <1>1, <1>6, <3>2 DEF ArmedAt
    <3> QED BY <3>1, <3>2
  <2> QED BY <2>1 DEF ArmedInVain, ArmedAt, JustAnswered
<1> QED BY <1>2, <1>5, <1>7 DEF HandHolds

LEMMA SendFileHolds ==
  ASSUME HInv, send_file
  PROVE  EntriesHold' /\ HandHolds' /\ ArmedInVain'
<1>0. /\ RInv /\ IInv /\ pc = "file" /\ pc \in InHand /\ UNCHANGED <<request, peer, rx, heap>>
      /\ pc' = "dispatch" /\ cur' = NULL
  BY DEF HInv, RInv, send_file, BackToBatch, InHand
<1>1. /\ node.client \in Conns /\ to = node.client /\ cur.ptr \in Addrs /\ heap[cur.ptr] = node
      /\ node.fd \in Fds /\ epoll[node.fd] \in Entry /\ epoll \in [Handles -> Entry \cup {NULL}]
      /\ client \in [Conns -> Client \cup {NULL}] /\ tx \in [Conns -> Seq(Wire)]
  BY <1>0, ClientInHand, Handled DEF IInv, TypeOK, InHand
<1>2. /\ client' = [client EXCEPT ![node.client].ex = NewExchange]
      /\ epoll' = [epoll EXCEPT ![node.fd] = [events |-> {"IN"}, ptr |-> cur.ptr]]
      /\ tx' = tx \/ \E w \in Wire : tx' = [tx EXCEPT ![to] = Append(@, w)]
  BY <1>1, NullAssumption DEF send_file, Clear_exchange, epoll_mod, Wire, Write, WriteNothing
<1>3. /\ \A c \in Conns \ {node.client} : client'[c] = client[c] /\ tx'[c] = tx[c]
      /\ \A fd \in Fds \ {node.fd} : epoll'[fd] = epoll[fd]
  BY <1>1, <1>2 DEF Handles
<1>4. /\ EntriesHold'
      /\ \A a \in Addrs \ {cur.ptr} : LiveClientNode(a)' => ArmedAt(a)'
  BY <1>0, <1>3, OthersHold
<1>5. "OUT" \notin epoll'[node.fd].events
  BY <1>1, <1>2 DEF Handles
<1>6. ArmedInVain'
  <2>1. ASSUME NEW a \in Addrs, LiveClientNode(a)' PROVE ArmedAt(a)'
    <3>1. CASE a # cur.ptr
      BY <1>4, <2>1, <3>1
    <3>2. CASE a = cur.ptr
      BY <1>0, <1>1, <1>5, <3>2 DEF ArmedAt
    <3> QED BY <3>1, <3>2
  <2> QED BY <2>1 DEF ArmedInVain, ArmedAt, JustAnswered
<1> QED BY <1>0, <1>4, <1>6 DEF HandHolds

(* A new client is not armed to be written to.                             *)
LEMMA NewClientHolds ==
  ASSUME HInv, NEW e \in request, new_client_setup(e)
  PROVE  EntriesHold' /\ HandHolds' /\ ArmedInVain'
<1> USE ConstantsAssumption, NullAssumption
<1>0. /\ RInv /\ IInv /\ pc = "dispatch" /\ pc # "ended" /\ UNCHANGED <<peer, tx, rx, pc, cur>>
      /\ request' = request \ {e} /\ cur = NULL
  BY DEF HInv, RInv, new_client_setup, IInv, Control, InHand
<1>1. /\ client \in [Conns -> Client \cup {NULL}] /\ heap \in [Addrs -> t_node \cup {NULL}]
      /\ epoll \in [Handles -> Entry \cup {NULL}] /\ sock \in [Fds -> Conns \cup {NULL}]
      /\ request \in SUBSET Entry /\ backlog \in [Servers -> SUBSET Conns]
      /\ node_map \in [Handles -> Addrs \cup {NULL}]
  BY <1>0 DEF IInv, TypeOK
<1>2. PICK s \in Servers : s = heap[e.ptr].server
  <2>1. e.ptr \in Addrs /\ heap[e.ptr] # NULL
    BY <1>0, <1>1 DEF IInv, NoDanglingPointer, Live, Entry
  <2> QED BY <1>1, <2>1 DEF t_node
<1>3. PICK c \in backlog[s], fd \in {d \in Fds : sock[d] = NULL}, b \in {d \in Addrs : heap[d] = NULL} :
        /\ client' = [client EXCEPT ![c] = NewClient(fd)]
        /\ add_to_node(b, ClientNode(s, fd, c))
        /\ epoll' = [epoll EXCEPT ![fd] = [events |-> {"IN"}, ptr |-> b]]
  <2>1. PICK c \in backlog[heap[e.ptr].server], fd \in {d \in Fds : sock[d] = NULL},
              b \in {d \in Addrs : heap[d] = NULL} :
          /\ client' = [client EXCEPT ![c] = NewClient(fd)]
          /\ add_to_node(b, ClientNode(heap[e.ptr].server, fd, c))
          /\ epoll' = [epoll EXCEPT ![fd] = [events |-> {"IN"}, ptr |-> b]]
    BY ZenonT(40) DEF new_client_setup
  <2> QED BY <1>2, <2>1
<1>4. c \in Conns /\ client[c] = NULL /\ node_map[fd] = NULL
  BY <1>0, <1>1, <1>3 DEF IInv, QueueFresh, TablesAgree
<1> DEFINE cn == ClientNode(s, fd, c)
<1>5. cn.fd = fd /\ cn.client = c /\ cn # NULL
  <2>1. cn \in t_node /\ cn.fd = fd /\ cn.client = c
    BY <1>3, <1>4 DEF ClientNode, t_node, Handles
  <2> QED BY <2>1
<1>6. heap' = [heap EXCEPT ![b] = cn]
  <2>1. heap' = [[d \in Addrs |-> IF d = node_map[cn.fd] THEN NULL ELSE heap[d]] EXCEPT ![b] = cn]
    BY <1>3 DEF add_to_node
  <2> HIDE DEF cn
  <2>2. [d \in Addrs |-> IF d = node_map[cn.fd] THEN NULL ELSE heap[d]] = heap
    BY <1>1, <1>4, <1>5
  <2> QED BY <2>1, <2>2
<1> HIDE DEF cn
<1>7. ASSUME NEW a \in Addrs \ {b}, LiveClientNode(a)'
      PROVE  /\ LiveClientNode(a) /\ heap'[a] = heap[a] /\ heap[a].fd \in Fds \ {fd}
             /\ heap[a].client \in Conns \ {c} /\ epoll'[heap[a].fd] = epoll[heap[a].fd]
             /\ client'[heap[a].client] = client[heap[a].client]
  <2>1. heap'[a] = heap[a] /\ LiveClientNode(a)
    BY <1>1, <1>6, <1>7 DEF LiveClientNode, Live
  <2>2. /\ heap[a].fd \in Fds /\ heap[a].client \in Conns /\ sock[heap[a].fd] = heap[a].client
        /\ client[heap[a].client] \in Client
    BY <1>0, <2>1, LiveClient
  <2>3. heap[a].fd # fd /\ heap[a].client # c
    BY <1>3, <1>4, <2>2
  <2> QED BY <1>1, <1>3, <2>1, <2>2, <2>3 DEF Handles
<1>8. EntriesHold'
  <2> SUFFICES ASSUME NEW g \in request \ {e}, LiveClientNode(g.ptr)'
               PROVE  /\ "IN" \in g.events => Waiting(heap[g.ptr].client)'
                      /\ "OUT" \in g.events => "OUT" \in epoll'[heap'[g.ptr].fd].events
    BY <1>0 DEF EntriesHold
  <2>1. PICK a \in Addrs \ {b} : a = g.ptr
    BY <1>0, <1>1, <1>3 DEF IInv, NoDanglingPointer, Live, Entry
  <2>2. /\ "IN" \in g.events => Waiting(heap[a].client)
        /\ "OUT" \in g.events => "OUT" \in epoll[heap[a].fd].events
    BY <1>7, <2>1 DEF HInv, EntriesHold
  <2> QED BY <1>0, <1>7, <2>1, <2>2 DEF Waiting
<1>9. ArmedInVain'
  <2>1. ASSUME NEW a \in Addrs, LiveClientNode(a)' PROVE ArmedAt(a)'
    <3>1. CASE a # b
      <4>1. ArmedAt(a)
        BY <1>0, <1>7, <2>1, <3>1, Armed DEF HInv
      <4> QED BY <1>0, <1>7, <2>1, <3>1, <4>1 DEF ArmedAt, JustAnswered
    <3>2. CASE a = b
      <4>1. heap'[a].fd = fd /\ epoll'[fd].events = {"IN"}
        BY <1>1, <1>3, <1>5, <1>6, <3>2 DEF Handles
      <4> QED BY <4>1 DEF ArmedAt
    <3> QED BY <3>1, <3>2
  <2> QED BY <2>1 DEF ArmedInVain, ArmedAt, JustAnswered
<1> QED BY <1>0, <1>8, <1>9 DEF HandHolds

(* An entry is handled because of what epoll_wait said of its client.      *)
LEMMA EventHolds ==
  ASSUME HInv, NEW e \in request, read_event(e) \/ write_event(e)
  PROVE  EntriesHold' /\ HandHolds' /\ ArmedInVain'
<1> USE ConstantsAssumption, NullAssumption
<1>0. /\ RInv /\ IInv /\ pc = "dispatch" /\ pc # "ended" /\ UNCHANGED <<peer, sock, tx, rx, heap>>
      /\ request' = request \ {e} /\ cur = NULL /\ cur' = e /\ ~heap[e.ptr].IsServer
  BY DEF HInv, RInv, read_event, write_event, kernel, IInv, Control, InHand
<1>1. /\ client \in [Conns -> Client \cup {NULL}] /\ epoll \in [Handles -> Entry \cup {NULL}]
      /\ request \in SUBSET Entry
  BY <1>0 DEF IInv, TypeOK
<1>2. PICK p \in Addrs : p = e.ptr /\ LiveClientNode(p) /\ \A g \in request \ {e} : g.ptr # p
  BY <1>0, <1>1 DEF IInv, NoDanglingPointer, LiveClientNode, Live, Entry
<1>3. PICK c \in Conns, fd \in Fds :
        /\ c = heap[p].client /\ fd = heap[p].fd /\ client[c] \in Client
        /\ client[c].socket = fd /\ sock[fd] = c
  BY <1>0, <1>2, LiveClient
<1>4. /\ client' = [client EXCEPT ![c] = [client[c] EXCEPT !.idle = 0]]
      /\ epoll' = epoll \/ \E x : epoll' = [epoll EXCEPT ![fd] = x]
  BY <1>2, <1>3 DEF read_event, write_event, Update_Last_Activity, epoll_mod
<1>5. /\ client'[c].ex = client[c].ex /\ client'[c].socket = client[c].socket
      /\ \A d \in Conns \ {c} : client'[d] = client[d]
      /\ \A f \in Fds \ {fd} : epoll'[f] = epoll[f]
  BY <1>1, <1>3, <1>4 DEF Client, Handles
<1>6. ASSUME NEW a \in Addrs \ {p}, LiveClientNode(a)'
      PROVE  /\ LiveClientNode(a) /\ heap[a].fd \in Fds /\ heap[a].client \in Conns
             /\ epoll'[heap[a].fd] = epoll[heap[a].fd]
             /\ client'[heap[a].client] = client[heap[a].client]
  <2>1. LiveClientNode(a)
    BY <1>0, <1>6 DEF LiveClientNode, Live
  <2> QED BY <1>0, <1>2, <1>3, <1>5, <2>1, Apart
<1>7. EntriesHold'
  <2> SUFFICES ASSUME NEW g \in request \ {e}, LiveClientNode(g.ptr)'
               PROVE  /\ "IN" \in g.events => Waiting(heap[g.ptr].client)'
                      /\ "OUT" \in g.events => "OUT" \in epoll'[heap'[g.ptr].fd].events
    BY <1>0 DEF EntriesHold
  <2>1. PICK a \in Addrs \ {p} : a = g.ptr
    BY <1>1, <1>2 DEF Entry
  <2>2. /\ "IN" \in g.events => Waiting(heap[a].client)
        /\ "OUT" \in g.events => "OUT" \in epoll[heap[a].fd].events
    BY <1>6, <2>1 DEF HInv, EntriesHold
  <2> QED BY <1>0, <1>6, <2>1, <2>2 DEF Waiting
<1>8. ArmedInVain'
  <2>1. ASSUME NEW a \in Addrs \ {p}, LiveClientNode(a)' PROVE ArmedAt(a)'
    <3>1. ArmedAt(a)
      BY <1>0, <1>6, <2>1, Armed DEF HInv
    <3> QED BY <1>0, <1>6, <2>1, <3>1 DEF ArmedAt, JustAnswered
  <2>2. cur' # NULL /\ cur'.ptr = p
    BY <1>0, <1>1, <1>2
  <2> QED BY <2>1, <2>2 DEF ArmedInVain, ArmedAt, JustAnswered
<1>9. /\ "IN" \in e.events => Waiting(c)
      /\ "OUT" \in e.events => "OUT" \in epoll[fd].events
  BY <1>2, <1>3 DEF HInv, EntriesHold
<1>10. node' = heap[p] /\ me' = client'[c] /\ to' = c
  <2>1. node' = heap[p]
    BY <1>0, <1>2 DEF node
  <2>2. me' = client'[c]
    BY <1>3, <2>1 DEF me
  <2>3. client'[c].socket = fd /\ sock' = sock
    BY <1>0, <1>3, <1>5
  <2>4. to' = sock'[me'.socket]
    BY DEF to
  <2> QED BY <1>3, <2>1, <2>2, <2>3, <2>4
<1>11. HandHolds'
  <2>1. CASE read_event(e)
    <3>1. pc' = "recv" /\ Waiting(c)
      BY <1>9, <2>1 DEF read_event
    <3> QED BY <1>0, <1>10, <3>1 DEF HandHolds, Waiting
  <2>2. CASE write_event(e)
    <3>1. pc' = "send" /\ "OUT" \in epoll[fd].events
      BY <1>9, <2>2 DEF write_event
    <3>2. client[c].ex = NewExchange \/ client[c].ex.state = "RS_READY"
      BY <1>0, <1>2, <1>3 DEF IInv, NothingForgotten
    <3>3. client[c].ex = NewExchange => JustAnswered(c)
      BY <1>0, <1>2, <1>3, <3>1, Armed DEF HInv, ArmedAt
    <3> QED BY <1>0, <1>5, <1>10, <3>1, <3>2, <3>3 DEF HandHolds, JustAnswered
  <2> QED BY <2>1, <2>2
<1> QED BY <1>7, <1>8, <1>11

LEMMA EpollWaitHolds ==
  ASSUME HInv, epoll_wait
  PROVE  EntriesHold' /\ HandHolds' /\ ArmedInVain'
<1>0. /\ RInv /\ IInv /\ pc # "ended" /\ pc' = "dispatch"
      /\ UNCHANGED <<peer, sock, tx, rx, heap, epoll, client, cur>>
  BY DEF HInv, RInv, epoll_wait, kernel, tables
<1>1. ASSUME NEW e \in request', LiveClientNode(e.ptr)'
      PROVE  /\ "IN" \in e.events => Waiting(heap[e.ptr].client)
             /\ "OUT" \in e.events => "OUT" \in epoll[heap[e.ptr].fd].events
  <2>1. PICK h \in Handles : /\ epoll[h] # NULL /\ Fired(h) # {}
                             /\ e = [events |-> Fired(h), ptr |-> epoll[h].ptr]
    BY DEF epoll_wait, Ready
  <2>2. e.events = Fired(h) /\ e.ptr = epoll[h].ptr
    BY <2>1
  <2> DEFINE p == node_map[h]
  <2>3. /\ p \in Addrs /\ e.ptr = p /\ heap[p].fd = h /\ LiveClientNode(p)
    <3>1. node_map[h] # NULL /\ epoll[h].ptr = node_map[h] /\ heap[node_map[h]].fd = h
      BY <1>0, <2>1 DEF IInv, TablesAgree
    <3>2. node_map[h] \in Addrs
      BY <1>0, <2>1, <3>1 DEF IInv, TypeOK
    <3>3. LiveClientNode(node_map[h])
      BY <1>0, <1>1, <2>2, <3>1 DEF LiveClientNode, Live
    <3> QED BY <2>2, <3>1, <3>2, <3>3
  <2> HIDE DEF p
  <2>4. h \in Fds /\ sock[h] = heap[p].client
    BY <1>0, <2>3, LiveClient
  <2>5. "IN" \in e.events => Waiting(heap[p].client)
    <3>1. "IN" \in Fired(h) => Readable(h)
      BY DEF Fired
    <3> QED BY <2>2, <2>4, <3>1, ConstantsAssumption DEF Readable, Waiting
  <2>6. "OUT" \in e.events => "OUT" \in epoll[heap[p].fd].events
    BY <2>2, <2>3 DEF Fired
  <2> QED BY <2>3, <2>5, <2>6
<1>2. EntriesHold'
  BY <1>0, <1>1 DEF EntriesHold, Waiting
<1> QED BY <1>0, <1>2 DEF HInv, HandHolds, ArmedInVain, JustAnswered, LiveClientNode, Live

(* The inactive ones go, and the others keep what they had.                *)
LEMMA InactiveHolds ==
  ASSUME HInv, close_inactive_clients
  PROVE  EntriesHold' /\ HandHolds' /\ ArmedInVain'
<1> DEFINE Old == {h \in Handles : Inactive(h)}
<1>0. /\ RInv /\ IInv /\ pc = "dispatch" /\ pc' = "top" /\ pc # "ended"
      /\ UNCHANGED <<peer, tx, rx, client, cur>> /\ cur = NULL /\ request' = {}
      /\ epoll' = [h \in Handles |-> IF h \in Old THEN NULL ELSE epoll[h]]
      /\ heap' = [a \in Addrs |-> IF \E h \in Old : node_map[h] = a THEN NULL ELSE heap[a]]
  BY DEF HInv, RInv, close_inactive_clients, FreeInactive, IInv, Control, InHand
<1> HIDE DEF Old
<1>1. ASSUME NEW a \in Addrs, LiveClientNode(a)' PROVE ArmedAt(a)'
  <2>1. LiveClientNode(a) /\ heap'[a] = heap[a] /\ ~ \E h \in Old : node_map[h] = a
    BY <1>0, <1>1 DEF LiveClientNode, Live
  <2>2. ArmedAt(a)
    BY <1>0, <2>1, Armed DEF HInv
  <2>3. heap[a].fd \in Handles /\ node_map[heap[a].fd] = a
    BY <1>0, <2>1, LiveClient
  <2>4. epoll'[heap[a].fd] = epoll[heap[a].fd]
    BY <1>0, <2>1, <2>3
  <2> QED BY <1>0, <2>1, <2>2, <2>4 DEF ArmedAt, JustAnswered
<1> QED BY <1>0, <1>1 DEF EntriesHold, HandHolds, ArmedInVain, ArmedAt, JustAnswered

LEMMA EndHolds ==
  ASSUME HInv, shutdown
  PROVE  EntriesHold' /\ HandHolds' /\ ArmedInVain'
<1>0. /\ RInv /\ IInv /\ pc = "stopped" /\ pc' = "ended" /\ request' = request /\ request = {}
      /\ heap' = [a \in Addrs |-> IF \E h \in Handles : node_map[h] = a THEN NULL ELSE heap[a]]
  BY DEF HInv, RInv, shutdown, IInv, Control
<1>1. ASSUME NEW a \in Addrs, LiveClientNode(a)' PROVE FALSE
  <2>1. LiveClientNode(a) /\ ~ \E h \in Handles : node_map[h] = a
    BY <1>0, <1>1 DEF LiveClientNode, Live
  <2> QED BY <1>0, <2>1, LiveClient
<1> QED BY <1>0, <1>1 DEF EntriesHold, HandHolds, ArmedInVain

(* The peers only add to what there is to be read.                         *)
LEMMA OutsideHolds ==
  ASSUME HInv, Environment
  PROVE  EntriesHold' /\ HandHolds' /\ ArmedInVain'
<1>0. RInv /\ IInv
  BY DEF HInv, RInv
<1>1. /\ UNCHANGED <<sock, tx, heap, epoll, cur>>
      /\ \A c \in Conns : /\ client'[c] # NULL <=> client[c] # NULL
                          /\ client[c] # NULL => /\ client'[c].ex = client[c].ex
                                                 /\ client'[c].socket = client[c].socket
  BY <1>0, OutsideKeeps
<1>2. /\ request' = request
      /\ pc' = pc \/ (pc = "wait" /\ pc' = "stopped")
  BY DEF Environment, Connect, PeerSend, PeerDrains, PeerLeaves, Tick, signal_handler, loop
<1>3. \A c \in Conns : Waiting(c) => Waiting(c)'
  <2>0. rx \in [Conns -> Seq(Chunk)] /\ Inputs \subseteq Chunk
    BY <1>0, ConstantsAssumption DEF IInv, TypeOK
  <2>1. ASSUME NEW d \in Conns, PeerSend(d), NEW c \in Conns, Waiting(c) PROVE Waiting(c)'
    <3>1. PICK data \in Inputs : rx' = [rx EXCEPT ![d] = Append(@, data)] /\ peer' = peer
      BY <2>1 DEF PeerSend
    <3>2. rx'[c] # <<>> \/ rx'[c] = rx[c]
      <4>1. CASE c = d
        <5>1. rx'[c] = Append(rx[c], data) /\ rx[c] \in Seq(Chunk) /\ data \in Chunk
          BY <2>0, <3>1, <4>1
        <5> QED BY <5>1, AppendLast
      <4> QED BY <2>0, <3>1, <4>1
    <3> QED BY <2>1, <3>1, <3>2 DEF Waiting
  <2>2. ASSUME NEW d \in Conns, NEW how \in {"shut", "reset"}, PeerLeaves(d, how),
               NEW c \in Conns, Waiting(c)
        PROVE  Waiting(c)'
    BY <1>0, <2>2 DEF PeerLeaves, Waiting, IInv, TypeOK
  <2>3. ASSUME NEW d \in Conns, NEW s \in Servers, Connect(d, s), NEW c \in Conns, Waiting(c)
        PROVE  Waiting(c)'
    BY <1>0, <2>3 DEF Connect, Waiting, IInv, TypeOK
  <2>4. CASE Tick \/ signal_handler \/ \E d \in Conns : PeerDrains(d)
    BY <2>4 DEF Tick, signal_handler, PeerDrains, kernel, Waiting
  <2> QED BY <2>1, <2>2, <2>3, <2>4 DEF Environment
<1>4. \A a \in Addrs : LiveClientNode(a) => pc = "ended" \/ heap[a].client \in Conns
  BY <1>0, LiveClient
<1>5. ASSUME NEW a \in Addrs, LiveClientNode(a)
      PROVE  /\ heap[a].client \in Conns
             /\ client'[heap[a].client].ex = client[heap[a].client].ex
             /\ client'[heap[a].client].socket = client[heap[a].client].socket
  <2>1. pc # "ended"
    BY DEF Environment, Connect, PeerSend, PeerDrains, PeerLeaves, Tick, signal_handler, Running
  <2>2. heap[a].client \in Conns /\ client[heap[a].client] # NULL
    BY <1>0, <1>5, <2>1, <1>4 DEF IInv, OwnConnection
  <2> QED BY <1>1, <2>2
<1>6. EntriesHold'
  <2> SUFFICES ASSUME NEW e \in request, LiveClientNode(e.ptr)'
               PROVE  /\ "IN" \in e.events => Waiting(heap[e.ptr].client)'
                      /\ "OUT" \in e.events => "OUT" \in epoll'[heap'[e.ptr].fd].events
    BY <1>2 DEF EntriesHold
  <2>1. e.ptr \in Addrs /\ LiveClientNode(e.ptr)
    BY <1>0, <1>1 DEF LiveClientNode, Live, IInv, TypeOK, Entry
  <2>2. PICK c \in Conns : c = heap[e.ptr].client /\ c = heap'[e.ptr].client
    BY <1>1, <1>5, <2>1
  <2>3. /\ "IN" \in e.events => Waiting(c)
        /\ "OUT" \in e.events => "OUT" \in epoll[heap[e.ptr].fd].events
    BY <2>1, <2>2 DEF HInv, EntriesHold
  <2> QED BY <1>1, <1>3, <2>2, <2>3 DEF Waiting
<1>7. HandHolds'
  <2> SUFFICES ASSUME pc \in {"recv", "send"}, pc' = pc PROVE HandHolds'
    BY <1>2 DEF HandHolds
  <2>1. LiveClientNode(cur.ptr) /\ cur.ptr \in Addrs /\ node.client \in Conns
        /\ me.socket = node.fd /\ to = node.client
    BY <1>0, ClientInHand DEF LiveClientNode, Live, IInv, NoDanglingPointer, InHand
  <2>2. node' = node
    BY <1>1 DEF node
  <2>3. me' = client'[node.client] /\ me = client[node.client] /\ node = heap[cur.ptr]
    BY <2>2 DEF me, node
  <2>4. me'.ex = me.ex /\ to' = to
    <3>1. me'.ex = me.ex /\ me'.socket = me.socket
      BY <1>5, <2>1, <2>3
    <3>2. to' = sock'[me'.socket] /\ to = sock[me.socket]
      BY DEF to
    <3> QED BY <1>1, <3>1, <3>2
  <2>5. PICK c \in Conns : c = to
    BY <2>1
  <2>6. Waiting(to) => Waiting(to)'
    BY <1>3, <2>4, <2>5 DEF Waiting
  <2>7. JustAnswered(to) => JustAnswered(to)'
    BY <1>1, <2>4 DEF JustAnswered
  <2> QED BY <2>4, <2>6, <2>7 DEF HInv, HandHolds
<1>8. ArmedInVain'
  <2>1. ASSUME NEW a \in Addrs, LiveClientNode(a)', cur' = NULL \/ cur'.ptr # a PROVE ArmedAt(a)'
    <3>1. LiveClientNode(a) /\ (cur = NULL \/ cur.ptr # a)
      BY <1>1, <2>1 DEF LiveClientNode, Live
    <3>2. ArmedAt(a)
      BY <3>1, Armed DEF HInv
    <3> QED BY <1>1, <1>5, <3>1, <3>2 DEF ArmedAt, JustAnswered
  <2> QED BY <2>1 DEF ArmedInVain, ArmedAt, JustAnswered
<1> QED BY <1>6, <1>7, <1>8

LEMMA StillHolds ==
  ASSUME HInv, check_sig_stop \/ enter_epoll_wait \/ UNCHANGED vars \/ \E e \in request : accept_fails(e)
  PROVE  EntriesHold' /\ HandHolds' /\ ArmedInVain'
<1>1. /\ UNCHANGED <<peer, sock, tx, rx, heap, epoll, client, cur, request>>
      /\ pc' \notin {"recv", "send"} \/ pc' = pc
  BY DEF check_sig_stop, enter_epoll_wait, accept_fails, vars, kernel, tables, loop
<1>2. me' = me /\ to' = to /\ node' = node
  BY <1>1 DEF me, to, node
<1>3. EntriesHold'
  BY <1>1 DEF HInv, EntriesHold, Waiting, LiveClientNode, Live
<1>4. HandHolds'
  BY <1>1, <1>2 DEF HInv, HandHolds, Waiting, JustAnswered
<1>5. ArmedInVain'
  BY <1>1 DEF HInv, ArmedInVain, LiveClientNode, Live
<1> QED BY <1>3, <1>4, <1>5

LEMMA HInvStep == HInv /\ [Next]_vars => HInv'
<1> SUFFICES ASSUME HInv, [Next]_vars PROVE HInv'
  OBVIOUS
<1>1. RInv'
  BY RInvStep DEF HInv
<1>2. EntriesHold' /\ HandHolds' /\ ArmedInVain'
  BY StillHolds, EpollWaitHolds, NewClientHolds, EventHolds, RecvDataHolds, FailsHold, ClosedHolds,
     SendResponseHolds, SendFileHolds, InactiveHolds, EndHolds, OutsideHolds
  DEF Next, Loop, Terminated
<1> QED BY <1>1, <1>2 DEF HInv

LEMMA HInvStart == Init => HInv
<1>1. Init => EntriesHold /\ HandHolds
  BY DEF Init, EntriesHold, HandHolds
<1>2. Init => ArmedInVain
  <2>1. \A s : ServerNode(s).IsServer
    BY DEF ServerNode
  <2> QED BY <2>1 DEF Init, ArmedInVain, LiveClientNode, Live
<1> QED BY <1>1, <1>2, RInvStart DEF HInv

LEMMA HInvariance == Spec => []HInv
BY HInvStart, HInvStep, PTL DEF Spec

(* EPOLLOUT is armed in vain after a response only (Server.cpp 100-133,    *)
(* socket_manager.cpp 26-43).                                              *)
THEOREM RarelyInVain == Spec => []ArmedInVain
<1>1. HInv => ArmedInVain
  BY DEF HInv
<1> QED BY <1>1, HInvariance, PTL

-----------------------------------------------------------------------------
(* Answers that are dropped.                                               *)

DroppedFor(c) ==
  \/ peer[c] # "open" \/ rx[c] # <<>> \/ full'[c]
  \/ \E s \in Servers : client[c].idle > client_timeout[s]

Dropped(c) == Held(c) /\ ~GivenUp(c) /\ (GivenUp(c)' \/ ~Held(c)')

(* A handler that gives its connection up has found it left, full, or with *)
(* bytes to read.                                                          *)
LEMMA GivenUpForCause ==
  ASSUME HInv, recv_data \/ recv_fails \/ send_fails \/ send_file_fails,
         NEW c \in Conns, Dropped(c), client[c].ex.state = "RS_READY"
  PROVE  DroppedFor(c)
<1>1. /\ RInv /\ IInv /\ pc \in InHand /\ pc # "ended" /\ UNCHANGED <<sock, heap>>
      /\ pc' = "last" \/ pc' = "close" => cur' = cur
  BY DEF HInv, RInv, recv_data, recv_fails, send_fails, send_file_fails, InHand, kernel, tables,
         BackToBatch
<1>2. GivenUp(c)'
  BY <1>1 DEF Dropped, Held
<1>3. c = node.client
  BY <1>1, <1>2 DEF GivenUp, node
<1>4. c = to /\ me = client[c]
  BY <1>1, <1>3, ClientInHand
<1>5. CASE recv_data
  BY <1>4, <1>5 DEF recv_data, DroppedFor
<1>6. CASE recv_fails
  <2>1. pc = "recv" /\ rx[c] = <<>>
    BY <1>4, <1>6 DEF recv_fails, NothingToRead
  <2>2. Waiting(c)
    BY <1>4, <2>1 DEF HInv, HandHolds
  <2> QED BY <1>4, <2>1, <2>2 DEF Waiting, DroppedFor
<1>7. CASE send_fails
  BY <1>4, <1>7 DEF send_fails, DroppedFor, kernel
<1>8. CASE send_file_fails
  <2>1. full \in [Conns -> BOOLEAN]
    BY <1>1 DEF IInv, TypeOK
  <2>2. \/ ~CanWrite(c) /\ full' = full
        \/ full' = [full EXCEPT ![c] = TRUE]
    BY <1>4, <1>8 DEF send_file_fails, WriteNothing
  <2> QED BY <1>4, <2>1, <2>2 DEF CanWrite, DroppedFor
<1> QED BY <1>5, <1>6, <1>7, <1>8

LEMMA InactiveForCause ==
  ASSUME HInv, close_inactive_clients, NEW c \in Conns, Dropped(c)
  PROVE  DroppedFor(c)
<1>1. IInv /\ pc # "ended" /\ pc' = "top"
  BY DEF HInv, RInv, close_inactive_clients
<1>2. PICK fd \in Fds : sock[fd] = c
  BY DEF Dropped, Held
<1>3. sock[fd] # NULL /\ sock'[fd] # c
  BY <1>1, <1>2, ConstantsAssumption DEF Dropped, Held, GivenUp
<1>4. Inactive(fd)
  BY <1>1, <1>2, <1>3 DEF close_inactive_clients, FreeInactive, IInv, TypeOK
<1> DEFINE n == heap[node_map[fd]]
<1>5. n.client = c /\ node_map[fd] \in Addrs /\ LiveClientNode(node_map[fd])
  BY <1>1, <1>2, <1>3, HeldNode
<1>6. n.server \in Servers
  BY <1>1, <1>5, LiveClient DEF t_node
<1>7. client[n.client].idle > client_timeout[n.server]
  BY <1>4 DEF Inactive
<1> QED BY <1>5, <1>6, <1>7 DEF DroppedFor

(* What is closed has been given up before, and a step that is not about a *)
(* connection leaves it as it is.                                          *)
LEMMA NotDropped ==
  ASSUME HInv, NEW c \in Conns,
         \/ Environment \/ UNCHANGED vars \/ send_last \/ close_client \/ send_response \/ send_file
         \/ check_sig_stop \/ enter_epoll_wait \/ epoll_wait \/ shutdown
         \/ \E e \in request : accept_fails(e) \/ read_event(e) \/ write_event(e)
                                \/ new_client_setup(e)
  PROVE  ~Dropped(c)
<1>0. /\ RInv /\ IInv /\ sock \in [Fds -> Conns \cup {NULL}]
  BY DEF HInv, RInv, IInv, TypeOK
<1>1. CASE Environment
  <2>1. UNCHANGED <<sock, heap, cur>> /\ (pc' = pc \/ pc' = "stopped")
    BY <1>0, <1>1, OutsideKeeps
  <2> QED BY <2>1 DEF Dropped, Held, GivenUp, node
<1>2. CASE send_last
  BY <1>2 DEF send_last, AfterLast, tables, Dropped, Held, GivenUp, node
<1>3. CASE close_client
  <2>1. /\ pc = "close" /\ pc' = "dispatch" /\ sock' = [sock EXCEPT ![node.fd] = NULL]
    BY <1>3 DEF close_client, BackToBatch
  <2>2. sock[node.fd] = node.client
    BY <1>0, <2>1, ClientInHand DEF InHand
  <2> QED BY <1>0, <2>1, <2>2 DEF Dropped, Held, GivenUp
<1>4. ASSUME NEW e \in request, new_client_setup(e) PROVE ~Dropped(c)
  <2>1. PICK d, fd : sock[fd] = NULL /\ sock' = [sock EXCEPT ![fd] = d]
    BY <1>4 DEF new_client_setup
  <2>2. pc' = "dispatch"
    BY <1>4 DEF new_client_setup
  <2> QED BY <1>0, <2>1, <2>2, ConstantsAssumption DEF Dropped, Held, GivenUp
<1>5. CASE \/ check_sig_stop \/ enter_epoll_wait \/ epoll_wait \/ shutdown
           \/ send_response \/ send_file
           \/ \E e \in request : accept_fails(e) \/ read_event(e) \/ write_event(e)
  <2>1. sock' = sock /\ pc' \notin {"last", "close"}
    BY <1>5 DEF check_sig_stop, enter_epoll_wait, epoll_wait, shutdown, accept_fails, read_event,
                write_event, send_response, send_file, kernel, BackToBatch
  <2> QED BY <2>1 DEF Dropped, Held, GivenUp
<1>6. CASE UNCHANGED vars
  BY <1>6 DEF vars, kernel, tables, loop, Dropped, Held, GivenUp, node
<1> QED BY <1>1, <1>2, <1>3, <1>4, <1>5, <1>6

(* A ready response is given up only when the peer left, sent more, stopped*)
(* reading, or was silent for too long (Server.cpp 88-196, Monitor.cpp     *)
(* 31-53).                                                                 *)
THEOREM NothingDropped == Spec => NoAnswerDropped
<1> DEFINE Kept(c) == Dropped(c) /\ client[c].ex.state = "RS_READY" => DroppedFor(c)
<1>1. ASSUME HInv, [Next]_vars, NEW c \in Conns PROVE Kept(c)
  BY <1>1, GivenUpForCause, InactiveForCause, NotDropped DEF Next, Loop, Terminated
<1>2. HInv /\ [Next]_vars => [\A c \in Conns : Kept(c)]_vars
  BY <1>1
<1>3. (\A c \in Conns : Kept(c)) <=> (\A c \in Conns :
        /\ Held(c) /\ ~GivenUp(c) /\ (GivenUp(c)' \/ ~Held(c)')
        /\ client[c].ex.state = "RS_READY"
        => \/ peer[c] # "open" \/ rx[c] # <<>> \/ full'[c]
           \/ \E s \in Servers : client[c].idle > client_timeout[s])
  BY DEF Dropped, DroppedFor
<1> HIDE DEF Kept
<1> QED BY <1>2, <1>3, HInvariance, PTL DEF Spec, NoAnswerDropped

-----------------------------------------------------------------------------
(* The order of what is written.                                           *)

(* LastWords, of one sequence: whatever has been said, what has been said  *)
(* when the farewell is still to come, and when the last answer is.        *)
Ordered(s) ==
  \A i \in DOMAIN s :
    /\ s[i] = "204" => i = Len(s)
    /\ s[i] = "error" => i = Len(s) \/ (i + 1 = Len(s) /\ s[i + 1] \in {"204", "cut"})
    /\ s[i] = "file" => i > 1 /\ s[i - 1] \in {"page", "cut"}
Parted(s) ==
  Ordered(s) /\ \A i \in DOMAIN s : s[i] # "204" /\ (s[i] = "error" => i = Len(s))
Unfinished(s) == Ordered(s) /\ \A i \in DOMAIN s : s[i] \notin {"204", "error"}

SaidInv ==
  \A c \in Conns :
    /\ Ordered(tx[c])
    /\ stageOf(c) # "closed" => Parted(tx[c])
    /\ stageOf(c) \notin {"ending", "closed"} => Unfinished(tx[c])

LEMMA OneMore ==
  ASSUME NEW s \in Seq(Wire), Unfinished(s), NEW w \in Wire \ {"204"},
         w = "file" => s # <<>> /\ s[Len(s)] \in {"page", "cut"}
  PROVE  /\ Ordered(Append(s, w)) /\ Parted(Append(s, w))
         /\ w # "error" => Unfinished(Append(s, w))
<1> DEFINE t == Append(s, w)
           n == Len(s)
<1>1. /\ t \in Seq(Wire) /\ Len(t) = n + 1 /\ DOMAIN t = 1..(n + 1) /\ n \in Nat /\ DOMAIN s = 1..n
      /\ t[n + 1] = w /\ \A i \in 1..n : t[i] = s[i]
  OBVIOUS
<1>2. s # <<>> => n >= 1
  OBVIOUS
<1> HIDE DEF t, n
<1>3. ASSUME NEW i \in 1..n
      PROVE  t[i] \notin {"204", "error"} /\ (t[i] = "file" => i > 1 /\ t[i - 1] \in {"page", "cut"})
  <2>1. s[i] \notin {"204", "error"} /\ (s[i] = "file" => i > 1 /\ s[i - 1] \in {"page", "cut"})
    BY <1>1 DEF Unfinished, Ordered
  <2> QED BY <1>1, <2>1
<1>4. w = "file" => n + 1 > 1 /\ t[n] \in {"page", "cut"}
  BY <1>1, <1>2 DEF n
<1>5. \A i \in 1..(n + 1) : i \in 1..n \/ i = n + 1
  BY <1>1
<1>6. Ordered(t)
  BY <1>1, <1>3, <1>4, <1>5 DEF Ordered
<1>7. Parted(t)
  BY <1>1, <1>3, <1>5, <1>6 DEF Parted
<1>8. w # "error" => Unfinished(t)
  BY <1>1, <1>3, <1>5, <1>6 DEF Unfinished
<1> QED BY <1>6, <1>7, <1>8 DEF t

(* The farewell may follow what is parted.                                 *)
LEMMA TheLast ==
  ASSUME NEW s \in Seq(Wire), Parted(s), NEW w \in {"204", "cut"}
  PROVE  Ordered(Append(s, w))
<1> DEFINE t == Append(s, w)
           n == Len(s)
<1>0. w \in Wire
  BY DEF Wire
<1>1. /\ t \in Seq(Wire) /\ Len(t) = n + 1 /\ DOMAIN t = 1..(n + 1) /\ n \in Nat /\ DOMAIN s = 1..n
      /\ t[n + 1] = w /\ \A i \in 1..n : t[i] = s[i]
  BY <1>0
<1> HIDE DEF t
<1>2. ASSUME NEW i \in 1..n
      PROVE  /\ t[i] # "204" /\ (t[i] = "error" => i = n)
             /\ t[i] = "file" => i > 1 /\ t[i - 1] \in {"page", "cut"}
  <2>1. /\ s[i] # "204" /\ (s[i] = "error" => i = n)
        /\ s[i] = "file" => i > 1 /\ s[i - 1] \in {"page", "cut"}
    BY <1>1 DEF Parted, Ordered
  <2> HIDE DEF n
  <2> QED BY <1>1, <2>1
<1> HIDE DEF n
<1>3. \A i \in 1..(n + 1) : i \in 1..n \/ i = n + 1
  BY <1>1
<1>4. Ordered(t)
  BY <1>1, <1>2, <1>3 DEF Ordered
<1> QED BY <1>4 DEF t

(* What a step that Conversations allows says to a connection.             *)
Before == {"ending", "closed"}
SaysNo(c) ==
  /\ tx'[c] = tx[c]
  /\ stageOf(c)' # "closed" => stageOf(c) # "closed"
  /\ stageOf(c)' \notin Before => stageOf(c) \notin Before

LEMMA StepSays ==
  ASSUME [C!Next]_C!vars, tx \in [Conns -> Seq(Wire)], NEW c \in Conns
  PROVE  \/ SaysNo(c)
         \/ stageOf(c) = "held" /\ \E w \in {"page", "cut"} : tx'[c] = Append(tx[c], w)
         \/ /\ stageOf(c) = "held" /\ tx[c] # <<>> /\ tx[c][Len(tx[c])] \in {"page", "cut"}
            /\ tx'[c] = Append(tx[c], "file")
         \/ /\ stageOf(c) = "parting" /\ stageOf(c)' = "ending"
            /\ \E w \in {"page", "error", "cut"} : tx'[c] = Append(tx[c], w)
         \/ /\ stageOf(c) = "ending" /\ stageOf(c)' = "closed"
            /\ \E w \in {"204", "cut"} : tx'[c] = Append(tx[c], w)
<1>1. /\ Stages[c] = stageOf(c) /\ Stages'[c] = stageOf(c)'
      /\ DOMAIN Stages = Conns /\ DOMAIN tx = Conns
  BY DEF Stages
<1> DEFINE Quiet == /\ tx'[c] = tx[c]
                    /\ Stages'[c] # "closed" => Stages[c] # "closed"
                    /\ Stages'[c] \notin Before => Stages[c] \notin Before
<1>2. CASE UNCHANGED C!vars
  <2>1. Stages' = Stages /\ tx' = tx
    BY <1>2 DEF C!vars, Stages
  <2> QED BY <1>1, <2>1 DEF SaysNo
<1>3. ASSUME NEW d \in Conns, C!Arrive(d) \/ C!Accept(d) \/ C!Prepare(d) \/ C!GiveUp(d)
      PROVE  Quiet
  BY <1>3 DEF C!Arrive, C!Accept, C!Prepare, C!GiveUp, Stages, Before
<1>4. ASSUME NEW d \in Conns, C!Answer(d)
      PROVE  /\ Stages[d] = "held" /\ Stages' = Stages
             /\ \E w \in {"page", "cut"} : tx' = [tx EXCEPT ![d] = Append(@, w)]
  BY <1>4 DEF C!Answer, C!Say, Stages
<1>5. ASSUME NEW d \in Conns, C!Attach(d)
      PROVE  /\ Stages[d] = "held" /\ Stages' = Stages
             /\ tx[d] # <<>> /\ tx[d][Len(tx[d])] \in {"page", "cut"}
             /\ \E w \in {"file", "cut"} : tx' = [tx EXCEPT ![d] = Append(@, w)]
  BY <1>5 DEF C!Attach, C!SayAfter, C!Say, Stages
<1>6. ASSUME NEW d \in Conns, C!BreakOff(d)
      PROVE  /\ Stages[d] = "held" /\ Stages' = [Stages EXCEPT ![d] = "ending"]
             /\ tx' = tx \/ tx' = [tx EXCEPT ![d] = Append(@, "cut")]
  BY <1>6 DEF C!BreakOff, C!SayAfter, C!Say, Stages
<1>7. ASSUME NEW S \in SUBSET Conns, C!CloseSome(S)
      PROVE  Quiet
  BY <1>1, <1>7 DEF C!CloseSome, Stages, Before
<1>8. ASSUME NEW d \in Conns, C!LastAnswer(d)
      PROVE  /\ Stages[d] = "parting" /\ Stages' = [Stages EXCEPT ![d] = "ending"]
             /\ tx' = tx \/ \E w \in {"page", "error", "cut"} : tx' = [tx EXCEPT ![d] = Append(@, w)]
  BY <1>8 DEF C!LastAnswer, C!Say, Stages
<1>9. ASSUME NEW d \in Conns, C!Farewell(d)
      PROVE  /\ Stages[d] = "ending" /\ Stages' = [Stages EXCEPT ![d] = "closed"]
             /\ tx' = tx \/ \E w \in {"204", "cut"} : tx' = [tx EXCEPT ![d] = Append(@, w)]
  BY <1>9 DEF C!Farewell, C!Say, Stages
<1>10. ASSUME NEW d \in Conns, c # d,
              C!Answer(d) \/ C!Attach(d) \/ C!BreakOff(d) \/ C!LastAnswer(d) \/ C!Farewell(d)
       PROVE  Quiet
  <2>1. tx'[c] = tx[c] /\ Stages'[c] = Stages[c]
    BY <1>1, <1>4, <1>5, <1>6, <1>8, <1>9, <1>10
  <2> QED BY <2>1
<1>11. CASE C!Answer(c) \/ C!Attach(c)
  BY <1>1, <1>4, <1>5, <1>11
<1>12. CASE C!BreakOff(c)
  BY <1>1, <1>6, <1>12 DEF SaysNo, Before
<1>13. CASE C!LastAnswer(c)
  BY <1>1, <1>8, <1>13 DEF SaysNo, Before
<1>14. CASE C!Farewell(c)
  BY <1>1, <1>9, <1>14 DEF SaysNo, Before
<1>15. CASE Quiet
  BY <1>1, <1>15 DEF SaysNo
<1> HIDE DEF Quiet
<1> QED BY <1>2, <1>3, <1>7, <1>10, <1>11, <1>12, <1>13, <1>14, <1>15 DEF C!Next

LEMMA SaidStep == RInv /\ SaidInv /\ [Next]_vars => SaidInv'
<1> SUFFICES ASSUME RInv, SaidInv, [Next]_vars, NEW c \in Conns
             PROVE  /\ Ordered(tx'[c])
                    /\ stageOf(c)' # "closed" => Parted(tx'[c])
                    /\ stageOf(c)' \notin Before => Unfinished(tx'[c])
  BY DEF SaidInv, Ordered, Parted, Unfinished, Before
<1>1. tx \in [Conns -> Seq(Wire)] /\ tx[c] \in Seq(Wire)
  BY DEF RInv, IInv, TypeOK
<1>2. [C!Next]_C!vars
  BY RefinementStep
<1>3. {"page", "cut", "file", "error"} \subseteq Wire \ {"204"}
  BY DEF Wire
<1>4. /\ Ordered(tx[c]) /\ (stageOf(c) # "closed" => Parted(tx[c]))
      /\ stageOf(c) \notin Before => Unfinished(tx[c])
  BY DEF SaidInv, Before
<1>5. CASE SaysNo(c)
  BY <1>4, <1>5 DEF SaysNo
<1>6. ASSUME NEW w \in {"page", "cut"}, tx'[c] = Append(tx[c], w), stageOf(c) = "held"
      PROVE  Ordered(tx'[c]) /\ Parted(tx'[c]) /\ Unfinished(tx'[c])
  BY <1>1, <1>3, <1>4, <1>6, OneMore DEF Before
<1>7. ASSUME stageOf(c) = "held", tx[c] # <<>>, tx[c][Len(tx[c])] \in {"page", "cut"},
             tx'[c] = Append(tx[c], "file")
      PROVE  Ordered(tx'[c]) /\ Parted(tx'[c]) /\ Unfinished(tx'[c])
  BY <1>1, <1>3, <1>4, <1>7, OneMore DEF Before
<1>8. ASSUME NEW w \in {"page", "error", "cut"}, tx'[c] = Append(tx[c], w),
             stageOf(c) = "parting", stageOf(c)' = "ending"
      PROVE  Ordered(tx'[c]) /\ Parted(tx'[c])
  BY <1>1, <1>3, <1>4, <1>8, OneMore DEF Before
<1>9. ASSUME NEW w \in {"204", "cut"}, tx'[c] = Append(tx[c], w),
             stageOf(c) = "ending", stageOf(c)' = "closed"
      PROVE  Ordered(tx'[c])
  BY <1>1, <1>4, <1>9, TheLast
<1>10. "ending" \in Before /\ "closed" \in Before
  BY DEF Before
<1> QED BY <1>1, <1>2, <1>5, <1>6, <1>7, <1>8, <1>9, <1>10, StepSays

(* While the server runs, a connection that was told the end is closed, or *)
(* about to be.                                                            *)
LEMMA SaidMeans == RInv /\ SaidInv /\ Running => LastWords
<1> SUFFICES ASSUME RInv, SaidInv, Running, NEW c \in Conns, NEW i \in DOMAIN tx[c]
             PROVE  /\ tx[c][i] = "204" => i = Len(tx[c]) /\ ~Held(c)
                    /\ tx[c][i] = "error" =>
                         \/ i = Len(tx[c]) /\ (Held(c) => pc = "close" /\ node.client = c)
                         \/ i + 1 = Len(tx[c]) /\ tx[c][i + 1] \in {"204", "cut"} /\ ~Held(c)
                    /\ tx[c][i] = "file" => i > 1 /\ tx[c][i - 1] \in {"page", "cut"}
  BY DEF LastWords
<1>1. Ordered(tx[c])
  BY DEF SaidInv
<1>2. CASE ~Held(c)
  BY <1>1, <1>2 DEF Ordered
<1>3. CASE Held(c)
  <2>1. stageOf(c) # "closed" /\ (~GivenUp(c) => stageOf(c) = "held")
        /\ (node.client = c => stageOf(c) = StageAt(pc))
    BY <1>3, HeldStage DEF StageAt, GivenUp
  <2>2. Parted(tx[c])
    BY <2>1 DEF SaidInv
  <2>3. tx[c][i] # "204" /\ (tx[c][i] = "error" => i = Len(tx[c]))
    BY <2>2 DEF Parted
  <2>4. tx[c][i] = "error" => stageOf(c) = "ending"
    BY <2>1 DEF SaidInv, Unfinished
  <2>5. stageOf(c) = "ending" => pc = "close" /\ node.client = c
    BY <2>1 DEF StageAt, GivenUp
  <2> QED BY <1>1, <2>3, <2>4, <2>5 DEF Ordered
<1> QED BY <1>2, <1>3

(* The last thing said on a connection is the end of it (Server.cpp        *)
(* 137-196, Server_functions.cpp 195-206).                                 *)
THEOREM SaysNothingAfter == Spec => []LastWords
<1>1. Init => SaidInv /\ LastWords
  <2>1. Init => \A c \in Conns : tx[c] = <<>> /\ DOMAIN <<>> = {}
    BY DEF Init
  <2> QED BY <2>1 DEF SaidInv, Ordered, Parted, Unfinished, LastWords
<1>2. RInv /\ SaidInv /\ LastWords /\ [Next]_vars => SaidInv' /\ LastWords'
  <2> SUFFICES ASSUME RInv, SaidInv, LastWords, [Next]_vars PROVE SaidInv' /\ LastWords'
    OBVIOUS
  <2>1. SaidInv' /\ RInv'
    BY SaidStep, RInvStep
  <2>2. CASE Running'
    <3>1. (RInv /\ SaidInv /\ Running => LastWords)'
      BY SaidMeans, PTL
    <3> QED BY <2>1, <2>2, <3>1
  <2>3. CASE ~Running'
    <3>1. /\ tx' = tx /\ sock' = sock
          /\ pc \in {"dispatch", "stopped"} \/ UNCHANGED <<pc, node>>
      <4>1. CASE Environment
        BY <2>3, <4>1, OutsideKeeps
      <4>2. CASE shutdown \/ Terminated \/ UNCHANGED vars \/ \E e \in request : accept_fails(e)
        BY <4>2 DEF shutdown, accept_fails, Terminated, vars, kernel, tables, loop, node
      <4>3. CASE Loop /\ ~shutdown /\ ~\E e \in request : accept_fails(e)
        BY <2>3, <4>3 DEF Loop, Running, check_sig_stop, enter_epoll_wait, epoll_wait, read_event,
           write_event, new_client_setup, recv_data, recv_fails, send_response, send_fails, send_file,
           send_file_fails, close_inactive_clients, close_client, send_last, AfterLast, BackToBatch
      <4> QED BY <4>1, <4>2, <4>3 DEF Next
    <3> QED BY <2>1, <3>1 DEF LastWords, Held
  <2> QED BY <2>2, <2>3
<1> QED BY <1>1, <1>2, RInvariance, PTL DEF Spec

-----------------------------------------------------------------------------
(* The number of answers.                                                  *)

AnswersIn(s) == {i \in DOMAIN s : s[i] \in {"page", "error"}}
Count(s) == Cardinality(AnswersIn(s))

LEMMA CountMore ==
  ASSUME NEW s \in Seq(Wire), NEW w \in Wire
  PROVE  /\ Count(s) \in Nat /\ Append(s, w) \in Seq(Wire)
         /\ w \in {"page", "error"} => Count(Append(s, w)) = Count(s) + 1
         /\ w \notin {"page", "error"} => Count(Append(s, w)) = Count(s)
<1> DEFINE n == Len(s)
           t == Append(s, w)
<1>1. /\ n \in Nat /\ DOMAIN s = 1..n /\ t \in Seq(Wire) /\ DOMAIN t = 1..(n + 1)
      /\ t[n + 1] = w /\ \A i \in 1..n : t[i] = s[i]
  OBVIOUS
<1> HIDE DEF n, t
<1>2. IsFiniteSet(1..n)
  BY <1>1, FS_Interval
<1>3. AnswersIn(s) \subseteq 1..n /\ n + 1 \notin AnswersIn(s)
  BY <1>1 DEF AnswersIn
<1>4. IsFiniteSet(AnswersIn(s)) /\ Count(s) \in Nat
  BY <1>2, <1>3, FS_Subset, FS_CardinalityType DEF Count
<1>5. \A i \in 1..(n + 1) : i \in 1..n \/ i = n + 1
  BY <1>1
<1>6. CASE w \in {"page", "error"}
  <2>1. AnswersIn(t) = AnswersIn(s) \cup {n + 1}
    BY <1>1, <1>5, <1>6 DEF AnswersIn
  <2>2. Cardinality(AnswersIn(s) \cup {n + 1}) = Cardinality(AnswersIn(s)) + 1
    BY <1>3, <1>4, FS_AddElement
  <2> QED BY <1>1, <1>4, <1>6, <2>1, <2>2 DEF Count, t
<1>7. CASE w \notin {"page", "error"}
  <2>1. AnswersIn(t) = AnswersIn(s)
    BY <1>1, <1>5, <1>7 DEF AnswersIn
  <2> QED BY <1>1, <1>4, <1>7, <2>1 DEF Count, t
<1> QED BY <1>6, <1>7

(* A step does not write, or prepare, more than it reads.                  *)
Affords(c) ==
  Count(tx'[c]) + Owed(c)' + (sent[c] - Len(rx[c]))
    <= Count(tx[c]) + Owed(c) + (sent'[c] - Len(rx'[c]))

LEMMA OwedIs ==
  ASSUME NEW c
  PROVE  Owed(c) \in {0, 1} /\ Owed(c)' \in {0, 1}
BY DEF Owed

LEMMA Still ==
  ASSUME RInv, NEW c \in Conns, tx'[c] = tx[c], Owed(c)' <= Owed(c),
         sent'[c] - Len(rx'[c]) = sent[c] - Len(rx[c])
  PROVE  Affords(c)
<1>1. tx[c] \in Seq(Wire) /\ sent[c] \in Nat /\ Len(rx[c]) \in Nat
  BY DEF RInv, IInv, TypeOK
<1>2. Count(tx[c]) \in Nat
  BY <1>1, CountMore DEF Wire
<1> QED BY <1>1, <1>2, OwedIs DEF Affords

(* Clients the step does not handle.                                       *)
LEMMA SameOwed ==
  ASSUME NEW c, client'[c] # NULL => client'[c] = client[c] \/ client'[c].ex = client[c].ex,
         client'[c] # NULL => client[c] # NULL,
         Past(c) => Past(c)'
  PROVE  Owed(c)' <= Owed(c)
BY DEF Owed

LEMMA OthersPay ==
  ASSUME RInv, UNCHANGED sent,
         NEW c \in Conns, c # node.client, tx'[c] = tx[c], rx'[c] = rx[c], client'[c] = client[c]
  PROVE  Affords(c)
<1>1. ~Past(c)
  BY DEF Past
<1> QED BY <1>1, Still, SameOwed

LEMMA QuietPays ==
  ASSUME RInv, NEW c \in Conns,
         \/ Environment
         \/ check_sig_stop \/ enter_epoll_wait \/ epoll_wait \/ close_inactive_clients \/ shutdown
         \/ UNCHANGED vars \/ \E e \in request : accept_fails(e)
         \/ \E e \in request : read_event(e) \/ write_event(e) \/ new_client_setup(e)
  PROVE  Affords(c)
<1> USE ConstantsAssumption, NullAssumption
<1>0. /\ IInv /\ tx \in [Conns -> Seq(Wire)] /\ rx \in [Conns -> Seq(Chunk)] /\ sent \in [Conns -> Nat]
      /\ client \in [Conns -> Client \cup {NULL}]
  BY DEF RInv, IInv, TypeOK
<1>1. CASE Environment
  <2>1. tx' = tx /\ heap' = heap /\ cur' = cur /\ (pc' = pc \/ pc = "wait")
    BY <1>1, OutsideKeeps
  <2>2. Past(c) => Past(c)'
    BY <2>1 DEF node, Past
  <2>3. /\ client'[c] # NULL <=> client[c] # NULL
        /\ client[c] # NULL => client'[c].ex = client[c].ex
    BY <1>1, OutsideKeeps
  <2>4. Owed(c)' <= Owed(c)
    BY <2>1, <2>2, <2>3, SameOwed
  <2>5. sent'[c] - Len(rx'[c]) = sent[c] - Len(rx[c])
    <3>1. ASSUME NEW d \in Conns, PeerSend(d) PROVE sent'[c] - Len(rx'[c]) = sent[c] - Len(rx[c])
      <4>1. PICK data \in Inputs : rx' = [rx EXCEPT ![d] = Append(@, data)]
        BY <3>1 DEF PeerSend
      <4>2. sent' = [sent EXCEPT ![d] = @ + 1]
        BY <3>1 DEF PeerSend
      <4>3. CASE c = d
        <5>1. rx'[c] = Append(rx[c], data) /\ sent'[c] = sent[c] + 1
          BY <1>0, <4>1, <4>2, <4>3
        <5>2. Len(Append(rx[c], data)) = Len(rx[c]) + 1 /\ Len(rx[c]) \in Nat /\ sent[c] \in Nat
          BY <1>0
        <5> QED BY <5>1, <5>2
      <4> QED BY <1>0, <4>1, <4>2, <4>3
    <3>2. CASE Tick \/ signal_handler \/ (\E d \in Conns : PeerDrains(d))
               \/ (\E d \in Conns, s \in Servers : Connect(d, s))
               \/ (\E d \in Conns, how \in {"shut", "reset"} : PeerLeaves(d, how))
      BY <3>2 DEF Tick, signal_handler, PeerDrains, Connect, PeerLeaves, kernel
    <3> QED BY <1>1, <3>1, <3>2 DEF Environment
  <2> QED BY <2>1, <2>4, <2>5, Still
<1>2. CASE \/ check_sig_stop \/ enter_epoll_wait \/ epoll_wait \/ UNCHANGED vars
           \/ \E e \in request : accept_fails(e)
  <2>1. UNCHANGED <<tx, rx, sent, client, heap, cur>> /\ (pc \in {"file", "close"} => pc' = pc)
    BY <1>2 DEF check_sig_stop, enter_epoll_wait, epoll_wait, accept_fails, vars, kernel, tables, loop
  <2>2. Past(c) => Past(c)'
    BY <2>1 DEF node, Past
  <2> QED BY <2>1, <2>2, SameOwed, Still
<1>3. CASE close_inactive_clients
  <2>1. UNCHANGED <<tx, rx, sent, client>> /\ pc = "dispatch"
    BY <1>3 DEF close_inactive_clients, FreeInactive
  <2> QED BY <2>1, SameOwed, Still DEF Past
<1>4. CASE shutdown
  <2>1. UNCHANGED <<tx, rx, sent>> /\ pc = "stopped" /\ (client'[c] # NULL => client'[c] = client[c])
    BY <1>4 DEF shutdown
  <2> QED BY <2>1, SameOwed, Still DEF Past
<1>5. ASSUME NEW e \in request, read_event(e) \/ write_event(e) PROVE Affords(c)
  <2>1. UNCHANGED <<tx, rx, sent>> /\ pc = "dispatch" /\ Update_Last_Activity(heap[e.ptr].client)
        /\ ~heap[e.ptr].IsServer
    BY <1>5 DEF read_event, write_event, kernel
  <2>2. PICK d \in Conns : d = heap[e.ptr].client /\ client[d] \in Client
    <3>1. e.ptr \in Addrs /\ LiveClientNode(e.ptr) /\ pc # "ended"
      BY <1>0, <2>1 DEF IInv, TypeOK, NoDanglingPointer, LiveClientNode, Live, Entry
    <3> QED BY <1>0, <3>1, LiveClient
  <2>3. client' = [client EXCEPT ![d] = [client[d] EXCEPT !.idle = 0]]
        /\ [client[d] EXCEPT !.idle = 0].ex = client[d].ex
    BY <2>1, <2>2 DEF Update_Last_Activity, Client
  <2>4. (client'[c] = client[c] \/ client'[c].ex = client[c].ex) /\ (client'[c] # NULL => client[c] # NULL)
    BY <1>0, <2>2, <2>3
  <2> QED BY <2>1, <2>4, SameOwed, Still DEF Past
<1>6. ASSUME NEW e \in request, new_client_setup(e) PROVE Affords(c)
  <2>1. UNCHANGED <<tx, rx, sent>> /\ pc = "dispatch" /\ pc' = pc
    BY <1>6 DEF new_client_setup
  <2>2. PICK d, fd : client' = [client EXCEPT ![d] = NewClient(fd)]
    BY <1>6 DEF new_client_setup
  <2>3. CASE d = c
    <3>1. client'[c].ex = NewExchange
      BY <1>0, <2>2, <2>3 DEF NewClient
    <3>2. Owed(c)' = 0
      BY <3>1 DEF Owed, NewExchange
    <3> QED BY <2>1, <3>2, OwedIs, Still
  <2>4. CASE d # c
    <3>1. client'[c] = client[c]
      BY <1>0, <2>2, <2>4
    <3> QED BY <2>1, <3>1, SameOwed, Still DEF Past
  <2> QED BY <2>3, <2>4
<1> QED BY <1>1, <1>2, <1>3, <1>4, <1>5, <1>6

(* What is written to a connection that is given up or closed: nothing, a  *)
(* word that is no answer, or the answer that was owed.                    *)
LEMMA WordPays ==
  ASSUME RInv, NEW c \in Conns, UNCHANGED <<rx, sent>>, Owed(c)' <= Owed(c),
         \/ tx'[c] = tx[c]
         \/ \E w \in {"204", "cut", "file"} : tx'[c] = Append(tx[c], w)
         \/ /\ Owed(c) = 1 /\ Owed(c)' = 0
            /\ \E w \in {"page", "error", "cut"} : tx'[c] = Append(tx[c], w)
  PROVE  Affords(c)
<1>1. tx[c] \in Seq(Wire) /\ rx[c] \in Seq(Chunk) /\ Len(rx[c]) \in Nat /\ sent[c] \in Nat
  BY DEF RInv, IInv, TypeOK
<1>2. Wire = {"page", "file", "cut", "error", "204"}
  BY DEF Wire
<1>3. PICK m \in Nat : m = Count(tx[c])
  BY <1>1, <1>2, CountMore
<1>4. CASE tx'[c] = tx[c]
  BY <1>4, Still
<1>5. ASSUME NEW w \in {"204", "cut", "file"}, tx'[c] = Append(tx[c], w) PROVE Affords(c)
  <2>1. Count(tx'[c]) = m
    BY <1>1, <1>2, <1>3, <1>5, CountMore
  <2>2. Owed(c) \in {0, 1} /\ Owed(c)' \in {0, 1}
    BY OwedIs
  <2> QED BY <1>1, <1>3, <2>1, <2>2 DEF Affords
<1>6. ASSUME Owed(c) = 1, Owed(c)' = 0, NEW w \in {"page", "error", "cut"},
             tx'[c] = Append(tx[c], w)
      PROVE  Affords(c)
  <2>1. Count(tx'[c]) = m \/ Count(tx'[c]) = m + 1
    BY <1>1, <1>2, <1>3, <1>6, CountMore
  <2> QED BY <1>1, <1>3, <1>6, <2>1 DEF Affords
<1> QED BY <1>4, <1>5, <1>6

LEMMA FailsPay ==
  ASSUME RInv, recv_fails \/ send_fails \/ send_file_fails \/ send_last, NEW d \in Conns
  PROVE  Affords(d)
<1>1. /\ pc \in InHand /\ UNCHANGED <<rx, sent, heap, cur, client>> /\ pc' \in {"last", "close"}
      /\ pc \in {"file", "last", "close"} => pc' = "close"
  BY DEF recv_fails, send_fails, send_file_fails, send_last, AfterLast, InHand, kernel, tables
<1>2. PICK c \in Conns : /\ c = node.client /\ me = client[c] /\ to = c /\ me # NULL
                         /\ me.ex \in Stored \cup {Refused}
  BY <1>1, ClientInHand
<1>3. tx \in [Conns -> Seq(Wire)]
  BY DEF RInv, IInv, TypeOK
<1>4. node' = node /\ \A e \in Conns : Past(e) => Past(e)'
  BY <1>1 DEF node, Past
<1>5. Owed(c)' <= Owed(c)
  BY <1>1, <1>4, SameOwed
<1>6. \/ tx' = tx
      \/ pc = "file" /\ tx' = [tx EXCEPT ![c] = Append(@, "cut")]
      \/ /\ pc = "last" /\ pc' = "close" /\ me.ex.outBuf # "empty"
         /\ \E w \in {me.ex.outBuf, "cut"} : tx' = [tx EXCEPT ![c] = Append(@, w)]
  BY <1>2 DEF recv_fails, send_fails, send_file_fails, send_last, AfterLast, kernel, Write,
              WriteNothing
<1>7. CASE d # c
  <2>1. tx'[d] = tx[d]
    BY <1>3, <1>6, <1>7
  <2> QED BY <1>1, <1>2, <1>7, <2>1, OthersPay
<1>8. CASE d = c
  <2>1. CASE tx' = tx
    BY <1>1, <1>5, <1>8, <2>1, WordPays
  <2>2. CASE tx' = [tx EXCEPT ![c] = Append(@, "cut")]
    <3>1. tx'[c] = Append(tx[c], "cut")
      BY <1>3, <2>2
    <3> QED BY <1>1, <1>5, <1>8, <3>1, WordPays
  <2>3. CASE /\ pc = "last" /\ pc' = "close" /\ me.ex.outBuf # "empty"
             /\ \E w \in {me.ex.outBuf, "cut"} : tx' = [tx EXCEPT ![c] = Append(@, w)]
    <3>1. me.ex.outBuf \in {"page", "error"} /\ me.ex.state \in {"RS_READY", "RS_CLOSE"}
      BY <1>2, <2>3, WordsOf DEF Stored
    <3>2. Owed(c) = 1 /\ Owed(c)' = 0
      BY <1>2, <1>4, <2>3, <3>1 DEF Owed, Past
    <3>3. \E w \in {"page", "error", "cut"} : tx'[c] = Append(tx[c], w)
      BY <1>3, <2>3, <3>1
    <3> QED BY <1>1, <1>5, <1>8, <3>2, <3>3, WordPays
  <2> QED BY <1>6, <2>1, <2>2, <2>3
<1> QED BY <1>7, <1>8

LEMMA ClosedPays ==
  ASSUME RInv, close_client, NEW d \in Conns
  PROVE  Affords(d)
<1>1. pc = "close" /\ pc \in InHand /\ UNCHANGED <<rx, sent>>
  BY DEF close_client, InHand
<1>2. /\ tx \in [Conns -> Seq(Wire)] /\ client \in [Conns -> Client \cup {NULL}]
  BY DEF RInv, IInv, TypeOK
<1>3. PICK c \in Conns : c = node.client /\ sock[node.fd] = c
  BY <1>1, ClientInHand
<1>4. /\ client' = [client EXCEPT ![c] = NULL]
      /\ tx' = tx \/ \E w \in {"204", "cut"} : tx' = [tx EXCEPT ![c] = Append(@, w)]
  BY <1>3 DEF close_client, delete_client, Write, WriteNothing
<1>5. CASE d # c
  <2>1. tx'[d] = tx[d] /\ client'[d] = client[d]
    BY <1>2, <1>4, <1>5
  <2> QED BY <1>1, <1>3, <1>5, <2>1, OthersPay
<1>6. CASE d = c
  <2>1. Owed(c)' = 0
    BY <1>2, <1>4 DEF Owed
  <2>2. tx'[c] = tx[c] \/ \E w \in {"204", "cut", "file"} : tx'[c] = Append(tx[c], w)
    BY <1>2, <1>4
  <2>3. Owed(c)' <= Owed(c)
    BY <2>1, OwedIs
  <2> QED BY <1>1, <1>6, <2>2, <2>3, WordPays
<1> QED BY <1>5, <1>6

LEMMA RecvDataPays ==
  ASSUME RInv, recv_data, NEW d \in Conns
  PROVE  Affords(d)
<1>1. pc = "recv" /\ pc \in InHand /\ UNCHANGED <<sent, tx>>
  BY DEF recv_data, InHand
<1>2. PICK c \in Conns : c = node.client /\ me = client[c] /\ to = c /\ client[c] # NULL
  BY <1>1, ClientInHand
<1>3. /\ tx[c] \in Seq(Wire) /\ rx[c] \in Seq(Chunk) /\ Len(rx[c]) \in Nat /\ sent[c] \in Nat
      /\ rx \in [Conns -> Seq(Chunk)] /\ client \in [Conns -> Client \cup {NULL}]
  BY DEF RInv, IInv, TypeOK
<1>4. PICK n \in 1..Len(rx[to]) :
        /\ rx' = [rx EXCEPT ![to] = SubSeq(@, n + 1, Len(@))]
        /\ \E m : client' = [client EXCEPT ![node.client] = m]
  BY DEF recv_data
<1>5. Len(rx'[c]) < Len(rx[c]) /\ Len(rx'[c]) \in Nat
  <2>1. rx'[c] = SubSeq(rx[c], n + 1, Len(rx[c])) /\ n \in 1..Len(rx[c])
    BY <1>2, <1>3, <1>4
  <2>2. Len(SubSeq(rx[c], n + 1, Len(rx[c]))) = Len(rx[c]) - n
    BY <1>3, <2>1
  <2> QED BY <1>3, <2>1, <2>2
<1>6. CASE d = c
  <2>1. Owed(c)' <= 1 /\ Owed(c) >= 0 /\ Owed(c)' \in {0, 1} /\ Owed(c) \in {0, 1}
    BY OwedIs
  <2>2. Count(tx[c]) \in Nat
    BY <1>3, CountMore DEF Wire
  <2> QED BY <1>1, <1>3, <1>5, <1>6, <2>1, <2>2, SMTT(30) DEF Affords
<1>7. CASE d # c
  <2>1. client'[d] = client[d] /\ rx'[d] = rx[d]
    BY <1>2, <1>3, <1>4, <1>7
  <2> QED BY <1>1, <1>2, <1>7, <2>1, OthersPay
<1> QED BY <1>6, <1>7

(* A response is written once: it is not owed any more.                    *)
LEMMA SendsPay ==
  ASSUME RInv, send_response \/ send_file, NEW d \in Conns
  PROVE  Affords(d)
<1>1. pc \in {"send", "file"} /\ UNCHANGED <<rx, sent, heap>>
  BY DEF send_response, send_file
<1>2. PICK c \in Conns : /\ c = node.client /\ me = client[c] /\ to = c /\ client[c] # NULL
                         /\ me \in Client
  BY <1>1, ClientInHand, Handled DEF RInv, InHand
<1>3. /\ tx[c] \in Seq(Wire) /\ rx[c] \in Seq(Chunk) /\ Len(rx[c]) \in Nat /\ sent[c] \in Nat
      /\ tx \in [Conns -> Seq(Wire)] /\ client \in [Conns -> Client \cup {NULL}]
  BY DEF RInv, IInv, TypeOK
<1>4. PICK new : new = [me EXCEPT !.ex = NewExchange] /\ new.ex = NewExchange
  BY <1>2, Fresh
<1>5. \/ client' = [client EXCEPT ![c] = new]
      \/ send_response /\ pc' = "file" /\ cur' = cur /\ client' = client
  BY <1>2, <1>4 DEF send_response, send_file, Clear_exchange, me
<1>6. Owed(c)' = 0
  <2>1. CASE client' = [client EXCEPT ![c] = new]
    <3>1. client'[c].ex.state \notin {"RS_READY", "RS_CLOSE"}
      BY <1>3, <1>4, <2>1 DEF NewExchange
    <3> QED BY <3>1 DEF Owed
  <2>2. CASE send_response /\ pc' = "file" /\ cur' = cur /\ client' = client
    <3>1. node' = node
      BY <1>1, <2>2 DEF node
    <3> QED BY <1>2, <2>2, <3>1 DEF Owed, Past
  <2> QED BY <1>5, <2>1, <2>2
<1>7. \/ tx'[c] = tx[c]
      \/ Owed(c) = 1 /\ \E w \in {"page", "cut"} : tx'[c] = Append(tx[c], w)
      \/ \E w \in {"file", "cut"} : tx'[c] = Append(tx[c], w)
  <2>1. CASE send_response
    <3>1. CASE tx' = tx
      BY <3>1
    <3>2. ASSUME NEW w \in {"page", "cut"}, NEW p \in Page,
                 tx' = [tx EXCEPT ![to] = Append(@, w)], me.ex = Served(p)
          PROVE  Owed(c) = 1 /\ tx'[c] = Append(tx[c], w)
      <4>1. pc = "send"
        BY <2>1 DEF send_response
      <4>2. Owed(c) = 1
        BY <1>2, <3>2, <4>1, WordsOf DEF Owed, Past
      <4> QED BY <1>2, <1>3, <3>2, <4>2
    <3> QED BY <2>1, <3>1, <3>2, ResponseSent
  <2>2. CASE send_file
    <3>1. tx' = tx \/ \E w \in {"file", "cut"} : tx' = [tx EXCEPT ![c] = Append(@, w)]
      BY <1>2, <2>2 DEF send_file, Write, WriteNothing
    <3> QED BY <1>3, <3>1
  <2> QED BY <2>1, <2>2
<1>8. \A e \in Conns \ {c} : tx'[e] = tx[e] /\ client'[e] = client[e]
  <2>1. client' = client \/ client' = [client EXCEPT ![c] = new]
    BY <1>5
  <2>2. tx' = tx \/ \E s : tx' = [tx EXCEPT ![c] = s]
    BY <1>2 DEF send_response, send_file, Write, WriteNothing
  <2> QED BY <1>3, <2>1, <2>2
<1>9. CASE d = c
  <2>1. Owed(c)' <= Owed(c)
    BY <1>6, OwedIs
  <2> QED BY <1>1, <1>6, <1>7, <1>9, <2>1, WordPays
<1>10. CASE d # c
  BY <1>1, <1>2, <1>8, <1>10, OthersPay
<1> QED BY <1>9, <1>10

LEMMA PaidIs ==
  Paid <=> \A c \in Conns : Count(tx[c]) + Owed(c) <= sent[c] - Len(rx[c])
BY DEF Paid, Count, AnswersIn, Answers

LEMMA PaidStep == RInv /\ Paid /\ [Next]_vars => Paid'
<1> SUFFICES ASSUME RInv, Paid, [Next]_vars, NEW c \in Conns
             PROVE  Count(tx'[c]) + Owed(c)' <= sent'[c] - Len(rx'[c])
  BY DEF Paid, Count, AnswersIn, Answers
<1>1. Affords(c)
  BY QuietPays, FailsPay, ClosedPays, RecvDataPays, SendsPay DEF Next, Loop, Terminated
<1>2. Count(tx[c]) + Owed(c) <= sent[c] - Len(rx[c])
  BY PaidIs
<1>3. RInv'
  BY RInvStep
<1>4. /\ tx[c] \in Seq(Wire) /\ tx'[c] \in Seq(Wire) /\ sent[c] \in Nat /\ sent'[c] \in Nat
      /\ Len(rx[c]) \in Nat /\ Len(rx'[c]) \in Nat
  <2>1. tx[c] \in Seq(Wire) /\ rx[c] \in Seq(Chunk) /\ sent[c] \in Nat
    BY DEF RInv, IInv, TypeOK
  <2>2. tx'[c] \in Seq(Wire) /\ rx'[c] \in Seq(Chunk) /\ sent'[c] \in Nat
    BY <1>3 DEF RInv, IInv, TypeOK
  <2> QED BY <2>1, <2>2
<1>5. Count(tx[c]) \in Nat /\ Count(tx'[c]) \in Nat
  BY <1>4, CountMore DEF Wire
<1>6. PICK x \in Nat, y \in Nat : x = Count(tx'[c]) /\ y = Count(tx[c])
  BY <1>5
<1>7. PICK a \in {0, 1}, b \in {0, 1} : a = Owed(c)' /\ b = Owed(c)
  BY OwedIs
<1>8. PICK s \in Nat, t \in Nat, r \in Nat, q \in Nat :
        s = sent[c] /\ t = sent'[c] /\ r = Len(rx[c]) /\ q = Len(rx'[c])
  BY <1>4
<1>9. x + a + (s - r) <= y + b + (t - q) /\ y + b <= s - r
  BY <1>1, <1>2, <1>6, <1>7, <1>8 DEF Affords
<1>10. x + a <= t - q
  BY <1>9
<1> QED BY <1>6, <1>7, <1>8, <1>10

(* No connection is written more answers than it sent requests that were   *)
(* read (Server.cpp 88-196, Server_functions.cpp 195-206).                 *)
THEOREM AnswersOnce == Spec => []NoAnswerTwice
<1>1. Init => Paid
  <2> SUFFICES ASSUME Init, NEW c \in Conns PROVE Cardinality(Answers(c)) + Owed(c) <= sent[c] - Len(rx[c])
    BY DEF Paid
  <2>1. tx[c] = <<>> /\ rx[c] = <<>> /\ sent[c] = 0 /\ client[c] = NULL
    BY DEF Init
  <2>2. Answers(c) = {} /\ Owed(c) = 0 /\ Len(rx[c]) = 0
    BY <2>1 DEF Answers, Owed
  <2>3. Cardinality({}) = 0
    BY FS_EmptySet
  <2> QED BY <2>1, <2>2, <2>3
<1>2. RInv /\ Paid => NoAnswerTwice
  <2> SUFFICES ASSUME RInv, Paid, NEW c \in Conns
               PROVE  Cardinality(Answers(c)) + Due(c) <= sent[c] - Len(rx[c])
    BY DEF NoAnswerTwice
  <2>1. Due(c) \in {0, 1} /\ Owed(c) \in {0, 1} /\ Due(c) <= Owed(c)
    BY DEF Due, Owed
  <2>2. tx[c] \in Seq(Wire) /\ sent[c] \in Nat /\ Len(rx[c]) \in Nat
    BY DEF RInv, IInv, TypeOK
  <2>3. Count(tx[c]) \in Nat /\ Count(tx[c]) = Cardinality(Answers(c))
    BY <2>2, CountMore DEF Wire, Count, AnswersIn, Answers
  <2> QED BY <2>1, <2>2, <2>3 DEF Paid
<1> QED BY <1>1, <1>2, PaidStep, RInvariance, PTL DEF Spec
=============================================================================
