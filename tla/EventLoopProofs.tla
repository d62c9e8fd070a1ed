--------------------------- MODULE EventLoopProofs ---------------------------
(***************************************************************************)
(* The tables of the event loop agree, its pointers are valid and its      *)
(* clients are kept apart, for any number of servers, descriptors,         *)
(* connections and addresses.                                              *)
(***************************************************************************)
EXTENDS EventLoopRefinement, SequenceTheorems, TLAPS

-----------------------------------------------------------------------------
(* Facts of the data.                                                      *)

LEMMA ShortSeq == \A S : <<>> \in Seq(S) /\ \A x \in S : <<x>> \in Seq(S)
OBVIOUS

(* What a client has in its buffers may be written on a connection.        *)
LEMMA WordsType ==
  ASSUME NEW ex \in Exchanges, ex.outBuf # "empty"
  PROVE  ex.outBuf \in Wire
BY DEF Wire, Exchanges

(* HttpExchange::process returns an exchange, in a state that the loop     *)
(* tells apart.                                                            *)
LEMMA ProcessResult ==
  ASSUME NEW ex, NEW data
  PROVE  /\ process(ex, data) \in Exchanges
         /\ process(ex, data).state \in {"RS_HEADERS_READ", "RS_READY", "RS_CLOSE"}
<1>1. \/ \E p \in Page : process(ex, data) = Served(p)
      \/ process(ex, data) = Reading
      \/ process(ex, data) = Refused
  BY DEF process, Page
<1> QED
  BY <1>1 DEF Served, Reading, Refused, Exchanges, ReqState, Page

(* A client node, and what belongs to it.                                  *)
LEMMA LiveClient ==
  ASSUME IInv, pc # "ended", NEW a \in Addrs, LiveClientNode(a)
  PROVE  LET n == heap[a] IN
         /\ n \in t_node /\ n.fd \in Fds /\ n.fd \in Handles /\ n.client \in Conns
         /\ node_map[n.fd] = a
         /\ sock[n.fd] = n.client
         /\ epoll[n.fd] \in Entry /\ epoll[n.fd].ptr = a
         /\ client[n.client] \in Client /\ client[n.client].socket = n.fd
<1> USE ConstantsAssumption, NullAssumption
<1> DEFINE n == heap[a]
<1>1. n \in t_node /\ ~n.IsServer
  BY DEF IInv, TypeOK, LiveClientNode, Live
<1>2. node_map[n.fd] = a
  BY DEF IInv, TablesAgree, LiveClientNode, Live
<1>3. n.fd \in Fds
  BY <1>1, <1>2 DEF IInv, TablesAgree, t_node, Handles
<1>4. epoll[n.fd] \in Entry /\ epoll[n.fd].ptr = a
  BY <1>2, <1>3 DEF IInv, TypeOK, TablesAgree, Handles
<1>5. /\ n.client \in Conns /\ client[n.client] \in Client
      /\ client[n.client].socket = n.fd /\ sock[n.fd] = n.client
  BY <1>1 DEF IInv, TypeOK, OwnConnection, t_node
<1> QED
  BY <1>1, <1>2, <1>3, <1>4, <1>5 DEF Handles

(* The client node that is being handled.                                  *)
LEMMA Handled ==
  ASSUME IInv, pc \in InHand
  PROVE  /\ cur \in Entry /\ cur.ptr \in Addrs
         /\ node \in t_node /\ ~node.IsServer /\ node.fd \in Fds /\ node.client \in Conns
         /\ node_map[node.fd] = cur.ptr
         /\ sock[node.fd] = node.client
         /\ epoll[node.fd] \in Entry /\ epoll[node.fd].ptr = cur.ptr
         /\ me \in Client /\ me.socket = node.fd /\ to = node.client
<1>1. cur \in Entry /\ cur.ptr \in Addrs /\ LiveClientNode(cur.ptr)
  BY DEF IInv, TypeOK, Control, NoDanglingPointer, Entry
<1>2. pc # "ended"
  BY DEF InHand
<1> QED
  BY <1>1, <1>2, LiveClient DEF node, me, to, LiveClientNode

(* A descriptor that is open has a client node, whose Client holds it.     *)
LEMMA HeldNode ==
  ASSUME IInv, pc # "ended", NEW fd \in Fds, sock[fd] # NULL
  PROVE  /\ node_map[fd] \in Addrs
         /\ LiveClientNode(node_map[fd])
         /\ heap[node_map[fd]].fd = fd
         /\ heap[node_map[fd]].client = sock[fd]
         /\ client[sock[fd]] # NULL /\ client[sock[fd]].socket = fd
<1> USE ConstantsAssumption, NullAssumption
<1>1. node_map[fd] \in Addrs /\ LiveClientNode(node_map[fd]) /\ heap[node_map[fd]].fd = fd
  BY DEF IInv, TypeOK, TablesAgree, LiveClientNode, Live, Handles
<1> QED
  BY <1>1 DEF IInv, OwnConnection

(* No two descriptors are open on one connection.                          *)
LEMMA OneDescriptor ==
  ASSUME IInv, pc # "ended", NEW f \in Fds, NEW g \in Fds, sock[f] = sock[g], sock[f] # NULL
  PROVE  f = g
BY HeldNode

-----------------------------------------------------------------------------
(* Server::close_client, on whatever path the loop reaches it, takes the   *)
(* client it handles out of every table and leaves the other ones alone.   *)
LEMMA WriteType ==
  ASSUME IInv, NEW c \in Conns, NEW word,
         WriteNothing \/ (word \in Wire /\ Write(c, word))
  PROVE  /\ tx' \in [Conns -> Seq(Wire)] /\ full' \in [Conns -> BOOLEAN]
<1>1. CASE WriteNothing
  BY <1>1 DEF WriteNothing, IInv, TypeOK
<1>2. CASE word \in Wire /\ Write(c, word)
  <2>1. PICK w \in {word, "cut"} : tx' = [tx EXCEPT ![c] = Append(@, w)]
    BY <1>2 DEF Write
  <2>2. w \in Wire
    BY <1>2 DEF Wire
  <2>3. tx' \in [Conns -> Seq(Wire)]
    BY <2>1, <2>2 DEF IInv, TypeOK
  <2> QED
    BY <1>2, <2>3 DEF Write, IInv, TypeOK
<1> QED
  BY <1>1, <1>2

LEMMA CloseClient == IInv /\ close_client => IInv'
<1> SUFFICES ASSUME IInv, close_client PROVE IInv'
  OBVIOUS
<1>0. pc = "close" /\ pc \in InHand /\ UNCHANGED <<backlog, peer, rx, sent, request, sig_stop>>
  BY DEF close_client, InHand
<1> DEFINE a == cur.ptr
           fd == node.fd
           c == node.client
<1> USE ConstantsAssumption, NullAssumption
<1>1. /\ pc # "ended" /\ a \in Addrs /\ fd \in Fds /\ c \in Conns
      /\ heap[a] = node /\ heap[a] # NULL /\ ~heap[a].IsServer
      /\ heap[a].fd = fd /\ heap[a].client = c
      /\ node_map[fd] = a /\ sock[fd] = c /\ client[c].socket = fd
  BY <1>0, Handled DEF node, me, IInv, NoDanglingPointer, LiveClientNode, Live
<1>2. /\ epoll' = [epoll EXCEPT ![fd] = NULL]
      /\ sock' = [sock EXCEPT ![fd] = NULL]
      /\ client' = [client EXCEPT ![c] = NULL]
      /\ heap' = [heap EXCEPT ![a] = NULL]
      /\ node_map' = [node_map EXCEPT ![fd] = NULL]
      /\ pc' = "dispatch" /\ cur' = NULL
  BY DEF close_client, delete_client, erase, BackToBatch
<1>a. tx' \in [Conns -> Seq(Wire)] /\ full' \in [Conns -> BOOLEAN]
  <2>1. WriteNothing \/ ("204" \in Wire /\ Write(c, "204"))
    BY <1>1 DEF close_client, Wire
  <2> QED
    BY <1>1, <2>1, WriteType
<1> HIDE DEF a, fd, c
<1>3. TypeOK'
  BY <1>0, <1>1, <1>2, <1>a DEF IInv, TypeOK, Handles
<1>4. Control'
  BY <1>2 DEF IInv, Control, InHand
<1>5. TablesAgree'
  <2>1. \A f \in Fds : (sock'[f] # NULL) <=> (node_map'[f] # NULL)
    BY <1>1, <1>2 DEF IInv, TypeOK, TablesAgree, Handles
  <2>2. \A h \in Handles : (epoll'[h] # NULL) <=> (node_map'[h] # NULL)
    BY <1>1, <1>2 DEF IInv, TypeOK, TablesAgree, Handles
  <2>3. \A h \in Handles : node_map'[h] # NULL => node_map'[h] = node_map[h] /\ h # fd /\ node_map[h] # a
    BY <1>1, <1>2 DEF IInv, TypeOK, TablesAgree, Handles
  <2>4. \A h \in Handles : node_map'[h] # NULL =>
          /\ heap'[node_map'[h]] # NULL
          /\ heap'[node_map'[h]].fd = h
          /\ heap'[node_map'[h]].IsServer <=> h \in Servers
          /\ epoll'[h].ptr = node_map'[h]
    BY <1>1, <1>2, <2>3 DEF IInv, TypeOK, TablesAgree, Live, Handles
  <2>5. \A b \in Addrs : heap'[b] # NULL => node_map'[heap'[b].fd] = b
    BY <1>1, <1>2 DEF IInv, TypeOK, TablesAgree, Live, t_node, Handles
  <2> QED
    BY <2>1, <2>2, <2>4, <2>5 DEF TablesAgree, Live
<1>6. NoDanglingPointer'
  BY <1>0, <1>1, <1>2 DEF IInv, TypeOK, NoDanglingPointer, Live, LiveClientNode, Entry, InHand, a
<1>7. OwnConnection'
  <2> SUFFICES ASSUME NEW b \in Addrs, LiveClientNode(b)'
               PROVE  /\ heap'[b].client # NULL /\ client'[heap'[b].client] # NULL
                      /\ client'[heap'[b].client].socket = heap'[b].fd
                      /\ sock'[heap'[b].fd] = heap'[b].client
    BY DEF OwnConnection
  <2>1. b # a /\ heap'[b] = heap[b] /\ LiveClientNode(b)
    BY <1>1, <1>2 DEF IInv, TypeOK, LiveClientNode, Live
  <2>2. heap[b].fd # fd /\ heap[b] \in t_node
    BY <1>1, <2>1 DEF IInv, TypeOK, TablesAgree, LiveClientNode, Live
  <2>3. heap[b].client # c /\ heap[b].client \in Conns
    BY <1>1, <2>1, <2>2 DEF IInv, OwnConnection, t_node
  <2> QED
    BY <1>1, <1>2, <2>1, <2>2, <2>3 DEF IInv, TypeOK, OwnConnection
<1>8. QueueFresh'
  BY <1>0, <1>1, <1>2 DEF IInv, TypeOK, QueueFresh
<1>9. NothingForgotten'
  <2> SUFFICES ASSUME NEW b \in Addrs, LiveClientNode(b)'
               PROVE  LET ex == client'[heap'[b].client].ex IN
                      \/ ex = NewExchange
                      \/ ex.state = "RS_READY" /\ "OUT" \in epoll'[heap'[b].fd].events
    BY DEF NothingForgotten
  <2>1. b # a /\ heap'[b] = heap[b] /\ LiveClientNode(b)
    BY <1>1, <1>2 DEF IInv, TypeOK, LiveClientNode, Live
  <2>2. heap[b].fd # fd /\ heap[b] \in t_node
    BY <1>1, <2>1 DEF IInv, TypeOK, TablesAgree, LiveClientNode, Live
  <2>3. heap[b].client # c /\ heap[b].client \in Conns
    BY <1>1, <2>1, <2>2 DEF IInv, OwnConnection, t_node
  <2> QED
    BY <1>1, <1>2, <2>1, <2>2, <2>3 DEF IInv, TypeOK, NothingForgotten, t_node, a
<1> QED
  BY <1>3, <1>4, <1>5, <1>6, <1>7, <1>8, <1>9 DEF IInv

(* A handler that keeps its client changes this client alone, and may      *)
(* change what its descriptor is polled for.                               *)
LEMMA KeepClient ==
  ASSUME IInv, pc \in InHand,
         NEW new \in Client, new.socket = node.fd,
         client' = [client EXCEPT ![node.client] = new],
         NEW events \in SUBSET Event,
         epoll' = [epoll EXCEPT ![node.fd] = [events |-> events, ptr |-> cur.ptr]],
         \/ pc' = "recv" /\ cur' = cur /\ "OUT" \in events
         \/ pc' \in InHand \ {"recv"} /\ cur' = cur
         \/ /\ pc' = "dispatch" /\ cur' = NULL
            /\ new.ex = NewExchange \/ (new.ex.state = "RS_READY" /\ "OUT" \in events),
         rx' \in [Conns -> Seq(Chunk)], full' \in [Conns -> BOOLEAN],
         tx' \in [Conns -> Seq(Wire)],
         UNCHANGED <<backlog, sock, peer, sent, node_map, heap, request, sig_stop>>
  PROVE  IInv'
<1> DEFINE a == cur.ptr
           fd == node.fd
           c == node.client
<1> USE ConstantsAssumption, NullAssumption
<1>1. /\ pc # "ended"
      /\ a \in Addrs /\ fd \in Fds /\ fd \in Handles /\ c \in Conns /\ cur \in Entry /\ cur # NULL
      /\ heap[a] = node /\ heap[a] # NULL /\ ~heap[a].IsServer
      /\ heap[a].fd = fd /\ heap[a].client = c
      /\ node_map[fd] = a /\ sock[fd] = c /\ client[c].socket = fd /\ client[c] # NULL
  BY Handled DEF node, me, Handles, InHand
<1>2. /\ client' = [client EXCEPT ![c] = new] /\ new.socket = fd /\ new # NULL
      /\ epoll' = [epoll EXCEPT ![fd] = [events |-> events, ptr |-> a]]
      /\ [events |-> events, ptr |-> a] \in Entry
  BY <1>1 DEF Entry
<1>3. \/ pc' = "recv" /\ cur' = cur /\ "OUT" \in events
      \/ pc' \in InHand \ {"recv"} /\ cur' = cur
      \/ pc' = "dispatch" /\ cur' = NULL
  OBVIOUS
<1>4. cur' = NULL => new.ex = NewExchange \/ (new.ex.state = "RS_READY" /\ "OUT" \in events)
  BY <1>1
<1> HIDE DEF a, fd, c
<1>5. TypeOK'
  <2>1. epoll' \in [Handles -> Entry \cup {NULL}] /\ client' \in [Conns -> Client \cup {NULL}]
    BY <1>1, <1>2 DEF IInv, TypeOK
  <2>2. pc' \in InHand \cup {"dispatch"} /\ cur' \in Entry \cup {NULL}
    BY <1>1, <1>3 DEF InHand
  <2> QED
    BY <2>1, <2>2 DEF IInv, TypeOK, InHand
<1>6. Control'
  BY <1>1, <1>2, <1>3 DEF IInv, TypeOK, Control, InHand, a
<1>7. TablesAgree'
  BY <1>1, <1>2, <1>3 DEF IInv, TypeOK, TablesAgree, Live, InHand
<1>8. NoDanglingPointer'
  BY <1>1, <1>2, <1>3 DEF IInv, NoDanglingPointer, Live, LiveClientNode, InHand, a
<1>9. OwnConnection'
  <2> SUFFICES ASSUME NEW b \in Addrs, LiveClientNode(b)
               PROVE  /\ heap[b].client # NULL /\ client'[heap[b].client] # NULL
                      /\ client'[heap[b].client].socket = heap[b].fd
                      /\ sock[heap[b].fd] = heap[b].client
    BY DEF OwnConnection, LiveClientNode, Live
  <2>1. heap[b].client \in Conns
    BY DEF IInv, TypeOK, OwnConnection, LiveClientNode, Live, t_node
  <2>2. CASE heap[b].client = c
    BY <1>1, <1>2, <2>1, <2>2 DEF IInv, TypeOK, OwnConnection
  <2>3. CASE heap[b].client # c
    BY <1>1, <1>2, <2>1, <2>3 DEF IInv, TypeOK, OwnConnection
  <2> QED
    BY <2>2, <2>3
<1>10. QueueFresh'
  BY <1>1, <1>2 DEF IInv, TypeOK, QueueFresh
<1>11. NothingForgotten'
  <2> SUFFICES ASSUME NEW b \in Addrs, LiveClientNode(b)', cur' = NULL \/ cur'.ptr # b
               PROVE  LET ex == client'[heap'[b].client].ex IN
                      \/ ex = NewExchange
                      \/ ex.state = "RS_READY" /\ "OUT" \in epoll'[heap'[b].fd].events
    BY DEF NothingForgotten
  <2>1. CASE b = a
    BY <1>1, <1>2, <1>3, <1>4, <2>1 DEF IInv, TypeOK, a
  <2>2. CASE b # a
    <3>1. heap[b].fd # fd /\ heap[b] \in t_node /\ LiveClientNode(b)
      BY <1>1, <2>2 DEF IInv, TypeOK, TablesAgree, LiveClientNode, Live
    <3>2. heap[b].client # c /\ heap[b].client \in Conns
      BY <1>1, <3>1 DEF IInv, OwnConnection, t_node
    <3>3. client'[heap'[b].client] = client[heap[b].client] /\ epoll'[heap'[b].fd] = epoll[heap[b].fd]
      BY <1>1, <1>2, <3>1, <3>2 DEF IInv, TypeOK, t_node
    <3> QED
      BY <2>2, <3>1, <3>3 DEF IInv, NothingForgotten, a
  <2> QED
    BY <2>1, <2>2
<1> QED
  BY <1>5, <1>6, <1>7, <1>8, <1>9, <1>10, <1>11 DEF IInv

(* A handler that leaves the interest set alone, in the form of KeepClient.*)
LEMMA SameInterest ==
  ASSUME IInv, pc \in InHand
  PROVE  /\ epoll[node.fd].events \in SUBSET Event
         /\ epoll = [epoll EXCEPT ![node.fd] =
                       [events |-> epoll[node.fd].events, ptr |-> cur.ptr]]
<1>1. epoll[node.fd] \in Entry /\ epoll[node.fd].ptr = cur.ptr
  BY Handled
<1>2. epoll[node.fd].events \in SUBSET Event
      /\ epoll[node.fd] = [events |-> epoll[node.fd].events, ptr |-> cur.ptr]
  BY <1>1 DEF Entry
<1> QED
  BY <1>2 DEF IInv, TypeOK

LEMMA RecvData == IInv /\ recv_data => IInv'
<1> SUFFICES ASSUME IInv, recv_data PROVE IInv'
  OBVIOUS
<1> USE ConstantsAssumption, NullAssumption
<1>1. /\ pc = "recv"
      /\ UNCHANGED <<backlog, sock, peer, full, sent, tx, epoll, node_map, heap, request, sig_stop>>
  BY DEF recv_data
<1>2. /\ node \in t_node /\ node.client \in Conns /\ me \in Client
      /\ me.socket = node.fd /\ to = node.client /\ rx[to] \in Seq(Chunk)
  BY <1>1, Handled DEF IInv, TypeOK, InHand
<1>3. PICK n \in 1..Len(rx[to]) :
        LET ex == process(me.ex, SubSeq(rx[to], 1, n)) IN
        /\ rx' = [rx EXCEPT ![to] = SubSeq(@, n + 1, Len(@))]
        /\ client' = [client EXCEPT ![node.client] =
             [socket |-> @.socket, ex |-> ex,
              idle |-> IF Breaks(ex) /\ "OUT" \in cur.events THEN 0 ELSE @.idle]]
        /\ \/ ex.state = "RS_CLOSE" /\ pc' = "last" /\ UNCHANGED cur
           \/ ex.state # "RS_CLOSE" /\ ~Breaks(ex) /\ UNCHANGED <<pc, cur>>
           \/ ex.state # "RS_CLOSE" /\ Breaks(ex) /\ "OUT" \in cur.events
                /\ pc' = "send" /\ UNCHANGED cur
           \/ ex.state # "RS_CLOSE" /\ Breaks(ex) /\ "OUT" \notin cur.events /\ BackToBatch
  BY DEF recv_data
<1> DEFINE ex == process(me.ex, SubSeq(rx[to], 1, n))
           idle == IF Breaks(ex) /\ "OUT" \in cur.events THEN 0 ELSE me.idle
           new == [socket |-> me.socket, ex |-> ex, idle |-> idle]
<1>4. ex \in Exchanges
  BY ProcessResult
<1>5. rx' \in [Conns -> Seq(Chunk)]
  <2>1. SubSeq(rx[to], n + 1, Len(rx[to])) \in Seq(Chunk)
    BY <1>2, SubSeqProperties, ElementOfSeq, LenProperties
  <2> QED
    BY <1>2, <1>3, <2>1 DEF IInv, TypeOK
<1>6. /\ client' = [client EXCEPT ![node.client] = new]
      /\ \/ pc' \in {"recv", "send", "last"} /\ cur' = cur
         \/ pc' = "dispatch" /\ cur' = NULL /\ ex.state = "RS_READY"
  BY <1>1, <1>3 DEF me, Breaks, BackToBatch
<1> HIDE DEF ex
<1>7. me = [socket |-> me.socket, ex |-> me.ex, idle |-> me.idle]
      /\ me.socket \in Fds /\ idle \in 0..MAX_IDLE
  BY <1>2, ConstantsAssumption DEF Client
<1> HIDE DEF idle
<1>8. new \in Client /\ new.socket = node.fd /\ new.ex = ex
  BY <1>2, <1>4, <1>7 DEF Client
<1> HIDE DEF new
<1>9. "OUT" \in epoll[node.fd].events
  BY <1>1 DEF IInv, Control, node
<1>10. \/ pc' = "recv" /\ cur' = cur
       \/ pc' \in InHand \ {"recv"} /\ cur' = cur
       \/ pc' = "dispatch" /\ cur' = NULL /\ new.ex.state = "RS_READY"
  BY <1>6, <1>8 DEF InHand
<1>11. epoll' = [epoll EXCEPT ![node.fd] = [events |-> epoll[node.fd].events, ptr |-> cur.ptr]]
       /\ epoll[node.fd].events \in SUBSET Event
  BY <1>1, SameInterest DEF InHand
<1>12. full' \in [Conns -> BOOLEAN] /\ tx' \in [Conns -> Seq(Wire)]
  BY <1>1 DEF IInv, TypeOK
<1> QED
  BY <1>1, <1>5, <1>6, <1>8, <1>9, <1>10, <1>11, <1>12, KeepClient DEF InHand

(* The handler that gives its connection up goes on with it in hand.       *)
LEMMA GivesUp ==
  IInv /\ (recv_fails \/ send_fails \/ send_file_fails \/ send_last) => IInv'
<1> SUFFICES ASSUME IInv, recv_fails \/ send_fails \/ send_file_fails \/ send_last PROVE IInv'
  OBVIOUS
<1>1. /\ pc \in InHand /\ pc' \in {"last", "close"}
      /\ UNCHANGED <<backlog, sock, peer, rx, sent, tables, request, cur, sig_stop>>
  BY DEF recv_fails, send_fails, send_file_fails, send_last, AfterLast, InHand, kernel
<1>2. tx' \in [Conns -> Seq(Wire)] /\ full' \in [Conns -> BOOLEAN]
  <2>1. to \in Conns /\ me.ex \in Exchanges
    BY <1>1, Handled DEF Client
  <2>2. CASE recv_fails \/ send_fails
    BY <2>2 DEF recv_fails, send_fails, kernel, IInv, TypeOK
  <2>3. CASE send_last
    <3>1. WriteNothing \/ (me.ex.outBuf \in Wire /\ Write(to, me.ex.outBuf))
      BY <2>1, <2>3, WordsType DEF send_last
    <3> QED
      BY <2>1, <3>1, WriteType
  <2>4. CASE send_file_fails
    <3>1. CASE WriteNothing
      BY <3>1 DEF WriteNothing, IInv, TypeOK
    <3>2. CASE /\ tx' = [tx EXCEPT ![to] = Append(@, "cut")]
               /\ full' = [full EXCEPT ![to] = TRUE]
      BY <2>1, <3>2 DEF IInv, TypeOK, Wire
    <3> QED
      BY <2>4, <3>1, <3>2 DEF send_file_fails
  <2> QED
    BY <2>2, <2>3, <2>4
<1>3. TypeOK'
  BY <1>1, <1>2 DEF IInv, TypeOK, tables
<1> QED
  BY <1>1, <1>3
  DEF IInv, Control, TablesAgree, NoDanglingPointer, OwnConnection, QueueFresh,
      NothingForgotten, Live, LiveClientNode, InHand, tables

(* Client::Clear_exchange, in the form of KeepClient.                      *)
LEMMA Cleared ==
  ASSUME IInv, pc \in InHand, Clear_exchange(node.client)
  PROVE  \E new \in Client :
           /\ new.socket = node.fd /\ new.ex = NewExchange
           /\ client' = [client EXCEPT ![node.client] = new]
<1>1. me \in Client /\ me.socket = node.fd /\ node.client \in Conns
  BY Handled
<1>2. NewExchange \in Exchanges
  BY DEF NewExchange, Exchanges, ReqState
<1> DEFINE new == [me EXCEPT !.ex = NewExchange]
<1>3. new \in Client /\ new.socket = node.fd /\ new.ex = NewExchange
  BY <1>1, <1>2 DEF Client
<1>4. client' = [client EXCEPT ![node.client] = new]
  BY <1>1 DEF Clear_exchange, me
<1> QED
  BY <1>1, <1>3, <1>4

LEMMA SendResponse == IInv /\ send_response => IInv'
<1> SUFFICES ASSUME IInv, send_response PROVE IInv'
  OBVIOUS
<1>1. pc = "send" /\ UNCHANGED <<backlog, sock, peer, rx, sent, epoll, node_map, heap, request, sig_stop>>
  BY DEF send_response
<1>2. /\ me \in Client /\ me.socket = node.fd /\ to \in Conns /\ node.client \in Conns
      /\ cur.ptr \in Addrs
  BY <1>1, Handled DEF InHand
<1>3. tx' \in [Conns -> Seq(Wire)] /\ full' \in [Conns -> BOOLEAN]
  <2>1. WriteNothing \/ (me.ex.outBuf \in Wire /\ Write(to, me.ex.outBuf))
    BY <1>2, WordsType DEF send_response, Client
  <2> QED
    BY <1>2, <2>1, WriteType
<1>4. rx' \in [Conns -> Seq(Chunk)]
  BY <1>1 DEF IInv, TypeOK
<1>5. /\ epoll' = [epoll EXCEPT ![node.fd] = [events |-> epoll[node.fd].events, ptr |-> cur.ptr]]
      /\ epoll[node.fd].events \in SUBSET Event
  BY <1>1, SameInterest DEF InHand
<1>6. CASE pc' = "file" /\ UNCHANGED <<cur, client>>
  <2>1. client' = [client EXCEPT ![node.client] = me]
    BY <1>2, <1>6 DEF IInv, TypeOK, me
  <2> QED
    BY <1>1, <1>2, <1>3, <1>4, <1>5, <1>6, <2>1, KeepClient DEF InHand
<1>7. CASE Clear_exchange(node.client) /\ BackToBatch
  <2>1. PICK new \in Client :
           /\ new.socket = node.fd /\ new.ex = NewExchange
           /\ client' = [client EXCEPT ![node.client] = new]
    BY <1>1, <1>7, Cleared DEF InHand
  <2>2. pc' = "dispatch" /\ cur' = NULL
    BY <1>7 DEF BackToBatch
  <2> QED
    BY <1>1, <1>3, <1>4, <1>5, <2>1, <2>2, KeepClient DEF InHand
<1> QED
  BY <1>6, <1>7 DEF send_response

LEMMA SendFile == IInv /\ send_file => IInv'
<1> SUFFICES ASSUME IInv, send_file PROVE IInv'
  OBVIOUS
<1> USE ConstantsAssumption, NullAssumption
<1>1. /\ pc = "file" /\ Clear_exchange(node.client) /\ pc' = "dispatch" /\ cur' = NULL
      /\ UNCHANGED <<backlog, sock, peer, rx, sent, node_map, heap, request, sig_stop>>
  BY DEF send_file, BackToBatch
<1>2. to \in Conns /\ cur.ptr \in Addrs /\ epoll[node.fd] # NULL
  BY <1>1, Handled DEF InHand
<1>3. tx' \in [Conns -> Seq(Wire)] /\ full' \in [Conns -> BOOLEAN]
  <2>1. WriteNothing \/ ("file" \in Wire /\ Write(to, "file"))
    BY DEF send_file, Wire
  <2> QED
    BY <1>2, <2>1, WriteType
<1>4. rx' \in [Conns -> Seq(Chunk)]
  BY <1>1 DEF IInv, TypeOK
<1>5. epoll' = [epoll EXCEPT ![node.fd] = [events |-> {"IN"}, ptr |-> cur.ptr]]
      /\ {"IN"} \in SUBSET Event
  BY <1>2 DEF send_file, epoll_mod, node, Event
<1>6. PICK new \in Client :
        /\ new.socket = node.fd /\ new.ex = NewExchange
        /\ client' = [client EXCEPT ![node.client] = new]
  BY <1>1, Cleared DEF InHand
<1> QED
  BY <1>1, <1>3, <1>4, <1>5, <1>6, KeepClient DEF InHand

(* An entry of a client that is taken from the batch.                      *)
LEMMA TakeClient ==
  ASSUME IInv, pc = "dispatch", NEW e \in request, ~heap[e.ptr].IsServer,
         NEW events \in SUBSET Event,
         epoll' = [epoll EXCEPT ![heap[e.ptr].fd] = [events |-> events, ptr |-> e.ptr]],
         Update_Last_Activity(heap[e.ptr].client),
         \/ pc' = "recv" /\ "OUT" \in events
         \/ pc' = "send",
         cur' = e, request' = request \ {e},
         UNCHANGED <<kernel, node_map, heap, sig_stop>>
  PROVE  IInv'
<1> DEFINE a == e.ptr
           fd == heap[e.ptr].fd
           c == heap[e.ptr].client
           new == [client[c] EXCEPT !.idle = 0]
<1> USE ConstantsAssumption, NullAssumption
<1>1. e \in Entry /\ a \in Addrs /\ LiveClientNode(a)
  BY DEF IInv, TypeOK, NoDanglingPointer, LiveClientNode, Entry
<1>2. /\ heap[a] \in t_node /\ fd \in Fds /\ fd \in Handles /\ c \in Conns
      /\ node_map[fd] = a /\ sock[fd] = c /\ client[c] \in Client /\ client[c].socket = fd
      /\ heap[a].fd = fd /\ heap[a].client = c
  BY <1>1, LiveClient
<1>3. new \in Client /\ new.socket = fd /\ new # NULL
  BY <1>2 DEF Client
<1>4. client' = [client EXCEPT ![c] = new]
  BY DEF Update_Last_Activity
<1>5. /\ epoll' = [epoll EXCEPT ![fd] = [events |-> events, ptr |-> a]]
      /\ [events |-> events, ptr |-> a] \in Entry
  BY <1>1 DEF Entry
<1>6. /\ UNCHANGED <<backlog, sock, peer, rx, full, sent, tx, node_map, heap, sig_stop>>
      /\ cur' = e /\ e # NULL /\ request' = request \ {e} /\ pc' \in {"recv", "send"}
      /\ pc' = "recv" => "OUT" \in events
  BY <1>1 DEF kernel
<1> HIDE DEF a, fd, c, new
<1>7. TypeOK'
  <2>0. epoll \in [Handles -> Entry \cup {NULL}]
    BY DEF IInv, TypeOK
  <2>1. epoll' \in [Handles -> Entry \cup {NULL}]
    BY <1>2, <1>5, <2>0, Zenon
  <2>3. client' \in [Conns -> Client \cup {NULL}]
    BY <1>2, <1>3, <1>4 DEF IInv, TypeOK
  <2>2. request' \in SUBSET Entry /\ cur' \in Entry \cup {NULL}
    BY <1>1, <1>6 DEF IInv, TypeOK
  <2> QED
    BY <1>6, <2>1, <2>2, <2>3 DEF IInv, TypeOK
<1>8. Control'
  BY <1>2, <1>5, <1>6 DEF IInv, TypeOK, Control, InHand, a
<1>9. TablesAgree'
  <2>1. \A x \in Handles : /\ epoll'[x] = NULL <=> epoll[x] = NULL
                           /\ epoll[x] # NULL => epoll'[x].ptr = epoll[x].ptr
    BY <1>1, <1>2, <1>5 DEF IInv, TypeOK, TablesAgree
  <2> QED
    BY <1>6, <2>1 DEF IInv, TablesAgree, Live
<1>10. NoDanglingPointer'
  BY <1>1, <1>6 DEF IInv, NoDanglingPointer, Live, LiveClientNode, InHand, a
<1>11. OwnConnection'
  <2> SUFFICES ASSUME NEW b \in Addrs, LiveClientNode(b)
               PROVE  /\ heap[b].client # NULL /\ client'[heap[b].client] # NULL
                      /\ client'[heap[b].client].socket = heap[b].fd
                      /\ sock[heap[b].fd] = heap[b].client
    BY <1>6 DEF OwnConnection, LiveClientNode, Live
  <2>1. heap[b].client \in Conns
    BY DEF IInv, TypeOK, OwnConnection, LiveClientNode, Live, t_node
  <2>2. CASE heap[b].client = c
    BY <1>2, <1>3, <1>4, <2>1, <2>2 DEF IInv, TypeOK, OwnConnection
  <2>3. CASE heap[b].client # c
    BY <1>2, <1>4, <2>1, <2>3 DEF IInv, TypeOK, OwnConnection
  <2> QED
    BY <2>2, <2>3
<1>12. QueueFresh'
  BY <1>2, <1>4, <1>6 DEF IInv, TypeOK, QueueFresh
<1>13. NothingForgotten'
  <2> SUFFICES ASSUME NEW b \in Addrs, LiveClientNode(b)', b # a
               PROVE  LET ex == client'[heap'[b].client].ex IN
                      \/ ex = NewExchange
                      \/ ex.state = "RS_READY" /\ "OUT" \in epoll'[heap'[b].fd].events
    BY <1>6 DEF NothingForgotten, a
  <2>1. LiveClientNode(b) /\ heap' = heap /\ cur = NULL
    BY <1>6 DEF LiveClientNode, Live, IInv, Control, InHand
  <2>2. heap[b].fd # fd /\ heap[b].fd \in Handles /\ heap[b].client # c /\ heap[b].client \in Conns
    BY <1>2, <2>1, LiveClient
  <2>3. client'[heap[b].client] = client[heap[b].client] /\ epoll'[heap[b].fd] = epoll[heap[b].fd]
    BY <1>2, <1>4, <1>5, <2>2 DEF IInv, TypeOK
  <2> QED
    BY <2>1, <2>3 DEF IInv, NothingForgotten
<1> QED
  BY <1>7, <1>8, <1>9, <1>10, <1>11, <1>12, <1>13 DEF IInv

LEMMA ReadOrWriteEvent ==
  ASSUME IInv, NEW e \in request, read_event(e) \/ write_event(e)
  PROVE  IInv'
<1> USE ConstantsAssumption, NullAssumption
<1>1. pc = "dispatch" /\ ~heap[e.ptr].IsServer
  BY DEF read_event, write_event
<1>2. e \in Entry /\ e.ptr \in Addrs /\ LiveClientNode(e.ptr)
  BY <1>1 DEF IInv, TypeOK, NoDanglingPointer, LiveClientNode, Entry
<1>3. /\ epoll[heap[e.ptr].fd] \in Entry /\ epoll[heap[e.ptr].fd].ptr = e.ptr
      /\ heap[e.ptr].fd \in Handles
  BY <1>1, <1>2, LiveClient
<1>4. CASE read_event(e)
  <2>1. epoll' = [epoll EXCEPT ![heap[e.ptr].fd] = [events |-> {"IN", "OUT"}, ptr |-> e.ptr]]
    BY <1>3, <1>4 DEF read_event, epoll_mod
  <2>2. {"IN", "OUT"} \in SUBSET Event
    BY DEF Event
  <2> QED
    BY <1>1, <1>4, <2>1, <2>2, TakeClient DEF read_event
<1>5. CASE write_event(e)
  <2> DEFINE events == epoll[heap[e.ptr].fd].events
  <2>1. events \in SUBSET Event /\ epoll[heap[e.ptr].fd] = [events |-> events, ptr |-> e.ptr]
    BY <1>3 DEF Entry
  <2>2. epoll' = [epoll EXCEPT ![heap[e.ptr].fd] = [events |-> events, ptr |-> e.ptr]]
    BY <1>3, <1>5, <2>1 DEF write_event, IInv, TypeOK
  <2> HIDE DEF events
  <2> QED
    BY <1>1, <1>5, <2>1, <2>2, TakeClient DEF write_event
<1> QED
  BY <1>4, <1>5

-----------------------------------------------------------------------------
(* The kernel and the peers touch none of the tables.                      *)
LEMMA EnvironmentStep == IInv /\ Environment => IInv'
<1> USE ConstantsAssumption, NullAssumption
<1>1. ASSUME IInv, NEW c \in Conns, NEW s \in Servers, Connect(c, s) PROVE IInv'
  <2>1. UNCHANGED <<sock, rx, full, sent, tx, tables, loop>>
        /\ peer[c] = "away" /\ peer' = [peer EXCEPT ![c] = "open"]
        /\ backlog' = [backlog EXCEPT ![s] = @ \cup {c}]
    BY <1>1 DEF Connect
  <2>2. TypeOK'
    BY <1>1, <2>1 DEF IInv, TypeOK, tables, loop
  <2>3. QueueFresh'
    BY <1>1, <2>1 DEF IInv, TypeOK, QueueFresh, tables
  <2> QED
    BY <1>1, <2>1, <2>2, <2>3
    DEF IInv, Control, TablesAgree, NoDanglingPointer, OwnConnection, NothingForgotten,
        Live, LiveClientNode, tables, loop
<1>2. ASSUME IInv, NEW c \in Conns,
             \/ PeerSend(c) \/ PeerDrains(c)
             \/ \E how \in {"shut", "reset"} : PeerLeaves(c, how)
      PROVE  IInv'
  <2>1. UNCHANGED <<backlog, sock, tx, tables, loop>>
    BY <1>2 DEF PeerSend, PeerDrains, PeerLeaves
  <2>2. /\ rx' \in [Conns -> Seq(Chunk)] /\ sent' \in [Conns -> Nat]
        /\ full' \in [Conns -> BOOLEAN]
        /\ peer' \in [Conns -> {"away", "open", "shut", "reset"}]
    <3>1. CASE PeerSend(c)
      <4>1. PICK data \in Inputs : rx' = [rx EXCEPT ![c] = Append(@, data)]
        BY <3>1 DEF PeerSend
      <4>2. data \in Chunk
        OBVIOUS
      <4> QED
        BY <1>2, <3>1, <4>1, <4>2 DEF PeerSend, IInv, TypeOK
    <3>2. CASE PeerDrains(c)
      BY <1>2, <3>2 DEF PeerDrains, IInv, TypeOK
    <3>3. CASE \E how \in {"shut", "reset"} : PeerLeaves(c, how)
      BY <1>2, <3>3 DEF PeerLeaves, IInv, TypeOK
    <3> QED
      BY <1>2, <3>1, <3>2, <3>3
  <2>3. \A d \in Conns : peer'[d] = "away" <=> peer[d] = "away"
    BY <1>2 DEF PeerSend, PeerDrains, PeerLeaves, IInv, TypeOK
  <2>4. TypeOK'
    BY <1>2, <2>1, <2>2 DEF IInv, TypeOK, tables, loop
  <2>5. QueueFresh'
    BY <1>2, <2>1, <2>3 DEF IInv, QueueFresh, tables
  <2> QED
    BY <1>2, <2>1, <2>4, <2>5
    DEF IInv, Control, TablesAgree, NoDanglingPointer, OwnConnection, NothingForgotten,
        Live, LiveClientNode, tables, loop
<1>3. ASSUME IInv, Tick PROVE IInv'
  <2>1. UNCHANGED <<kernel, epoll, node_map, heap, loop>>
    BY <1>3 DEF Tick
  <2>2. \A c \in Conns : /\ client'[c] = NULL <=> client[c] = NULL
                         /\ client[c] # NULL => /\ client'[c] \in Client
                                               /\ client'[c].socket = client[c].socket
                                               /\ client'[c].ex = client[c].ex
    <3> SUFFICES ASSUME NEW c \in Conns
                 PROVE  /\ client'[c] = NULL <=> client[c] = NULL
                        /\ client[c] # NULL => /\ client'[c] \in Client
                                               /\ client'[c].socket = client[c].socket
                                               /\ client'[c].ex = client[c].ex
      OBVIOUS
    <3>1. CASE client[c] # NULL /\ client[c].idle < MAX_IDLE
      <4>1. client[c] \in Client /\ client'[c] = [client[c] EXCEPT !.idle = @ + 1]
        BY <1>3, <3>1 DEF Tick, IInv, TypeOK
      <4>2. client[c].idle + 1 \in 0..MAX_IDLE
        BY <3>1, <4>1 DEF Client
      <4> QED
        BY <3>1, <4>1, <4>2 DEF Client
    <3>2. CASE ~(client[c] # NULL /\ client[c].idle < MAX_IDLE)
      BY <1>3, <3>2 DEF Tick, IInv, TypeOK
    <3> QED
      BY <3>1, <3>2
  <2>3. client' \in [Conns -> Client \cup {NULL}]
    BY <1>3, <2>2 DEF Tick
  <2>4. TypeOK'
    BY <1>3, <2>1, <2>3 DEF IInv, TypeOK, kernel, loop
  <2>5. OwnConnection'
    <3>1. \A a \in Addrs : LiveClientNode(a) => heap[a].client \in Conns
      BY <1>3 DEF IInv, TypeOK, OwnConnection, LiveClientNode, Live, t_node
    <3> QED
      BY <1>3, <2>1, <2>2, <3>1 DEF IInv, OwnConnection, LiveClientNode, Live, kernel
  <2>6. QueueFresh'
    BY <1>3, <2>1, <2>2 DEF IInv, QueueFresh, kernel
  <2>7. NothingForgotten'
    <3>1. \A a \in Addrs : LiveClientNode(a) =>
            client'[heap[a].client].ex = client[heap[a].client].ex
      BY <1>3, <2>2 DEF IInv, TypeOK, OwnConnection, LiveClientNode, Live, t_node
    <3> QED
      BY <1>3, <2>1, <3>1 DEF IInv, NothingForgotten, LiveClientNode, Live, loop
  <2> QED
    BY <1>3, <2>1, <2>4, <2>5, <2>6, <2>7
    DEF IInv, Control, TablesAgree, NoDanglingPointer, Live, LiveClientNode, kernel, loop, InHand
<1>4. ASSUME IInv, signal_handler PROVE IInv'
  <2>1. /\ UNCHANGED <<kernel, tables, request, cur>> /\ sig_stop' = TRUE
        /\ pc' = pc \/ (pc = "wait" /\ pc' = "stopped")
    BY <1>4 DEF signal_handler
  <2> QED
    BY <1>4, <2>1
    DEF IInv, TypeOK, Control, TablesAgree, NoDanglingPointer, OwnConnection, QueueFresh,
        NothingForgotten, Live, LiveClientNode, InHand, kernel, tables
<1> QED
  BY <1>1, <1>2, <1>3, <1>4 DEF Environment

(* The steps that only move the thread.                                    *)
LEMMA MoveStep ==
  ASSUME IInv,
         \/ check_sig_stop \/ enter_epoll_wait
         \/ \E e \in request : accept_fails(e)
  PROVE  IInv'
<1>1. UNCHANGED <<kernel, tables, request, cur, sig_stop>>
  BY DEF check_sig_stop, enter_epoll_wait, accept_fails
<1>2. \/ pc = "top" /\ pc' \in {"stopped", "enter"}
      \/ pc = "enter" /\ pc' = "wait"
      \/ pc = "dispatch" /\ pc' = "exited"
  BY DEF check_sig_stop, enter_epoll_wait, accept_fails
<1> QED
  BY <1>1, <1>2
  DEF IInv, TypeOK, Control, TablesAgree, NoDanglingPointer, OwnConnection, QueueFresh,
      NothingForgotten, Live, LiveClientNode, InHand, kernel, tables

(* What epoll_wait reports are nodes that exist, each of them once.        *)
LEMMA EpollWait == IInv /\ epoll_wait => IInv'
<1> SUFFICES ASSUME IInv, epoll_wait PROVE IInv'
  OBVIOUS
<1> USE ConstantsAssumption, NullAssumption
<1>1. pc = "wait" /\ pc' = "dispatch" /\ UNCHANGED <<kernel, tables, cur, sig_stop>>
  BY DEF epoll_wait
<1>2. PICK S \in SUBSET Ready :
        request' = {[events |-> Fired(h), ptr |-> epoll[h].ptr] : h \in S}
  BY DEF epoll_wait
<1>3. \A h \in S : /\ h \in Handles /\ epoll[h] \in Entry
                   /\ epoll[h].ptr = node_map[h] /\ node_map[h] \in Addrs
                   /\ heap[node_map[h]] # NULL /\ heap[node_map[h]].fd = h
  BY <1>1 DEF Ready, IInv, TypeOK, TablesAgree, Live
<1>4. \A h \in S : Fired(h) \in SUBSET Event
  BY <1>3 DEF Fired, Entry
<1>5. request' \in SUBSET Entry
  BY <1>2, <1>3, <1>4 DEF Entry
<1>6. NoDanglingPointer'
  <2>1. \A e \in request' : \E h \in S : e = [events |-> Fired(h), ptr |-> node_map[h]]
    BY <1>2, <1>3
  <2>2. \A e \in request' : heap[e.ptr] # NULL
    BY <1>3, <2>1
  <2>3. \A e, f \in request' : e.ptr = f.ptr => e = f
    BY <1>3, <2>1
  <2> QED
    BY <1>1, <2>2, <2>3 DEF NoDanglingPointer, Live, tables, InHand
<1>7. TypeOK'
  BY <1>1, <1>5 DEF IInv, TypeOK, kernel, tables
<1> QED
  BY <1>1, <1>6, <1>7
  DEF IInv, Control, TablesAgree, OwnConnection, QueueFresh, NothingForgotten, Live,
      LiveClientNode, kernel, tables, InHand

(* A new client takes a descriptor, an address and a Client that nothing   *)
(* else uses, whatever was closed earlier in the same batch.               *)
LEMMA NewClientSetup ==
  ASSUME IInv, NEW e \in request, new_client_setup(e)
  PROVE  IInv'
<1> USE ConstantsAssumption, NullAssumption
<1> DEFINE s == heap[e.ptr].server
<1>1. /\ pc = "dispatch" /\ request' = request \ {e}
      /\ UNCHANGED <<peer, rx, full, sent, tx, pc, cur, sig_stop>>
  BY DEF new_client_setup
<1>2. s \in Servers
  <2>1. e.ptr \in Addrs /\ heap[e.ptr] # NULL
    BY DEF IInv, TypeOK, NoDanglingPointer, Live, Entry
  <2> QED
    BY <2>1 DEF IInv, TypeOK, t_node
<1>3. PICK c \in backlog[s], fd \in {d \in Fds : sock[d] = NULL}, a \in {b \in Addrs : heap[b] = NULL} :
        /\ backlog' = [backlog EXCEPT ![s] = @ \ {c}]
        /\ sock' = [sock EXCEPT ![fd] = c]
        /\ client' = [client EXCEPT ![c] = NewClient(fd)]
        /\ add_to_node(a, ClientNode(s, fd, c))
        /\ epoll' = [epoll EXCEPT ![fd] = [events |-> {"IN"}, ptr |-> a]]
  BY DEF new_client_setup
<1>4. /\ c \in Conns /\ fd \in Fds /\ fd \in Handles /\ fd \notin Servers /\ a \in Addrs
      /\ heap[a] = NULL /\ sock[fd] = NULL /\ client[c] = NULL
      /\ node_map[fd] = NULL /\ epoll[fd] = NULL /\ c # NULL /\ a # NULL
  BY <1>1, <1>2 DEF IInv, TypeOK, TablesAgree, QueueFresh, Handles
<1> DEFINE cn == ClientNode(s, fd, c)
           nc == NewClient(fd)
           en == [events |-> {"IN"}, ptr |-> a]
<1>5. /\ cn \in t_node /\ cn # NULL /\ cn.fd = fd /\ cn.client = c /\ cn.IsServer = FALSE
      /\ nc \in Client /\ nc # NULL /\ nc.socket = fd /\ nc.ex = NewExchange
      /\ en \in Entry /\ en # NULL /\ en.ptr = a
  <2>1. NewExchange \in Exchanges
    BY DEF NewExchange, Exchanges, ReqState
  <2>2. cn \in t_node /\ cn.fd = fd /\ cn.client = c /\ cn.IsServer = FALSE
    BY <1>2, <1>4 DEF ClientNode, t_node
  <2>3. nc \in Client /\ nc.socket = fd /\ nc.ex = NewExchange
    <3>1. 0 \in 0..MAX_IDLE
      OBVIOUS
    <3> QED
      BY <1>4, <2>1, <3>1 DEF NewClient, Client
  <2>4. en \in Entry /\ en.ptr = a
    BY <1>4 DEF Entry, Event
  <2> HIDE DEF cn, nc, en
  <2> QED
    BY <2>2, <2>3, <2>4
<1>6. /\ heap' = [heap EXCEPT ![a] = cn] /\ node_map' = [node_map EXCEPT ![fd] = a]
  <2>1. cn.fd = fd /\ heap \in [Addrs -> t_node \cup {NULL}]
    BY <1>5 DEF IInv, TypeOK
  <2>2. [b \in Addrs |-> IF b = node_map[fd] THEN NULL ELSE heap[b]] = heap
    BY <1>4, <2>1
  <2>3. /\ heap' = [[b \in Addrs |-> IF b = node_map[cn.fd] THEN NULL ELSE heap[b]] EXCEPT ![a] = cn]
        /\ node_map' = [node_map EXCEPT ![cn.fd] = a]
    BY <1>3 DEF add_to_node
  <2> HIDE DEF cn
  <2> QED
    BY <2>1, <2>2, <2>3
<1>7. /\ sock' = [sock EXCEPT ![fd] = c] /\ client' = [client EXCEPT ![c] = nc]
      /\ epoll' = [epoll EXCEPT ![fd] = en] /\ backlog' = [backlog EXCEPT ![s] = @ \ {c}]
  BY <1>3
<1> HIDE DEF cn, nc, en, s
<1>8. TypeOK'
  <2>1. /\ epoll \in [Handles -> Entry \cup {NULL}] /\ client \in [Conns -> Client \cup {NULL}]
        /\ heap \in [Addrs -> t_node \cup {NULL}] /\ node_map \in [Handles -> Addrs \cup {NULL}]
        /\ sock \in [Fds -> Conns \cup {NULL}] /\ backlog \in [Servers -> SUBSET Conns]
    BY DEF IInv, TypeOK
  <2>2. epoll' \in [Handles -> Entry \cup {NULL}] /\ client' \in [Conns -> Client \cup {NULL}]
    BY <1>4, <1>5, <1>7, <2>1, Zenon
  <2>3. heap' \in [Addrs -> t_node \cup {NULL}] /\ node_map' \in [Handles -> Addrs \cup {NULL}]
    BY <1>4, <1>5, <1>6, <2>1, Zenon
  <2>4. sock' \in [Fds -> Conns \cup {NULL}] /\ backlog' \in [Servers -> SUBSET Conns]
    BY <1>2, <1>4, <1>7, <2>1
  <2> QED
    BY <1>1, <2>2, <2>3, <2>4 DEF IInv, TypeOK
<1>9. Control'
  BY <1>1 DEF IInv, Control, InHand
<1>10. TablesAgree'
  <2>1. \A f \in Fds : (sock'[f] # NULL) <=> (node_map'[f] # NULL)
    BY <1>1, <1>4, <1>6, <1>7 DEF IInv, TypeOK, TablesAgree, Handles
  <2>2. \A h \in Handles : (epoll'[h] # NULL) <=> (node_map'[h] # NULL)
    BY <1>1, <1>4, <1>5, <1>6, <1>7 DEF IInv, TypeOK, TablesAgree
  <2>3. \A h \in Handles : node_map'[h] # NULL =>
          /\ heap'[node_map'[h]] # NULL
          /\ heap'[node_map'[h]].fd = h
          /\ heap'[node_map'[h]].IsServer <=> h \in Servers
          /\ epoll'[h].ptr = node_map'[h]
    <3> SUFFICES ASSUME NEW h \in Handles, node_map'[h] # NULL
                 PROVE  /\ heap'[node_map'[h]] # NULL
                        /\ heap'[node_map'[h]].fd = h
                        /\ heap'[node_map'[h]].IsServer <=> h \in Servers
                        /\ epoll'[h].ptr = node_map'[h]
      OBVIOUS
    <3>1. CASE h = fd
      BY <1>4, <1>5, <1>6, <1>7, <3>1 DEF IInv, TypeOK
    <3>2. CASE h # fd
      <4>1. node_map'[h] = node_map[h] /\ epoll'[h] = epoll[h] /\ node_map[h] \in Addrs /\ node_map[h] # a
        BY <1>1, <1>4, <1>6, <1>7, <3>2 DEF IInv, TypeOK, TablesAgree, Live
      <4> QED
        BY <1>1, <1>6, <3>2, <4>1 DEF IInv, TypeOK, TablesAgree, Live
    <3> QED
      BY <3>1, <3>2
  <2>4. \A b \in Addrs : heap'[b] # NULL => node_map'[heap'[b].fd] = b
    <3> SUFFICES ASSUME NEW b \in Addrs, heap'[b] # NULL PROVE node_map'[heap'[b].fd] = b
      OBVIOUS
    <3>1. CASE b = a
      BY <1>4, <1>5, <1>6, <3>1 DEF IInv, TypeOK
    <3>2. CASE b # a
      <4>1. heap'[b] = heap[b] /\ node_map[heap[b].fd] = b
        BY <1>1, <1>4, <1>6, <3>2 DEF IInv, TypeOK, TablesAgree, Live
      <4> QED
        BY <1>4, <1>6, <4>1 DEF IInv, TypeOK
    <3> QED
      BY <3>1, <3>2
  <2> QED
    BY <2>1, <2>2, <2>3, <2>4 DEF TablesAgree, Live
<1>11. NoDanglingPointer'
  <2>1. \A b \in Addrs : heap[b] # NULL => heap'[b] = heap[b]
    BY <1>4, <1>6 DEF IInv, TypeOK
  <2>2. \A f \in request : f.ptr \in Addrs
    BY DEF IInv, TypeOK, Entry
  <2> QED
    BY <1>1, <2>1, <2>2 DEF IInv, NoDanglingPointer, Live, InHand
<1>12. \A b \in Addrs : LiveClientNode(b)' /\ b # a =>
         /\ LiveClientNode(b) /\ heap'[b] = heap[b]
         /\ heap[b].client \in Conns /\ heap[b].client # c
         /\ heap[b].fd \in Fds /\ heap[b].fd \in Handles /\ heap[b].fd # fd
  <2> SUFFICES ASSUME NEW b \in Addrs, LiveClientNode(b)', b # a
               PROVE  /\ LiveClientNode(b) /\ heap'[b] = heap[b]
                      /\ heap[b].client \in Conns /\ heap[b].client # c
                      /\ heap[b].fd \in Fds /\ heap[b].fd \in Handles /\ heap[b].fd # fd
    OBVIOUS
  <2>1. heap'[b] = heap[b] /\ LiveClientNode(b)
    BY <1>6 DEF IInv, TypeOK, LiveClientNode, Live
  <2>2. /\ heap[b].fd \in Fds /\ heap[b].fd \in Handles /\ heap[b].client \in Conns
        /\ sock[heap[b].fd] = heap[b].client /\ client[heap[b].client] \in Client
    BY <1>1, <2>1, LiveClient
  <2> QED
    BY <1>4, <2>1, <2>2
<1>13. OwnConnection'
  <2> SUFFICES ASSUME NEW b \in Addrs, LiveClientNode(b)'
               PROVE  /\ heap'[b].client # NULL /\ client'[heap'[b].client] # NULL
                      /\ client'[heap'[b].client].socket = heap'[b].fd
                      /\ sock'[heap'[b].fd] = heap'[b].client
    BY DEF OwnConnection
  <2>1. CASE b = a
    BY <1>4, <1>5, <1>6, <1>7, <2>1 DEF IInv, TypeOK
  <2>2. CASE b # a
    <3>1. /\ heap'[b] = heap[b] /\ client'[heap[b].client] = client[heap[b].client]
          /\ sock'[heap[b].fd] = sock[heap[b].fd] /\ LiveClientNode(b)
      BY <1>4, <1>7, <1>12, <2>2 DEF IInv, TypeOK
    <3> QED
      BY <3>1 DEF IInv, OwnConnection
  <2> QED
    BY <2>1, <2>2
<1>14. QueueFresh'
  BY <1>1, <1>2, <1>4, <1>7 DEF IInv, TypeOK, QueueFresh
<1>15. NothingForgotten'
  <2> SUFFICES ASSUME NEW b \in Addrs, LiveClientNode(b)'
               PROVE  LET ex == client'[heap'[b].client].ex IN
                      \/ ex = NewExchange
                      \/ ex.state = "RS_READY" /\ "OUT" \in epoll'[heap'[b].fd].events
    BY DEF NothingForgotten
  <2>1. CASE b = a
    BY <1>4, <1>5, <1>6, <1>7, <2>1 DEF IInv, TypeOK
  <2>2. CASE b # a
    <3>1. /\ heap'[b] = heap[b] /\ client'[heap[b].client] = client[heap[b].client]
          /\ epoll'[heap[b].fd] = epoll[heap[b].fd] /\ LiveClientNode(b) /\ cur = NULL
      BY <1>1, <1>4, <1>7, <1>12, <2>2 DEF IInv, TypeOK, Control, InHand
    <3> QED
      BY <3>1 DEF IInv, NothingForgotten
  <2> QED
    BY <2>1, <2>2
<1> QED
  BY <1>8, <1>9, <1>10, <1>11, <1>13, <1>14, <1>15 DEF IInv

(* close_inactive_clients, run between two batches, forgets whole clients. *)
LEMMA CloseInactive == IInv /\ close_inactive_clients => IInv'
<1> SUFFICES ASSUME IInv, close_inactive_clients PROVE IInv'
  OBVIOUS
<1> USE ConstantsAssumption, NullAssumption
<1> DEFINE Old == {h \in Handles : Inactive(h)}
<1>1. /\ pc = "dispatch" /\ pc' = "top" /\ request = {} /\ cur = NULL
      /\ UNCHANGED <<backlog, peer, rx, full, sent, tx, client, request, cur, sig_stop>>
  BY DEF close_inactive_clients, FreeInactive, IInv, Control, InHand
<1>2. /\ epoll' = [h \in Handles |-> IF h \in Old THEN NULL ELSE epoll[h]]
      /\ sock' = [fd \in Fds |-> IF fd \in Old THEN NULL ELSE sock[fd]]
      /\ heap' = [a \in Addrs |-> IF \E h \in Old : node_map[h] = a THEN NULL ELSE heap[a]]
      /\ node_map' = [h \in Handles |-> IF h \in Old THEN NULL ELSE node_map[h]]
  BY DEF close_inactive_clients, FreeInactive
<1>3. Old \subseteq Handles
  OBVIOUS
<1> HIDE DEF Old
<1>4. /\ epoll \in [Handles -> Entry \cup {NULL}] /\ heap \in [Addrs -> t_node \cup {NULL}]
      /\ node_map \in [Handles -> Addrs \cup {NULL}] /\ sock \in [Fds -> Conns \cup {NULL}]
  BY DEF IInv, TypeOK
<1>5. /\ epoll' \in [Handles -> Entry \cup {NULL}] /\ heap' \in [Addrs -> t_node \cup {NULL}]
      /\ node_map' \in [Handles -> Addrs \cup {NULL}] /\ sock' \in [Fds -> Conns \cup {NULL}]
  BY <1>2, <1>4
<1>6. TypeOK'
  BY <1>1, <1>5 DEF IInv, TypeOK
<1>7. Control'
  BY <1>1 DEF IInv, Control, InHand
<1>8. \A b \in Addrs : heap'[b] # NULL =>
        /\ heap'[b] = heap[b] /\ heap[b] # NULL /\ heap[b].fd \in Handles
        /\ node_map[heap[b].fd] = b /\ heap[b].fd \notin Old
  BY <1>1, <1>2, <1>4 DEF IInv, TablesAgree, Live, t_node
<1>9. TablesAgree'
  <2>1. \A f \in Fds : (sock'[f] # NULL) <=> (node_map'[f] # NULL)
    BY <1>1, <1>2 DEF IInv, TablesAgree, Handles
  <2>2. \A h \in Handles : (epoll'[h] # NULL) <=> (node_map'[h] # NULL)
    BY <1>1, <1>2 DEF IInv, TablesAgree
  <2>3. \A h \in Handles : node_map'[h] # NULL =>
          /\ heap'[node_map'[h]] # NULL
          /\ heap'[node_map'[h]].fd = h
          /\ heap'[node_map'[h]].IsServer <=> h \in Servers
          /\ epoll'[h].ptr = node_map'[h]
    <3> SUFFICES ASSUME NEW h \in Handles, node_map'[h] # NULL
                 PROVE  /\ heap'[node_map'[h]] # NULL
                        /\ heap'[node_map'[h]].fd = h
                        /\ heap'[node_map'[h]].IsServer <=> h \in Servers
                        /\ epoll'[h].ptr = node_map'[h]
      OBVIOUS
    <3>1. /\ h \notin Old /\ node_map'[h] = node_map[h] /\ epoll'[h] = epoll[h]
          /\ node_map[h] \in Addrs
      BY <1>2, <1>4
    <3>2. /\ heap[node_map[h]] # NULL /\ heap[node_map[h]].fd = h
          /\ heap[node_map[h]].IsServer <=> h \in Servers
          /\ epoll[h].ptr = node_map[h]
      BY <1>1, <3>1 DEF IInv, TablesAgree, Live
    <3>3. \A g \in Old : node_map[g] # node_map[h]
      BY <1>1, <1>3, <3>1, <3>2 DEF IInv, TablesAgree
    <3>4. heap'[node_map[h]] = heap[node_map[h]]
      BY <1>2, <3>1, <3>3
    <3> QED
      BY <3>1, <3>2, <3>4
  <2>4. \A b \in Addrs : heap'[b] # NULL => node_map'[heap'[b].fd] = b
    BY <1>2, <1>8
  <2> QED
    BY <2>1, <2>2, <2>3, <2>4 DEF TablesAgree, Live
<1>10. NoDanglingPointer'
  BY <1>1 DEF NoDanglingPointer, InHand
<1>11. \A b \in Addrs : LiveClientNode(b)' =>
         /\ LiveClientNode(b) /\ heap'[b] = heap[b]
         /\ epoll'[heap[b].fd] = epoll[heap[b].fd] /\ sock'[heap[b].fd] = sock[heap[b].fd]
  <2> SUFFICES ASSUME NEW b \in Addrs, LiveClientNode(b)'
               PROVE  /\ LiveClientNode(b) /\ heap'[b] = heap[b]
                      /\ epoll'[heap[b].fd] = epoll[heap[b].fd]
                      /\ sock'[heap[b].fd] = sock[heap[b].fd]
    OBVIOUS
  <2>1. LiveClientNode(b) /\ heap'[b] = heap[b] /\ heap[b].fd \notin Old
    BY <1>8 DEF LiveClientNode, Live
  <2>2. heap[b].fd \in Fds /\ heap[b].fd \in Handles
    BY <1>1, <2>1, LiveClient
  <2> QED
    BY <1>2, <2>1, <2>2
<1>12. OwnConnection'
  BY <1>1, <1>11 DEF IInv, OwnConnection
<1>13. QueueFresh'
  BY <1>1 DEF IInv, QueueFresh
<1>14. NothingForgotten'
  BY <1>1, <1>11 DEF IInv, NothingForgotten
<1> QED
  BY <1>6, <1>7, <1>9, <1>10, <1>12, <1>13, <1>14 DEF IInv

(* The end of Start_all_servers leaves no node behind.                     *)
LEMMA ShutdownStep == IInv /\ shutdown => IInv'
<1> SUFFICES ASSUME IInv, shutdown PROVE IInv'
  OBVIOUS
<1> USE ConstantsAssumption, NullAssumption
<1>1. /\ pc = "stopped" /\ pc' = "ended" /\ request = {} /\ cur = NULL
      /\ UNCHANGED <<sock, peer, rx, full, sent, tx, epoll, request, cur, sig_stop>>
      /\ backlog' = [s \in Servers |-> {}] /\ node_map' = [h \in Handles |-> NULL]
      /\ heap' = [a \in Addrs |-> IF \E h \in Handles : node_map[h] = a THEN NULL ELSE heap[a]]
  BY DEF shutdown, IInv, Control, InHand
<1>2. \A c \in Conns : client'[c] = client[c] \/ client'[c] = NULL
  BY DEF shutdown
<1>3. client' \in [Conns -> Client \cup {NULL}]
  BY DEF shutdown, IInv, TypeOK
<1>4. heap \in [Addrs -> t_node \cup {NULL}]
  BY DEF IInv, TypeOK
<1>5. \A a \in Addrs : heap'[a] = NULL
  <2> SUFFICES ASSUME NEW a \in Addrs PROVE heap'[a] = NULL
    OBVIOUS
  <2>1. CASE heap[a] = NULL
    BY <1>1, <2>1
  <2>2. CASE heap[a] # NULL
    <3>1. heap[a].fd \in Handles /\ node_map[heap[a].fd] = a
      BY <1>1, <1>4, <2>2 DEF IInv, TablesAgree, Live, t_node
    <3> QED
      BY <1>1, <3>1
  <2> QED
    BY <2>1, <2>2
<1>6. heap' \in [Addrs -> t_node \cup {NULL}]
  BY <1>1, <1>4
<1>7. TypeOK'
  BY <1>1, <1>3, <1>6 DEF IInv, TypeOK
<1>8. QueueFresh'
  BY <1>1, <1>2 DEF IInv, QueueFresh
<1> QED
  BY <1>1, <1>5, <1>7, <1>8
  DEF IInv, Control, TablesAgree, NoDanglingPointer, OwnConnection, NothingForgotten, Live,
      LiveClientNode, InHand

LEMMA InitIInv == Init => IInv
<1> SUFFICES ASSUME Init PROVE IInv
  OBVIOUS
<1> USE ConstantsAssumption, NullAssumption
<1>1. /\ sock = [fd \in Fds |-> NULL] /\ client = [c \in Conns |-> NULL]
      /\ backlog = [s \in Servers |-> {}] /\ peer = [c \in Conns |-> "away"]
      /\ pc = "top" /\ request = {} /\ cur = NULL /\ sig_stop = FALSE
  BY DEF Init
<1>2. PICK at \in [Servers -> Addrs] :
        /\ \A s, t \in Servers : at[s] = at[t] => s = t
        /\ heap = [a \in Addrs |-> IF \E s \in Servers : at[s] = a
                     THEN ServerNode(CHOOSE s \in Servers : at[s] = a) ELSE NULL]
        /\ node_map = [h \in Handles |-> IF h \in Servers THEN at[h] ELSE NULL]
        /\ epoll = [h \in Handles |-> IF h \in Servers
                      THEN [events |-> {"IN"}, ptr |-> at[h]] ELSE NULL]
  BY DEF Init
<1>3. \A s \in Servers : s \in Handles /\ at[s] \in Addrs /\ heap[at[s]] = ServerNode(s)
  BY <1>2 DEF Handles
<1>4. \A a \in Addrs : heap[a] = NULL \/ \E s \in Servers : at[s] = a /\ heap[a] = ServerNode(s)
  BY <1>2, <1>3
<1>5. \A s \in Servers : /\ ServerNode(s) \in t_node /\ ServerNode(s).IsServer
                         /\ ServerNode(s).fd = s /\ ServerNode(s) # NULL
  <2> SUFFICES ASSUME NEW s \in Servers
               PROVE  /\ ServerNode(s) \in t_node /\ ServerNode(s).IsServer
                      /\ ServerNode(s).fd = s
    BY NullAssumption
  <2> QED
    BY <1>3 DEF ServerNode, t_node
<1>9. \A s \in Servers : /\ [events |-> {"IN"}, ptr |-> at[s]] \in Entry
                         /\ [events |-> {"IN"}, ptr |-> at[s]] # NULL
  <2>1. {"IN"} \in SUBSET Event
    BY DEF Event
  <2> QED
    BY <1>3, <2>1, NullAssumption DEF Entry
<1>6. TypeOK
  <2>1. heap \in [Addrs -> t_node \cup {NULL}]
    <3>1. \A a \in Addrs : heap[a] \in t_node \cup {NULL}
      BY <1>4, <1>5
    <3> QED
      BY <1>2, <3>1, Zenon
  <2>2. node_map \in [Handles -> Addrs \cup {NULL}]
    BY <1>2, <1>3
  <2>3. epoll \in [Handles -> Entry \cup {NULL}]
    BY <1>2, <1>3, <1>9
  <2>4. /\ rx \in [Conns -> Seq(Chunk)] /\ tx \in [Conns -> Seq(Wire)]
        /\ full \in [Conns -> BOOLEAN] /\ sent \in [Conns -> Nat]
    BY ShortSeq DEF Init
  <2> QED
    BY <1>1, <2>1, <2>2, <2>3, <2>4 DEF TypeOK
<1>7. TablesAgree
  <2>1. \A h \in Handles : h \notin Servers => node_map[h] = NULL /\ epoll[h] = NULL
    BY <1>2
  <2>2. \A s \in Servers : node_map[s] = at[s] /\ node_map[s] # NULL
    <3> SUFFICES ASSUME NEW s \in Servers PROVE node_map[s] = at[s] /\ at[s] # NULL
      OBVIOUS
    <3>1. node_map[s] = at[s]
      BY <1>2, <1>3
    <3> QED
      BY <1>3, <3>1
  <2>3. \A s \in Servers : epoll[s] # NULL /\ epoll[s].ptr = at[s]
    <3> SUFFICES ASSUME NEW s \in Servers PROVE epoll[s] # NULL /\ epoll[s].ptr = at[s]
      OBVIOUS
    <3>1. epoll[s] = [events |-> {"IN"}, ptr |-> at[s]]
      BY <1>2, <1>3
    <3> QED
      BY <1>9, <3>1
  <2>4. \A fd \in Fds : fd \in Handles /\ fd \notin Servers
    BY DEF Handles
  <2>5. \A h \in Handles : node_map[h] # NULL =>
          h \in Servers /\ heap[node_map[h]] = ServerNode(h)
    BY <1>3, <2>1, <2>2
  <2>6. \A a \in Addrs : heap[a] # NULL =>
          heap[a].fd \in Servers /\ node_map[heap[a].fd] = a
    BY <1>4, <1>5, <2>2
  <2>7. \A fd \in Fds : (sock[fd] # NULL) <=> (node_map[fd] # NULL)
    BY <1>1, <2>1, <2>4
  <2>8. \A h \in Handles : (epoll[h] # NULL) <=> (node_map[h] # NULL)
    BY <2>1, <2>2, <2>3
  <2> QED
    BY <1>5, <2>2, <2>3, <2>5, <2>6, <2>7, <2>8 DEF TablesAgree, Live
<1>8. \A a \in Addrs : ~LiveClientNode(a)
  BY <1>4, <1>5 DEF LiveClientNode, Live
<1>10. Control /\ NoDanglingPointer /\ QueueFresh
  BY <1>1 DEF Control, NoDanglingPointer, QueueFresh, InHand
<1> QED
  BY <1>6, <1>7, <1>8, <1>10 DEF IInv, OwnConnection, NothingForgotten

(* The fields a state formula of the loop reads are all variables.         *)
LEMMA StutterStep == IInv /\ UNCHANGED vars => IInv'
BY DEF IInv, TypeOK, Control, TablesAgree, NoDanglingPointer, OwnConnection, QueueFresh,
       NothingForgotten, Live, LiveClientNode, vars, kernel, tables, loop, InHand

LEMMA NextIInv == IInv /\ [Next]_vars => IInv'
<1> SUFFICES ASSUME IInv, [Next]_vars PROVE IInv'
  OBVIOUS
<1>1. CASE Environment
  BY <1>1, EnvironmentStep
<1>2. CASE Loop
  <2>1. CASE check_sig_stop \/ enter_epoll_wait \/ \E e \in request : accept_fails(e)
    BY <2>1, MoveStep
  <2>2. CASE epoll_wait
    BY <2>2, EpollWait
  <2>3. ASSUME NEW e \in request, new_client_setup(e) PROVE IInv'
    BY <2>3, NewClientSetup
  <2>4. ASSUME NEW e \in request, read_event(e) \/ write_event(e) PROVE IInv'
    BY <2>4, ReadOrWriteEvent
  <2>5. CASE recv_data
    BY <2>5, RecvData
  <2>6. CASE recv_fails \/ send_fails \/ send_file_fails \/ send_last
    BY <2>6, GivesUp
  <2>7. CASE send_response
    BY <2>7, SendResponse
  <2>8. CASE send_file
    BY <2>8, SendFile
  <2>9. CASE close_inactive_clients
    BY <2>9, CloseInactive
  <2>10. CASE shutdown
    BY <2>10, ShutdownStep
  <2>11. CASE close_client
    BY <2>11, CloseClient
  <2> QED
    BY <1>2, <2>1, <2>2, <2>3, <2>4, <2>5, <2>6, <2>7, <2>8, <2>9, <2>10, <2>11 DEF Loop
<1>3. CASE Terminated \/ UNCHANGED vars
  BY <1>3, StutterStep DEF Terminated
<1> QED
  BY <1>1, <1>2, <1>3 DEF Next

-----------------------------------------------------------------------------
(* The theorems.                                                           *)

(* The inductive invariant holds of every state the server reaches: that   *)
(* of socket_manager.cpp 6-48 and of all the handlers it calls.            *)
THEOREM Invariance == Spec => []IInv
<1> QED
  BY InitIInv, NextIInv, PTL DEF Spec

(* Every variable keeps values of its kind.                                *)
THEOREM TypeCorrect == Spec => []TypeOK
<1>1. IInv => TypeOK
  BY DEF IInv
<1> QED
  BY <1>1, Invariance, PTL

(* The descriptors of the process, the registrations of epoll and the map  *)
(* of Monitor never disagree (Server.cpp 137-165, Server_functions.cpp     *)
(* 195-206, Monitor.cpp 16-53).                                            *)
THEOREM TablesAlwaysAgree == Spec => []TablesAgree
<1>1. IInv => TablesAgree
  BY DEF IInv
<1> QED
  BY <1>1, Invariance, PTL

(* No entry of a batch, and no handler, uses a node that was freed         *)
(* (socket_manager.cpp 16-45).                                             *)
THEOREM NeverDangling == Spec => []NoDanglingPointer
<1>1. IInv => NoDanglingPointer
  BY DEF IInv
<1> QED
  BY <1>1, Invariance, PTL

(* A connection is read and answered through its own Client only           *)
(* (Server.cpp 137-196).                                                   *)
THEOREM ClientsApart == Spec => []OwnConnection
<1>1. IInv => OwnConnection
  BY DEF IInv
<1> QED
  BY <1>1, Invariance, PTL

(* Between two events no request is half read and no response is without   *)
(* EPOLLOUT to send it (Server.cpp 88-196, socket_manager.cpp 27).         *)
THEOREM NeverForgotten == Spec => []NothingForgotten
<1>1. IInv => NothingForgotten
  BY DEF IInv
<1> QED
  BY <1>1, Invariance, PTL
=============================================================================
