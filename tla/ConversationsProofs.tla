------------------------ MODULE ConversationsProofs -------------------------
(***************************************************************************)
(* The event loop implements Conversations, and leaks a Client on one path *)
(* only, for any number of servers, descriptors, connections, addresses.   *)
(***************************************************************************)
EXTENDS EventLoopProofs

(* What a Client holds between two steps: an exchange that process left,   *)
(* and a refused one only while its connection is being given up.  What is *)
(* sent after a response follows it.                                       *)
Stored == {Served(p) : p \in Page} \cup {Reading, NewExchange}
StoredInv == \A c \in Conns : client[c] # NULL =>
               client[c].ex \in Stored \/ (client[c].ex = Refused /\ GivenUp(c))
FileInv ==
  pc = "file" => /\ me.ex \in {Served(p) : p \in {"file", "dir"}}
                 /\ tx[to] # <<>> /\ tx[to][Len(tx[to])] \in {"page", "cut"}

(* The nodes of servers have no Client.                                    *)
ServerInv == \A a \in Addrs : Live(a) /\ heap[a].IsServer => heap[a].client = NULL

RInv == IInv /\ StoredInv /\ FileInv /\ ServerInv

-----------------------------------------------------------------------------
(* The strengthening is inductive.                                         *)

LEMMA Outcome ==
  ASSUME NEW ex, NEW data
  PROVE  /\ process(ex, data) \in Stored \cup {Refused}
         /\ process(ex, data).state = "RS_CLOSE" => process(ex, data) = Refused
         /\ ex.state = "RS_READY" => process(ex, data) = Refused
<1>1. process(ex, data) \in Stored \cup {Refused}
  BY DEF process, Stored, Page
<1>2. \A p \in Page : Served(p).state = "RS_READY"
  BY DEF Served
<1>3. Reading.state = "RS_HEADERS_READ" /\ NewExchange.state = "RS_IDLE"
  BY DEF Reading, NewExchange
<1>4. ex.state = "RS_READY" => process(ex, data) = Refused
  BY DEF process
<1> QED BY <1>1, <1>2, <1>3, <1>4 DEF Stored

(* What a handler works on.                                                *)
LEMMA ClientInHand ==
  ASSUME RInv, pc \in InHand
  PROVE  /\ cur \in Entry /\ cur.ptr \in Addrs /\ heap[cur.ptr] = node /\ ~node.IsServer
         /\ node \in t_node /\ node # NULL /\ node.fd \in Fds /\ node.client \in Conns
         /\ client[node.client] = me /\ me # NULL
         /\ me.ex \in Stored \/ (me.ex = Refused /\ pc \in {"last", "close"})
         /\ me.socket = node.fd /\ to = node.client /\ sock[node.fd] = node.client
<1>1. IInv
  BY DEF RInv
<1>2. client[node.client] = me /\ heap[cur.ptr] = node
  BY DEF me, node
<1>3. me # NULL /\ node # NULL
  BY <1>1, Handled, NullAssumption
<1> QED BY <1>1, <1>2, <1>3, Handled DEF RInv, StoredInv, GivenUp

(* Each step leaves a Client its exchange, or one that process made or a   *)
(* fresh one; one that is given up stays so until it is gone; and no node  *)
(* it makes is a server's.                                                 *)
ExchangesKept == \A c \in Conns : client'[c] # NULL =>
  \/ client[c] # NULL /\ client'[c].ex = client[c].ex /\ (GivenUp(c) => GivenUp(c)')
  \/ client'[c].ex \in Stored
  \/ client'[c].ex = Refused /\ GivenUp(c)'
NodesKept == \A a \in Addrs : heap'[a] # NULL => heap'[a] = heap[a] \/ ~heap'[a].IsServer

LEMMA ClosedKeeps ==
  ASSUME RInv, close_client
  PROVE  ExchangesKept /\ NodesKept /\ pc' = "dispatch"
<1>1. /\ client' = [client EXCEPT ![node.client] = NULL] /\ heap' = [heap EXCEPT ![cur.ptr] = NULL]
      /\ pc = "close" /\ pc' = "dispatch"
  BY DEF close_client, delete_client, BackToBatch
<1>2. client \in [Conns -> Client \cup {NULL}] /\ heap \in [Addrs -> t_node \cup {NULL}]
  BY DEF RInv, IInv, TypeOK
<1>3. cur.ptr \in Addrs /\ node.client \in Conns
  BY <1>1, ClientInHand DEF InHand
<1>4. \A c \in Conns : client'[c] # NULL => client'[c] = client[c] /\ ~GivenUp(c)
  BY <1>1, <1>2, <1>3 DEF GivenUp
<1> QED BY <1>1, <1>2, <1>3, <1>4 DEF ExchangesKept, NodesKept

LEMMA ClientKeeps ==
  ASSUME RInv, NEW c \in Conns, client[c] # NULL, NEW new,
         client' = [client EXCEPT ![c] = new],
         \/ new.ex = client[c].ex
         \/ new.ex \in Stored
         \/ new.ex = Refused /\ GivenUp(c)',
         heap' = heap, pc \notin {"last", "close"}
  PROVE  ExchangesKept /\ NodesKept
<1>1. client \in [Conns -> Client \cup {NULL}] /\ \A d \in Conns : ~GivenUp(d)
  BY DEF RInv, IInv, TypeOK, GivenUp
<1> QED BY <1>1 DEF ExchangesKept, NodesKept

LEMMA LoopKeeps ==
  ASSUME RInv, Loop
  PROVE  ExchangesKept /\ NodesKept /\ (pc' = "file" => send_response)
<1> USE ConstantsAssumption, NullAssumption
<1>1. CASE check_sig_stop \/ enter_epoll_wait \/ epoll_wait \/ \E e \in request : accept_fails(e)
  BY <1>1 DEF check_sig_stop, enter_epoll_wait, epoll_wait, accept_fails, tables, ExchangesKept,
              NodesKept, GivenUp
<1>2. ASSUME NEW e \in request, new_client_setup(e) PROVE ExchangesKept /\ NodesKept /\ pc' # "file"
  <2> DEFINE s == heap[e.ptr].server
  <2>1. PICK c \in Conns, fd \in Fds, a \in Addrs :
          /\ client' = [client EXCEPT ![c] = NewClient(fd)]
          /\ add_to_node(a, ClientNode(s, fd, c))
    <3>1. s \in Servers
      <4>1. e.ptr \in Addrs /\ heap[e.ptr] # NULL
        BY <1>2 DEF RInv, IInv, TypeOK, NoDanglingPointer, Live, Entry
      <4> QED BY <4>1 DEF RInv, IInv, TypeOK, t_node
    <3> QED BY <1>2, <3>1 DEF new_client_setup, RInv, IInv, TypeOK
  <2>2. NewClient(fd).ex \in Stored
    BY DEF NewClient, Stored
  <2>3. ~ClientNode(s, fd, c).IsServer
    BY DEF ClientNode
  <2>4. ExchangesKept
    BY <1>2, <2>1, <2>2 DEF ExchangesKept, RInv, IInv, TypeOK, GivenUp, new_client_setup
  <2> DEFINE cn == ClientNode(s, fd, c)
  <2>5. heap' = [[b \in Addrs |-> IF b = node_map[cn.fd] THEN NULL ELSE heap[b]] EXCEPT ![a] = cn]
    BY <2>1 DEF add_to_node
  <2> HIDE DEF cn
  <2>6. \A b \in Addrs : heap'[b] = cn \/ heap'[b] = NULL \/ heap'[b] = heap[b]
    BY <2>5
  <2>7. NodesKept
    BY <2>3, <2>6 DEF NodesKept, cn
  <2> QED BY <1>2, <2>4, <2>7 DEF new_client_setup
<1>3. ASSUME NEW e \in request, read_event(e) \/ write_event(e)
      PROVE  ExchangesKept /\ NodesKept /\ pc' # "file"
  <2>1. /\ client' = [client EXCEPT ![heap[e.ptr].client].idle = 0] /\ heap' = heap
        /\ pc = "dispatch" /\ pc' \in {"recv", "send"}
    BY <1>3 DEF read_event, write_event, Update_Last_Activity
  <2>2. client' = [client EXCEPT ![heap[e.ptr].client] = [@ EXCEPT !.idle = 0]]
    BY <2>1
  <2>3. heap[e.ptr].client \in Conns /\ client[heap[e.ptr].client] \in Client
    <3>1. e.ptr \in Addrs /\ LiveClientNode(e.ptr) /\ pc # "ended"
      BY <1>3 DEF RInv, IInv, TypeOK, NoDanglingPointer, Live, Entry, LiveClientNode,
                  read_event, write_event
    <3> QED BY <3>1, LiveClient DEF RInv
  <2>4. [client[heap[e.ptr].client] EXCEPT !.idle = 0].ex = client[heap[e.ptr].client].ex
    BY <2>3 DEF Client
  <2>5. ExchangesKept /\ NodesKept
    BY <2>1, <2>2, <2>3, <2>4, ClientKeeps
  <2> QED BY <2>1, <2>5
<1>4. CASE recv_data
  <2>1. PICK n \in 1..Len(rx[to]) :
          LET ex == process(me.ex, SubSeq(rx[to], 1, n)) IN
          /\ client' = [client EXCEPT ![node.client] =
               [socket |-> @.socket, ex |-> ex,
                idle |-> IF Breaks(ex) /\ "OUT" \in cur.events THEN 0 ELSE @.idle]]
          /\ \/ ex.state = "RS_CLOSE" /\ pc' = "last" /\ cur' = cur
             \/ ex.state # "RS_CLOSE" /\ pc' \in {"recv", "send", "dispatch"}
    BY <1>4 DEF recv_data, BackToBatch
  <2> DEFINE ex == process(me.ex, SubSeq(rx[to], 1, n))
             new == [socket |-> me.socket, ex |-> ex,
                     idle |-> IF Breaks(ex) /\ "OUT" \in cur.events THEN 0 ELSE me.idle]
  <2>2. pc = "recv" /\ heap' = heap
    BY <1>4 DEF recv_data
  <2>3. /\ ex \in Stored \cup {Refused}
        /\ (ex.state = "RS_CLOSE" => ex = Refused)
    BY Outcome
  <2>4. client' = [client EXCEPT ![node.client] = new] /\ pc' # "file"
    BY <2>1 DEF me
  <2>5. \/ ex.state = "RS_CLOSE" /\ pc' = "last" /\ cur' = cur
        \/ ex.state # "RS_CLOSE"
    BY <2>1
  <2>6. new.ex = ex
    OBVIOUS
  <2>7. Refused.state = "RS_CLOSE"
    BY DEF Refused
  <2> HIDE DEF ex, new
  <2>8. node.client \in Conns /\ client[node.client] # NULL
    BY <2>2, ClientInHand DEF InHand
  <2>9. new.ex \in Stored \/ (new.ex = Refused /\ GivenUp(node.client)')
    <3>1. CASE ex = Refused
      <4>1. pc' = "last" /\ node' = node
        BY <2>2, <2>5, <2>7, <3>1 DEF node
      <4> QED BY <2>6, <3>1, <4>1 DEF GivenUp
    <3>2. CASE ex \in Stored
      BY <2>6, <3>2
    <3> QED BY <2>3, <3>1, <3>2
  <2>10. PICK c \in Conns : c = node.client
    BY <2>8
  <2>11. new.ex \in Stored \/ (new.ex = Refused /\ GivenUp(c)')
    BY <2>2, <2>3, <2>5, <2>6, <2>7, <2>9, <2>10 DEF GivenUp, node
  <2> QED BY <2>2, <2>4, <2>8, <2>10, <2>11, ClientKeeps
<1>5. CASE recv_fails \/ send_fails \/ send_file_fails \/ send_last
  <2>1. /\ UNCHANGED <<client, heap, cur>> /\ pc' \in {"last", "close"}
    BY <1>5 DEF recv_fails, send_fails, send_file_fails, send_last, AfterLast, tables
  <2>2. \A c \in Conns : GivenUp(c) => GivenUp(c)'
    BY <2>1 DEF GivenUp, node
  <2> QED BY <2>1, <2>2 DEF ExchangesKept, NodesKept
<1>12. CASE close_client
  BY <1>12, ClosedKeeps
<1>6. CASE send_response \/ send_file
  <2>1. /\ pc \in {"send", "file"} /\ heap' = heap
        /\ client' = client \/ client' = [client EXCEPT ![node.client].ex = NewExchange]
        /\ send_response \/ pc' = "dispatch"
    BY <1>6 DEF send_response, send_file, Clear_exchange, BackToBatch
  <2>2. CASE client' = client
    BY <2>1, <2>2 DEF ExchangesKept, NodesKept, GivenUp
  <2>3. CASE client' = [client EXCEPT ![node.client].ex = NewExchange]
    <3> DEFINE new == [me EXCEPT !.ex = NewExchange]
    <3>1. client' = [client EXCEPT ![node.client] = new]
      BY <2>3 DEF me
    <3>2. me \in Client
      BY <2>1, Handled DEF RInv, InHand
    <3>3. new.ex \in Stored
      BY <3>2 DEF Client, Stored
    <3> HIDE DEF new
    <3>4. node.client \in Conns /\ client[node.client] # NULL
      BY <2>1, ClientInHand DEF InHand
    <3>5. ExchangesKept /\ NodesKept
      BY <2>1, <3>1, <3>3, <3>4, ClientKeeps
    <3> QED BY <2>1, <3>5
  <2> QED BY <2>1, <2>2, <2>3
<1>7. CASE close_inactive_clients
  BY <1>7 DEF close_inactive_clients, FreeInactive, ExchangesKept, NodesKept, GivenUp
<1>8. CASE shutdown
  BY <1>8 DEF shutdown, ExchangesKept, NodesKept, GivenUp
<1> QED
  BY <1>1, <1>2, <1>3, <1>4, <1>5, <1>6, <1>7, <1>8, <1>12
  DEF Loop, check_sig_stop, enter_epoll_wait, epoll_wait, accept_fails, close_inactive_clients,
      shutdown, recv_fails, send_fails, send_file_fails, send_last, AfterLast, recv_data,
      BackToBatch

(* What the environment leaves alone.                                      *)
LEMMA OutsideKeeps ==
  ASSUME RInv, Environment
  PROVE  /\ UNCHANGED <<sock, tx, heap, node_map, epoll, cur>> /\ Running /\ Running'
         /\ pc' = pc \/ (pc = "wait" /\ pc' = "stopped")
         /\ \A c \in Conns : /\ client'[c] # NULL <=> client[c] # NULL
                             /\ client[c] # NULL => /\ client'[c].ex = client[c].ex
                                                    /\ client'[c].socket = client[c].socket
<1>1. CASE Tick
  <2>1. client \in [Conns -> Client \cup {NULL}]
    BY DEF RInv, IInv, TypeOK
  <2>2. ASSUME NEW c \in Conns, client[c] # NULL
        PROVE  /\ client'[c] # NULL /\ client'[c].ex = client[c].ex
               /\ client'[c].socket = client[c].socket
    <3>1. client[c] \in Client
      BY <2>1, <2>2
    <3>2. client'[c] = [client[c] EXCEPT !.idle = @ + 1] \/ client'[c] = client[c]
      BY <1>1 DEF Tick
    <3>3. CASE client'[c] = [client[c] EXCEPT !.idle = @ + 1]
      <4>1. client'[c].ex = client[c].ex /\ client'[c].socket = client[c].socket
        BY <3>1, <3>3 DEF Client
      <4>2. client'[c] # NULL
        <5>1. client[c].idle < MAX_IDLE \/ client'[c] = client[c]
          BY <1>1 DEF Tick
        <5>2. CASE client[c].idle < MAX_IDLE
          <6>1. client[c].idle + 1 \in 0..MAX_IDLE
            BY <3>1, <5>2, ConstantsAssumption DEF Client
          <6>2. client'[c] \in Client
            BY <3>1, <3>3, <6>1 DEF Client
          <6> QED BY <6>2, NullAssumption
        <5> QED BY <2>2, <5>1, <5>2
      <4> QED BY <4>1, <4>2
    <3> QED BY <2>2, <3>2, <3>3
  <2>3. \A c \in Conns : client[c] = NULL => client'[c] = NULL
    BY <1>1 DEF Tick
  <2> QED BY <1>1, <2>2, <2>3 DEF Tick, kernel, loop, Running
<1>2. CASE signal_handler
  BY <1>2 DEF signal_handler, kernel, tables, Running
<1>3. ASSUME NEW c \in Conns,
             \/ \E s \in Servers : Connect(c, s)
             \/ PeerSend(c) \/ PeerDrains(c)
             \/ \E how \in {"shut", "reset"} : PeerLeaves(c, how)
      PROVE  UNCHANGED <<sock, tx, tables, loop>> /\ Running
  BY <1>3 DEF Connect, PeerSend, PeerDrains, PeerLeaves
<1> QED BY <1>1, <1>2, <1>3 DEF Environment, tables, loop, Running

(* The response has been written when the file is about to be.             *)
LEMMA AppendLast ==
  ASSUME NEW S, NEW s \in Seq(S), NEW x \in S
  PROVE  /\ s \o <<x>> = Append(s, x) /\ s \o <<x>> \in Seq(S) /\ s \o <<x>> # <<>>
         /\ (s \o <<x>>)[Len(s \o <<x>>)] = x
<1>1. /\ Append(s, x) \in Seq(S) /\ Len(Append(s, x)) = Len(s) + 1
      /\ Append(s, x)[Len(s) + 1] = x
  OBVIOUS
<1>2. s \o <<x>> = Append(s, x)
  OBVIOUS
<1> QED BY <1>1, <1>2

LEMMA WordsOf ==
  /\ \A p \in Page : Served(p).outBuf = "page" /\ Served(p).url = p
                     /\ Served(p).state = "RS_READY"
  /\ \A ex \in {Reading, NewExchange} : ex.outBuf = "empty" /\ ex.url = "unset"
                                         /\ ex.state # "RS_READY"
  /\ Refused.outBuf = "error" /\ Refused.state = "RS_CLOSE"
BY DEF Served, Reading, NewExchange, Refused

LEMMA ResponseSent ==
  ASSUME RInv, send_response
  PROVE  \/ /\ me.ex.outBuf = "empty" /\ tx' = tx /\ me.ex \in {Reading, NewExchange}
            /\ pc' = "dispatch"
         \/ \E w \in {"page", "cut"} :
              tx' = [tx EXCEPT ![to] = Append(@, w)] /\ \E p \in Page : me.ex = Served(p)
<1>1. pc = "send"
  BY DEF send_response
<1>2. me.ex \in Stored /\ to \in Conns
  BY <1>1, ClientInHand DEF InHand
<1>3. tx \in [Conns -> Seq(Wire)] /\ tx[to] \in Seq(Wire)
  BY <1>2 DEF RInv, IInv, TypeOK
<1>4. CASE \E p \in Page : me.ex = Served(p)
  BY <1>4, WordsOf DEF send_response, Write
<1>5. CASE me.ex \in {Reading, NewExchange}
  BY <1>5, WordsOf DEF send_response, BackToBatch, WriteNothing
<1> QED BY <1>2, <1>4, <1>5 DEF Stored

LEMMA FileInvKept ==
  ASSUME RInv, Environment \/ Loop \/ UNCHANGED vars
  PROVE  FileInv'
<1> SUFFICES ASSUME pc' = "file"
             PROVE  /\ me'.ex \in {Served(p) : p \in {"file", "dir"}}
                    /\ tx'[to'] # <<>> /\ tx'[to'][Len(tx'[to'])] \in {"page", "cut"}
  BY DEF FileInv
<1>1. CASE send_response
  <2>1. /\ pc = "send" /\ UNCHANGED <<sock, heap, cur, client>> /\ me.ex.url \in {"file", "dir"}
    BY <1>1 DEF send_response, BackToBatch
  <2>2. me' = me /\ to' = to
    BY <2>1 DEF me, to, node
  <2>3. PICK w \in {"page", "cut"}, p \in Page :
          tx' = [tx EXCEPT ![to] = Append(@, w)] /\ me.ex = Served(p)
    BY <1>1, ResponseSent
  <2>4. p \in {"file", "dir"}
    BY <2>1, <2>3, WordsOf
  <2>5. tx \in [Conns -> Seq(Wire)] /\ to \in Conns /\ tx[to] \in Seq(Wire)
    BY <2>1, ClientInHand DEF RInv, IInv, TypeOK, InHand
  <2>6. /\ tx[to] \o <<w>> = Append(tx[to], w) /\ tx[to] \o <<w>> # <<>>
        /\ (tx[to] \o <<w>>)[Len(tx[to] \o <<w>>)] = w
    BY <2>5, AppendLast DEF Wire
  <2>7. tx'[to] = Append(tx[to], w)
    BY <2>3, <2>5
  <2> QED BY <2>2, <2>3, <2>4, <2>6, <2>7
<1>2. CASE Environment
  <2>1. pc = "file" /\ UNCHANGED <<sock, tx, heap, cur>>
    BY <1>2, OutsideKeeps
  <2>2. node' = node /\ node.client \in Conns /\ client[node.client] = me /\ me # NULL
        /\ me \in Client /\ me.socket = node.fd /\ to = node.client
    BY <2>1, ClientInHand, Handled DEF node, RInv, InHand
  <2>3. me' = client'[node.client] /\ me'.ex = me.ex /\ me'.socket = me.socket
    BY <1>2, <2>2, OutsideKeeps DEF me
  <2>4. to' = to
    BY <2>1, <2>3 DEF to
  <2> QED BY <2>1, <2>3, <2>4 DEF RInv, FileInv
<1>3. CASE UNCHANGED vars
  <2>1. pc = "file" /\ UNCHANGED <<me, to, tx>>
    BY <1>3 DEF vars, kernel, tables, loop, me, to, node
  <2> QED BY <2>1 DEF RInv, FileInv
<1> QED BY <1>1, <1>2, <1>3, LoopKeeps

LEMMA RInvStep == RInv /\ [Next]_vars => RInv'
<1> SUFFICES ASSUME RInv, [Next]_vars PROVE RInv'
  OBVIOUS
<1>1. IInv'
  BY NextIInv DEF RInv
<1>2. Environment \/ Loop \/ UNCHANGED vars
  BY DEF Next, Terminated
<1>3. ExchangesKept /\ NodesKept
  <2>1. CASE Environment
    BY <2>1, OutsideKeeps DEF ExchangesKept, NodesKept, GivenUp, node
  <2>2. CASE Loop
    BY <2>2, LoopKeeps
  <2>3. CASE UNCHANGED vars
    BY <2>3 DEF vars, tables, loop, ExchangesKept, NodesKept, GivenUp, node
  <2> QED BY <1>2, <2>1, <2>2, <2>3
<1>4. StoredInv'
  <2>1. \A c \in Conns : client[c] # NULL =>
          client[c].ex \in Stored \/ (client[c].ex = Refused /\ GivenUp(c))
    BY DEF RInv, StoredInv
  <2>2. \A c \in Conns : client'[c] # NULL =>
          client'[c].ex \in Stored \/ (client'[c].ex = Refused /\ GivenUp(c)')
    BY <1>3, <2>1 DEF ExchangesKept
  <2> QED BY <2>2 DEF StoredInv
<1>5. ServerInv'
  BY <1>3 DEF NodesKept, RInv, ServerInv, Live
<1>6. FileInv'
  BY <1>2, FileInvKept
<1> QED BY <1>1, <1>4, <1>5, <1>6 DEF RInv

LEMMA RInvStart == Init => RInv
<1> SUFFICES ASSUME Init PROVE RInv
  OBVIOUS
<1>1. StoredInv /\ FileInv
  BY DEF Init, StoredInv, FileInv
<1>2. ServerInv
  <2>1. \A s : ServerNode(s).client = NULL
    BY DEF ServerNode
  <2>2. \A a \in Addrs : heap[a] = NULL \/ \E s : heap[a] = ServerNode(s)
    BY DEF Init
  <2> QED BY <2>1, <2>2 DEF ServerInv, Live
<1> QED BY <1>1, <1>2, InitIInv DEF RInv

LEMMA RInvariance == Spec => []RInv
BY RInvStart, RInvStep, PTL DEF Spec

-----------------------------------------------------------------------------
(* Leaks.                                                                  *)

Orphan(c) == client[c] # NULL /\ \A a \in Addrs : Live(a) => heap[a].client # c
Aged(c)   == \E s \in Servers : client[c].idle > client_timeout[s]

(* A client that no step touches stays an orphan if it was one; the others *)
(* have their node.                                                        *)
LEMMA OrphanBefore ==
  ASSUME RInv, NEW c \in Conns, Orphan(c)', client'[c] = client[c],
         NEW b \in Addrs \cup {NULL}, \A a \in Addrs : heap'[a] = heap[a] \/ a = b,
         b # NULL => heap[b] = NULL \/ heap[b].client # c,
         NoOtherLeak
  PROVE  Aged(c)'
<1>1. \A a \in Addrs : Live(a) => heap[a].client # c
  <2> SUFFICES ASSUME NEW a \in Addrs, Live(a) PROVE heap[a].client # c
    OBVIOUS
  <2>1. CASE a = b
    BY <2>1, ConstantsAssumption DEF Live
  <2>2. CASE a # b
    BY <2>2 DEF Live, Orphan
  <2> QED BY <2>1, <2>2
<1>2. Aged(c)
  BY <1>1 DEF Orphan, Aged, NoOtherLeak
<1> QED BY <1>2 DEF Aged

LEMMA LeakStep == RInv /\ NoOtherLeak /\ [Next]_vars => NoOtherLeak'
<1> SUFFICES ASSUME RInv, NoOtherLeak, [Next]_vars, NEW c \in Conns, Orphan(c)' PROVE Aged(c)'
  BY DEF NoOtherLeak, Orphan, Aged
<1> USE ConstantsAssumption, NullAssumption
<1>0. /\ client \in [Conns -> Client \cup {NULL}] /\ heap \in [Addrs -> t_node \cup {NULL}]
      /\ node_map \in [Handles -> Addrs \cup {NULL}]
  BY DEF RInv, IInv, TypeOK
<1>1. CASE Environment
  <2>1. heap' = heap /\ client[c] # NULL
    BY <1>1, OutsideKeeps DEF Orphan
  <2>2. Aged(c)
    BY <2>1 DEF Orphan, NoOtherLeak, Aged, Live
  <2>3. PICK s \in Servers : client[c].idle > client_timeout[s]
    BY <2>2 DEF Aged
  <2>4. client'[c].idle >= client[c].idle /\ client'[c].idle \in Nat /\ client[c].idle \in Nat
    <3>1. CASE Tick
      <4>1. client[c] \in Client
        BY <1>0, <2>1
      <4>2. client'[c] = IF client[c].idle < MAX_IDLE
                           THEN [client[c] EXCEPT !.idle = @ + 1] ELSE client[c]
        BY <2>1, <3>1 DEF Tick
      <4>3. client'[c].idle = IF client[c].idle < MAX_IDLE THEN client[c].idle + 1 ELSE client[c].idle
        BY <4>1, <4>2 DEF Client
      <4> QED BY <4>1, <4>3 DEF Client
    <3>2. CASE ~Tick
      <4>1. client' = client
        BY <1>1, <3>2 DEF Environment, Connect, PeerSend, PeerDrains, PeerLeaves, signal_handler, tables
      <4> QED BY <1>0, <2>1, <4>1 DEF Client
    <3> QED BY <3>1, <3>2
  <2>5. client_timeout[s] \in Int
    OBVIOUS
  <2>6. client'[c].idle > client_timeout[s]
    BY <2>3, <2>4, <2>5
  <2> QED BY <2>6 DEF Aged
<1>2. CASE \/ check_sig_stop \/ enter_epoll_wait \/ epoll_wait \/ UNCHANGED vars
           \/ \E e \in request : accept_fails(e)
           \/ recv_fails \/ send_fails \/ send_file_fails \/ send_last
  <2>1. UNCHANGED <<client, heap>>
    BY <1>2 DEF check_sig_stop, enter_epoll_wait, epoll_wait, accept_fails, vars, tables,
                recv_fails, send_fails, send_file_fails, send_last
  <2> QED BY <2>1, OrphanBefore
<1>3. ASSUME NEW e \in request, new_client_setup(e) PROVE Aged(c)'
  <2> DEFINE s == heap[e.ptr].server
  <2>1. s \in Servers
    <3>1. e.ptr \in Addrs /\ heap[e.ptr] # NULL
      BY <1>3 DEF RInv, IInv, TypeOK, NoDanglingPointer, Live, Entry
    <3> QED BY <1>0, <3>1 DEF t_node
  <2>2. PICK d \in backlog[s], fd \in {f \in Fds : sock[f] = NULL}, a \in {b \in Addrs : heap[b] = NULL} :
          /\ client' = [client EXCEPT ![d] = NewClient(fd)]
          /\ add_to_node(a, ClientNode(s, fd, d))
    BY <1>3 DEF new_client_setup
  <2> DEFINE cn == ClientNode(s, fd, d)
  <2>3. cn.fd = fd /\ cn.client = d /\ cn # NULL
    <3>1. d \in Conns
      BY <2>1 DEF RInv, IInv, TypeOK
    <3>2. cn \in t_node /\ cn.fd = fd /\ cn.client = d
      BY <2>1, <2>2, <3>1 DEF ClientNode, t_node, Handles
    <3> QED BY <3>2
  <2>4. node_map[fd] = NULL
    BY <1>3 DEF RInv, IInv, TablesAgree, new_client_setup
  <2>5. heap' = [[b \in Addrs |-> IF b = node_map[cn.fd] THEN NULL ELSE heap[b]] EXCEPT ![a] = cn]
    BY <2>2 DEF add_to_node
  <2> HIDE DEF cn, s
  <2>6. heap'[a] = cn /\ \A b \in Addrs : heap'[b] = heap[b] \/ b = a
    BY <2>3, <2>4, <2>5
  <2>7. d # c
    BY <2>2, <2>3, <2>6 DEF Orphan, Live
  <2>8. client'[c] = client[c]
    BY <1>0, <2>2, <2>7
  <2> QED BY <2>2, <2>6, <2>8, OrphanBefore
<1>4. ASSUME NEW a \in Addrs, heap[a] # NULL, heap' = heap, NEW new,
             client' = [client EXCEPT ![heap[a].client] = new]
      PROVE  Aged(c)'
  <2>1. heap[a].client # c
    BY <1>4 DEF Orphan, Live
  <2>2. client'[c] = client[c]
    BY <1>0, <1>4, <2>1
  <2> QED BY <1>4, <2>2, OrphanBefore
<1>5. CASE close_client
  <2>1. pc = "close" /\ client' = [client EXCEPT ![node.client] = NULL] /\ heap' = [heap EXCEPT ![cur.ptr] = NULL]
    BY <1>5 DEF close_client, delete_client
  <2>2. cur.ptr \in Addrs /\ heap[cur.ptr] = node /\ node.client \in Conns
    BY <2>1, ClientInHand DEF InHand
  <2>3. c # node.client
    BY <1>0, <2>1, <2>2 DEF Orphan
  <2>4. client'[c] = client[c] /\ \A a \in Addrs : heap'[a] = heap[a] \/ a = cur.ptr
    BY <1>0, <2>1, <2>3
  <2> QED BY <2>2, <2>3, <2>4, OrphanBefore
<1>6. ASSUME NEW e \in request, read_event(e) \/ write_event(e) PROVE Aged(c)'
  <2>1. e.ptr \in Addrs /\ heap[e.ptr] # NULL
    BY <1>6 DEF RInv, IInv, TypeOK, NoDanglingPointer, Live, Entry
  <2>2. heap' = heap /\ client' = [client EXCEPT ![heap[e.ptr].client] = [@ EXCEPT !.idle = 0]]
    BY <1>6 DEF read_event, write_event, Update_Last_Activity
  <2>3. client' = [client EXCEPT ![heap[e.ptr].client] = [client[heap[e.ptr].client] EXCEPT !.idle = 0]]
    BY <2>2
  <2> QED BY <2>1, <2>2, <2>3, <1>4
<1>7. CASE recv_data
  <2>1. PICK n \in 1..Len(rx[to]) :
          LET ex == process(me.ex, SubSeq(rx[to], 1, n)) IN
          client' = [client EXCEPT ![node.client] =
            [socket |-> @.socket, ex |-> ex,
             idle |-> IF Breaks(ex) /\ "OUT" \in cur.events THEN 0 ELSE @.idle]]
    BY <1>7 DEF recv_data
  <2> DEFINE ex == process(me.ex, SubSeq(rx[to], 1, n))
             new == [socket |-> me.socket, ex |-> ex,
                     idle |-> IF Breaks(ex) /\ "OUT" \in cur.events THEN 0 ELSE me.idle]
  <2>2. pc = "recv" /\ heap' = heap
    BY <1>7 DEF recv_data
  <2>3. client' = [client EXCEPT ![node.client] = new]
    BY <2>1 DEF me
  <2> HIDE DEF new
  <2>4. cur.ptr \in Addrs /\ heap[cur.ptr] = node /\ node # NULL
    BY <2>2, ClientInHand DEF InHand
  <2> QED BY <2>2, <2>3, <2>4, <1>4
<1>9. CASE send_response \/ send_file
  <2>1. /\ pc \in {"send", "file"} /\ heap' = heap
        /\ \/ client' = client
           \/ client' = [client EXCEPT ![node.client] = [me EXCEPT !.ex = NewExchange]]
    BY <1>9 DEF send_response, send_file, Clear_exchange, me
  <2>2. cur.ptr \in Addrs /\ heap[cur.ptr] = node /\ node # NULL
    BY <2>1, ClientInHand DEF InHand
  <2>3. CASE client' = client
    BY <2>1, <2>3, OrphanBefore
  <2> QED BY <2>1, <2>2, <2>3, <1>4
<1>10. CASE close_inactive_clients
  <2> DEFINE Old == {h \in Handles : Inactive(h)}
  <2>1. /\ client' = client /\ pc # "ended"
        /\ heap' = [a \in Addrs |-> IF \E h \in Old : node_map[h] = a THEN NULL ELSE heap[a]]
    BY <1>10 DEF close_inactive_clients, FreeInactive
  <2>2. CASE \E h \in Old : heap[node_map[h]].client = c
    <3>1. PICK h \in Handles : Inactive(h) /\ heap[node_map[h]].client = c
      BY <2>2
    <3>2. client[c].idle > client_timeout[heap[node_map[h]].server]
      BY <3>1 DEF Inactive
    <3>3. heap[node_map[h]].server \in Servers
      <4>1. node_map[h] \in Addrs /\ heap[node_map[h]] # NULL
        BY <1>0, <2>1, <3>1 DEF Inactive, RInv, IInv, TablesAgree, Live
      <4> QED BY <1>0, <4>1 DEF t_node
    <3> QED BY <2>1, <3>2, <3>3 DEF Aged
  <2>3. CASE ~ \E h \in Old : heap[node_map[h]].client = c
    <3>1. \A a \in Addrs : Live(a) => heap[a].client # c
      BY <1>0, <2>1, <2>3 DEF Orphan, Live
    <3>2. Aged(c)
      BY <2>1, <3>1 DEF NoOtherLeak, Orphan, Aged
    <3> QED BY <2>1, <3>2 DEF Aged
  <2> QED BY <2>2, <2>3
<1>11. CASE shutdown
  <2>1. pc = "stopped" /\ client'[c] = client[c] /\ client[c] # NULL
        /\ ~ \E h \in Fds : node_map[h] # NULL /\ heap[node_map[h]].client = c
    BY <1>11 DEF shutdown, Orphan
  <2>2. ASSUME NEW a \in Addrs, Live(a), heap[a].client = c PROVE FALSE
    <3>1. ~heap[a].IsServer
      BY <2>2 DEF RInv, ServerInv
    <3>2. heap[a].fd \in Fds /\ node_map[heap[a].fd] = a
      BY <2>1, <2>2, <3>1, LiveClient DEF RInv, LiveClientNode
    <3> QED BY <2>1, <2>2, <3>2
  <2>3. Aged(c)
    BY <2>1, <2>2 DEF NoOtherLeak, Aged
  <2> QED BY <2>1, <2>3 DEF Aged
<1> QED
  BY <1>1, <1>2, <1>3, <1>5, <1>6, <1>7, <1>9, <1>10, <1>11 DEF Next, Loop, Terminated

(* A Client is lost by close_inactive_clients alone: every other path that *)
(* frees a node frees its Client, the shutdown included, whatever happened *)
(* before (Monitor.cpp 31-53, Server_functions.cpp 195-206).               *)
THEOREM LeaksNowhereElse == Spec => []NoOtherLeak
<1>1. Init => NoOtherLeak
  BY DEF Init, NoOtherLeak
<1> QED BY <1>1, LeakStep, RInvariance, PTL DEF Spec

-----------------------------------------------------------------------------
(* Conversations.                                                          *)

Stages == [c \in Conns |-> stageOf(c)]
Dues   == [c \in Conns |-> dueTo(c)]

LEMMA DueIsBoolean == \A c : dueTo(c) \in BOOLEAN
BY Zenon DEF dueTo

(* What is being done with a connection that is open: the stage, by where  *)
(* the handler that has it stands.                                         *)
StageAt(p) == IF p = "last" THEN "parting" ELSE IF p = "close" THEN "ending" ELSE "held"

LEMMA HeldStage ==
  ASSUME RInv, Running, NEW c \in Conns, Held(c)
  PROVE  /\ ~Queued(c) /\ peer[c] # "away" /\ client[c] # NULL
         /\ ~GivenUp(c) => stageOf(c) = "held"
         /\ node.client = c => stageOf(c) = StageAt(pc)
<1>1. PICK fd \in Fds : sock[fd] = c
  BY DEF Held
<1>2. client[c] # NULL
  BY <1>1, HeldNode, ConstantsAssumption DEF RInv, Running
<1>3. ~Queued(c) /\ peer[c] # "away"
  BY <1>2 DEF RInv, IInv, QueueFresh, Queued
<1> QED BY <1>2, <1>3 DEF stageOf, StageAt, GivenUp

LEMMA SameStage ==
  ASSUME NEW c, Running <=> Running', Queued(c) <=> Queued(c)', Held(c) <=> Held(c)',
         peer[c] = "away" <=> peer'[c] = "away",
         GivenUp(c) <=> GivenUp(c)', GivenUp(c) => pc' = pc
  PROVE  stageOf(c)' = stageOf(c)
BY DEF stageOf

LEMMA Stutters ==
  ASSUME \A c \in Conns : stageOf(c)' = stageOf(c) /\ (dueTo(c)' <=> dueTo(c)), tx' = tx
  PROVE  UNCHANGED C!vars
<1>1. \A c \in Conns : dueTo(c)' = dueTo(c)
  BY DueIsBoolean, Zenon DEF dueTo
<1>2. UNCHANGED [c \in Conns |-> stageOf(c)]
  OBVIOUS
<1>3. UNCHANGED [c \in Conns |-> dueTo(c)]
  BY <1>1
<1> QED BY <1>2, <1>3 DEF C!vars

(* A step that changes one connection.                                     *)
OnlyOf(c) ==
  \A d \in Conns \ {c} : stageOf(d)' = stageOf(d) /\ (dueTo(d)' <=> dueTo(d))

LEMMA OneChanges ==
  ASSUME NEW c \in Conns, OnlyOf(c)
  PROVE  /\ Stages = [d \in Conns |-> stageOf(d)] /\ Stages[c] = stageOf(c)
         /\ Stages' = [Stages EXCEPT ![c] = stageOf(c)']
         /\ stageOf(c)' = stageOf(c) => Stages' = Stages
         /\ Dues = [d \in Conns |-> dueTo(d)] /\ (Dues[c] <=> dueTo(c))
         /\ dueTo(c)' => Dues' = [Dues EXCEPT ![c] = TRUE]
         /\ ~dueTo(c)' => Dues' = [Dues EXCEPT ![c] = FALSE]
         /\ (dueTo(c)' <=> dueTo(c)) => Dues' = Dues
<1>1. \A d \in Conns \ {c} : dueTo(d)' = dueTo(d)
  BY DueIsBoolean, Zenon DEF dueTo, OnlyOf
<1>2. Dues' = [Dues EXCEPT ![c] = dueTo(c)']
  BY <1>1 DEF Dues
<1>3. Stages' = [Stages EXCEPT ![c] = stageOf(c)']
  BY DEF Stages, OnlyOf
<1>4. dueTo(c)' = TRUE \/ dueTo(c)' = FALSE
  BY Zenon DEF dueTo
<1>5. (dueTo(c)' <=> dueTo(c)) => Dues' = Dues
  <2>1. dueTo(c) = TRUE \/ dueTo(c) = FALSE
    BY DueIsBoolean
  <2>2. (dueTo(c)' <=> dueTo(c)) => dueTo(c)' = dueTo(c)
    BY <2>1, <1>4, Zenon
  <2>3. [Dues EXCEPT ![c] = dueTo(c)] = Dues
    BY DEF Dues
  <2> QED BY <2>2, <2>3, <1>2
<1>6. (dueTo(c)' => Dues' = [Dues EXCEPT ![c] = TRUE])
      /\ (~dueTo(c)' => Dues' = [Dues EXCEPT ![c] = FALSE])
  BY <1>2, <1>4, Zenon
<1>7. /\ Stages = [d \in Conns |-> stageOf(d)] /\ Stages[c] = stageOf(c)
      /\ Dues = [d \in Conns |-> dueTo(d)] /\ (Dues[c] <=> dueTo(c))
  BY DEF Stages, Dues
<1>8. stageOf(c)' = stageOf(c) => Stages' = Stages
  BY <1>3, <1>7
<1> QED BY <1>3, <1>5, <1>6, <1>7, <1>8

LEMMA Arrives ==
  ASSUME NEW c \in Conns, OnlyOf(c), tx' = tx, dueTo(c)' <=> dueTo(c),
         stageOf(c) = "away", stageOf(c)' = "queued"
  PROVE  C!Arrive(c)
BY OneChanges DEF C!Arrive, Stages, Dues

LEMMA Accepted ==
  ASSUME NEW c \in Conns, OnlyOf(c), tx' = tx, dueTo(c)' <=> dueTo(c),
         stageOf(c) = "queued", stageOf(c)' = "held"
  PROVE  C!Accept(c)
BY OneChanges DEF C!Accept, Stages, Dues

LEMMA Prepared ==
  ASSUME NEW c \in Conns, OnlyOf(c), tx' = tx, ~dueTo(c), dueTo(c)',
         stageOf(c) = "held", stageOf(c)' = "held"
  PROVE  C!Prepare(c)
BY OneChanges DEF C!Prepare, Stages, Dues

LEMMA Answered ==
  ASSUME NEW c \in Conns, OnlyOf(c), dueTo(c), ~dueTo(c)',
         stageOf(c) = "held", stageOf(c)' = "held",
         NEW w \in {"page", "cut"}, tx' = [tx EXCEPT ![c] = Append(@, w)]
  PROVE  C!Answer(c)
BY OneChanges DEF C!Answer, C!Say, Stages, Dues

LEMMA FileSent ==
  ASSUME NEW c \in Conns, OnlyOf(c), ~dueTo(c), ~dueTo(c)',
         stageOf(c) = "held", stageOf(c)' = "held",
         tx[c] # <<>>, tx[c][Len(tx[c])] \in {"page", "cut"},
         NEW w \in {"file", "cut"}, tx' = [tx EXCEPT ![c] = Append(@, w)]
  PROVE  C!Attach(c)
BY OneChanges DEF C!Attach, C!SayAfter, C!Say, Stages, Dues

LEMMA GaveUp ==
  ASSUME NEW c \in Conns, OnlyOf(c), tx' = tx, dueTo(c)' => dueTo(c),
         stageOf(c) = "held", stageOf(c)' = "parting"
  PROVE  C!GiveUp(c)
<1>1. CASE dueTo(c)' <=> dueTo(c)
  BY <1>1, OneChanges DEF C!GiveUp, Stages, Dues
<1>2. CASE ~dueTo(c)'
  BY <1>2, OneChanges DEF C!GiveUp, Stages, Dues
<1> QED BY <1>1, <1>2

LEMMA BrokeOff ==
  ASSUME NEW c \in Conns, OnlyOf(c), ~dueTo(c)',
         stageOf(c) = "held", stageOf(c)' = "ending",
         \/ tx' = tx
         \/ /\ ~dueTo(c) /\ tx[c] # <<>> /\ tx[c][Len(tx[c])] \in {"page", "cut"}
            /\ tx' = [tx EXCEPT ![c] = Append(@, "cut")]
  PROVE  C!BreakOff(c)
<1>1. CASE tx' = tx
  BY <1>1, OneChanges DEF C!BreakOff, Stages, Dues
<1>2. CASE /\ ~dueTo(c) /\ tx[c] # <<>> /\ tx[c][Len(tx[c])] \in {"page", "cut"}
           /\ tx' = [tx EXCEPT ![c] = Append(@, "cut")]
  BY <1>2, OneChanges DEF C!BreakOff, C!SayAfter, C!Say, Stages, Dues
<1> QED BY <1>1, <1>2

LEMMA LastAnswered ==
  ASSUME NEW c \in Conns, OnlyOf(c), ~dueTo(c)',
         stageOf(c) = "parting", stageOf(c)' = "ending",
         \/ tx' = tx
         \/ \E w \in {IF dueTo(c) THEN "page" ELSE "error", "cut"} :
               tx' = [tx EXCEPT ![c] = Append(@, w)]
  PROVE  C!LastAnswer(c)
<1>1. CASE tx' = tx
  BY <1>1, OneChanges DEF C!LastAnswer, Stages, Dues
<1>2. CASE \E w \in {IF dueTo(c) THEN "page" ELSE "error", "cut"} :
             tx' = [tx EXCEPT ![c] = Append(@, w)]
  BY <1>2, OneChanges DEF C!LastAnswer, C!Say, Stages, Dues
<1> QED BY <1>1, <1>2

LEMMA Closed ==
  ASSUME NEW c \in Conns, OnlyOf(c), ~dueTo(c), ~dueTo(c)',
         stageOf(c) = "ending", stageOf(c)' = "closed",
         \/ tx' = tx
         \/ \E w \in {"204", "cut"} : tx' = [tx EXCEPT ![c] = Append(@, w)]
  PROVE  C!Farewell(c)
<1>1. CASE tx' = tx
  BY <1>1, OneChanges DEF C!Farewell, Stages, Dues
<1>2. CASE \E w \in {"204", "cut"} : tx' = [tx EXCEPT ![c] = Append(@, w)]
  BY <1>2, OneChanges DEF C!Farewell, C!Say, Stages, Dues
<1> QED BY <1>1, <1>2

(* A step that closes a set of connections.                                *)
LEMMA SomeClosed ==
  ASSUME NEW S \in SUBSET Conns, tx' = tx,
         \A c \in S : stageOf(c) \in {"queued", "held"} /\ stageOf(c)' = "closed" /\ ~dueTo(c)',
         \A c \in Conns \ S : stageOf(c)' = stageOf(c) /\ (dueTo(c)' <=> dueTo(c))
  PROVE  C!CloseSome(S)
<1>1. Stages' = [c \in Conns |-> IF c \in S THEN "closed" ELSE Stages[c]]
  BY DEF Stages
<1>2. \A c \in Conns : dueTo(c)' = (dueTo(c) /\ c \notin S)
  BY DueIsBoolean, Zenon DEF dueTo
<1>3. Dues' = [c \in Conns |-> Dues[c] /\ c \notin S]
  BY <1>2 DEF Dues
<1>4. \A c \in S : Stages[c] \in {"queued", "held"}
  BY DEF Stages
<1> QED BY <1>1, <1>3, <1>4 DEF C!CloseSome, Stages, Dues

LEMMA SameDue ==
  ASSUME NEW c, Running <=> Running', Held(c) <=> Held(c)',
         client'[c] # NULL <=> client[c] # NULL,
         client[c] # NULL => client'[c].ex = client[c].ex,
         Past(c) <=> Past(c)'
  PROVE  dueTo(c)' <=> dueTo(c)
BY DEF dueTo

AbstractStep == C!Next \/ UNCHANGED C!vars

(* The environment: a connection arrives, or nothing that is promised      *)
(* changes.                                                                *)
LEMMA OutsideMaps ==
  ASSUME RInv, Environment
  PROVE  AbstractStep
<1>1. /\ UNCHANGED <<sock, tx, heap, cur>> /\ Running /\ Running'
      /\ pc' = pc \/ (pc = "wait" /\ pc' = "stopped")
      /\ \A c \in Conns : /\ client'[c] # NULL <=> client[c] # NULL
                          /\ client[c] # NULL => client'[c].ex = client[c].ex
  BY OutsideKeeps
<1>2. \A c \in Conns : Held(c) <=> Held(c)'
  BY <1>1 DEF Held
<1>3. ASSUME NEW c \in Conns PROVE dueTo(c)' <=> dueTo(c)
  <2>1. Past(c) <=> Past(c)'
    BY <1>1 DEF Past, node
  <2> QED BY <1>1, <1>2, <2>1, SameDue
<1>8. ASSUME NEW c \in Conns PROVE (GivenUp(c) <=> GivenUp(c)') /\ (GivenUp(c) => pc' = pc)
  BY <1>1 DEF GivenUp, node
<1>4. ASSUME NEW c \in Conns, NEW s \in Servers, Connect(c, s) PROVE C!Arrive(c)
  <2>1. /\ peer[c] = "away" /\ peer' = [peer EXCEPT ![c] = "open"]
        /\ backlog' = [backlog EXCEPT ![s] = @ \cup {c}]
        /\ peer \in [Conns -> {"away", "open", "shut", "reset"}]
        /\ backlog \in [Servers -> SUBSET Conns]
    BY <1>4 DEF Connect, RInv, IInv, TypeOK
  <2>2. ASSUME NEW d \in Conns \ {c} PROVE stageOf(d)' = stageOf(d)
    <3>1. Queued(d) <=> Queued(d)'
      BY <2>1 DEF Queued
    <3>2. peer'[d] = peer[d]
      BY <2>1
    <3> QED BY <1>1, <1>2, <1>8, <3>1, <3>2, SameStage
  <2>3. stageOf(c) = "away"
    BY <2>1 DEF stageOf
  <2>4. stageOf(c)' = "queued"
    <3>1. peer'[c] # "away" /\ Queued(c)'
      BY <2>1 DEF Queued
    <3> QED BY <1>1, <3>1 DEF stageOf
  <2> QED BY <1>1, <1>3, <2>2, <2>3, <2>4, Arrives DEF OnlyOf
<1>5. ASSUME ~ \E c \in Conns, s \in Servers : Connect(c, s) PROVE UNCHANGED C!vars
  <2>1. /\ backlog' = backlog
        /\ peer' = peer \/ \E c \in Conns, how \in {"shut", "reset"} :
                             peer[c] # "away" /\ peer' = [peer EXCEPT ![c] = how]
    BY <1>5 DEF Environment, PeerSend, PeerDrains, PeerLeaves, Tick, signal_handler, kernel
  <2>2. \A c \in Conns : peer'[c] = "away" <=> peer[c] = "away"
    BY <2>1 DEF RInv, IInv, TypeOK
  <2>3. \A c \in Conns : stageOf(c)' = stageOf(c)
    <3>1. \A c \in Conns : Queued(c) <=> Queued(c)'
      BY <2>1 DEF Queued
    <3> QED BY <1>1, <1>2, <1>8, <2>2, <3>1, SameStage
  <2> QED BY <1>1, <1>3, <2>3, Stutters
<1> QED BY <1>4, <1>5 DEF AbstractStep, C!Next

(* The end of the process closes what is left.                             *)
LEMMA EndMaps ==
  ASSUME RInv, Running, ~Running', UNCHANGED <<peer, tx>>, pc \in {"dispatch", "stopped"}
  PROVE  AbstractStep
<1> DEFINE S == {c \in Conns : stageOf(c) \in {"queued", "held"}}
<1>1. \A c \in Conns : stageOf(c)' = IF peer[c] = "away" THEN "away" ELSE "closed"
  BY DEF stageOf
<1>2. \A c \in Conns : ~dueTo(c)'
  BY DEF dueTo
<1>3. \A c \in S : stageOf(c) # "away" /\ peer[c] # "away"
  BY DEF stageOf
<1>4. ASSUME NEW c \in Conns \ S PROVE stageOf(c)' = stageOf(c) /\ ~dueTo(c)
  <2>1. ~Held(c)
    BY <1>4, HeldStage DEF GivenUp
  <2>2. peer[c] = "away" \/ ~Queued(c)
    BY <1>4 DEF stageOf
  <2> QED BY <1>1, <2>1, <2>2 DEF stageOf, dueTo
<1>5. S \in SUBSET Conns
  OBVIOUS
<1> HIDE DEF S
<1>6. \A c \in S : stageOf(c)' = "closed" /\ stageOf(c) \in {"queued", "held"}
  BY <1>1, <1>3, <1>5 DEF S
<1> QED
  BY <1>2, <1>4, <1>5, <1>6, SomeClosed DEF AbstractStep, C!Next

(* The handlers: what they do to the client in hand is all that changes.   *)
LEMMA OfTheOne ==
  ASSUME RInv, pc \in InHand, UNCHANGED <<backlog, peer, sock, heap>>,
         Running', NEW new, new # NULL,
         client' = client \/ client' = [client EXCEPT ![node.client] = new],
         pc' \in {"file", "last", "close"} => cur' = cur,
         NEW c \in Conns, c = node.client
  PROVE  /\ OnlyOf(c) /\ stageOf(c) = StageAt(pc) /\ stageOf(c)' = StageAt(pc')
         /\ dueTo(c) <=> me.ex.state = "RS_READY" /\ pc \notin {"file", "close"}
         /\ dueTo(c)' <=> client'[c].ex.state = "RS_READY" /\ pc' \notin {"file", "close"}
<1>1. /\ client[c] = me /\ me # NULL /\ node.fd \in Fds /\ sock[node.fd] = c
      /\ client \in [Conns -> Client \cup {NULL}] /\ Running
  BY ClientInHand DEF RInv, IInv, TypeOK, Running, InHand
<1>2. \A d \in Conns : (Held(d) <=> Held(d)') /\ (Queued(d) <=> Queued(d)')
  BY DEF Held, Queued
<1>4. Held(c)
  BY <1>1 DEF Held
<1>5. stageOf(c) = StageAt(pc) /\ ~Queued(c) /\ peer[c] # "away"
  BY <1>1, <1>4, HeldStage
<1>6. pc' \in {"file", "last", "close"} => node' = node
  BY DEF node
<1>3. ASSUME NEW d \in Conns \ {c} PROVE stageOf(d)' = stageOf(d)
  <2>1. ~GivenUp(d) /\ ~GivenUp(d)'
    BY <1>3, <1>6 DEF GivenUp
  <2> QED BY <1>1, <1>2, <2>1, SameStage
<1>7. ASSUME NEW d \in Conns \ {c} PROVE dueTo(d)' <=> dueTo(d)
  <2>1. client'[d] = client[d]
    BY <1>1, <1>7
  <2>2. ~Past(d) /\ ~Past(d)'
    BY <1>6, <1>7 DEF Past
  <2> QED BY <1>1, <1>2, <2>1, <2>2, SameDue
<1>8. dueTo(c) <=> me.ex.state = "RS_READY" /\ pc \notin {"file", "close"}
  BY <1>1, <1>4 DEF dueTo, Past
<1>9. client'[c] # NULL
  BY <1>1
<1>10. dueTo(c)' <=> client'[c].ex.state = "RS_READY" /\ pc' \notin {"file", "close"}
  <2>1. Held(c)'
    BY <1>1, <1>2, <1>4
  <2> QED BY <1>6, <1>9, <2>1 DEF dueTo, Past
<1>11. stageOf(c)' = StageAt(pc')
  <2>1. Held(c)' /\ ~Queued(c)' /\ peer'[c] # "away"
    BY <1>2, <1>4, <1>5
  <2>2. GivenUp(c)' <=> pc' \in {"last", "close"}
    BY <1>6 DEF GivenUp
  <2> QED BY <2>1, <2>2 DEF stageOf, StageAt
<1> QED
  BY <1>3, <1>5, <1>7, <1>8, <1>10, <1>11 DEF OnlyOf

(* What a send leaves of what was written.                                 *)
LEMMA Written ==
  ASSUME RInv, NEW c \in Conns, NEW word, WriteNothing \/ Write(c, word)
  PROVE  tx' = tx \/ \E w \in {word, "cut"} : tx' = [tx EXCEPT ![c] = Append(@, w)]
BY DEF WriteNothing, Write

(* Server::close_client is the Farewell.                                   *)
LEMMA ClosedMaps == RInv /\ close_client => AbstractStep
<1> SUFFICES ASSUME RInv, close_client PROVE AbstractStep
  OBVIOUS
<1>0. pc = "close" /\ pc' = "dispatch" /\ UNCHANGED <<backlog, peer>>
  BY DEF close_client, BackToBatch
<1>00. PICK c \in Conns : c = node.client
  BY <1>0, ClientInHand DEF InHand
<1>1. /\ client[c] = me /\ me # NULL /\ node.fd \in Fds /\ sock[node.fd] = c
      /\ client \in [Conns -> Client \cup {NULL}] /\ Running /\ pc # "ended"
      /\ sock \in [Fds -> Conns \cup {NULL}]
  BY <1>0, <1>00, ClientInHand DEF RInv, IInv, TypeOK, Running, InHand
<1>2. /\ sock' = [sock EXCEPT ![node.fd] = NULL] /\ client' = [client EXCEPT ![c] = NULL]
      /\ WriteNothing \/ Write(c, "204")
  BY <1>00, <1>1 DEF close_client, delete_client
<1>3. Running'
  BY <1>0 DEF Running
<1>4. Held(c) /\ ~Held(c)'
  <2>1. \A f \in Fds : sock[f] = c => f = node.fd
    BY <1>1, OneDescriptor, ConstantsAssumption DEF RInv
  <2> QED BY <1>1, <1>2, <2>1, ConstantsAssumption DEF Held
<1>5. \A d \in Conns : Queued(d) <=> Queued(d)'
  BY <1>0 DEF Queued
<1>6. \A d \in Conns \ {c} : (Held(d) <=> Held(d)') /\ client'[d] = client[d]
  BY <1>1, <1>2, ConstantsAssumption DEF Held
<1>7. stageOf(c) = "ending" /\ ~Queued(c) /\ peer[c] # "away"
  BY <1>0, <1>00, <1>1, <1>4, HeldStage DEF StageAt
<1>8. stageOf(c)' = "closed"
  BY <1>0, <1>4, <1>5, <1>7 DEF stageOf
<1>9. ~dueTo(c) /\ ~dueTo(c)'
  BY <1>0, <1>00, <1>4 DEF dueTo, Past
<1>11. \A d \in Conns \ {c} : ~Past(d) /\ ~Past(d)' /\ ~GivenUp(d) /\ ~GivenUp(d)'
  BY <1>0, <1>00 DEF Past, GivenUp
<1>12. OnlyOf(c)
  BY <1>0, <1>1, <1>3, <1>5, <1>6, <1>11, SameStage, SameDue DEF OnlyOf
<1>13. tx' = tx \/ \E w \in {"204", "cut"} : tx' = [tx EXCEPT ![c] = Append(@, w)]
  BY <1>2, Written
<1>14. C!Farewell(c)
  BY <1>7, <1>8, <1>9, <1>12, <1>13, Closed
<1> QED BY <1>14 DEF AbstractStep, C!Next

(* A step that only moves the loop along, or looks at a client.            *)
LEMMA TurnMaps ==
  ASSUME RInv, Running, Running', UNCHANGED <<backlog, peer, sock, tx>>,
         pc \notin {"file", "last", "close"}, pc' \notin {"file", "last", "close"},
         \A c \in Conns : /\ client'[c] # NULL <=> client[c] # NULL
                          /\ client[c] # NULL => client'[c].ex = client[c].ex
  PROVE  AbstractStep
<1>1. \A c \in Conns : (Held(c) <=> Held(c)') /\ (Queued(c) <=> Queued(c)')
  BY DEF Held, Queued
<1>3. \A c \in Conns : ~Past(c) /\ ~Past(c)' /\ ~GivenUp(c) /\ ~GivenUp(c)'
  BY DEF Past, GivenUp
<1>2. \A c \in Conns : stageOf(c)' = stageOf(c) /\ (dueTo(c)' <=> dueTo(c))
  BY <1>1, <1>3, SameStage, SameDue
<1> QED BY <1>2, Stutters DEF AbstractStep

(* A step on one client that promises nothing new.                         *)
LEMMA QuietOne ==
  ASSUME NEW c \in Conns, OnlyOf(c), stageOf(c)' = stageOf(c), dueTo(c)' <=> dueTo(c), tx' = tx
  PROVE  AbstractStep
BY Stutters DEF OnlyOf, AbstractStep

LEMMA RecvDataMaps == RInv /\ recv_data => AbstractStep
<1> SUFFICES ASSUME RInv, recv_data PROVE AbstractStep
  OBVIOUS
<1>1. PICK n \in 1..Len(rx[to]) :
        LET ex == process(me.ex, SubSeq(rx[to], 1, n)) IN
        /\ client' = [client EXCEPT ![node.client] =
             [socket |-> @.socket, ex |-> ex,
              idle |-> IF Breaks(ex) /\ "OUT" \in cur.events THEN 0 ELSE @.idle]]
        /\ \/ ex.state = "RS_CLOSE" /\ pc' = "last" /\ cur' = cur
           \/ ex.state # "RS_CLOSE" /\ pc' \in {"recv", "send", "dispatch"}
  BY DEF recv_data, BackToBatch
<1> DEFINE ex == process(me.ex, SubSeq(rx[to], 1, n))
           new == [socket |-> me.socket, ex |-> ex,
                   idle |-> IF Breaks(ex) /\ "OUT" \in cur.events THEN 0 ELSE me.idle]
<1>2. pc = "recv" /\ UNCHANGED <<backlog, peer, sock, heap, tx>>
  BY DEF recv_data
<1>3. /\ ex \in Stored \cup {Refused} /\ (ex.state = "RS_CLOSE" => ex = Refused)
      /\ (me.ex.state = "RS_READY" => ex = Refused)
  BY Outcome
<1>4. /\ client' = [client EXCEPT ![node.client] = new]
      /\ \/ ex.state = "RS_CLOSE" /\ pc' = "last" /\ cur' = cur
         \/ ex.state # "RS_CLOSE" /\ pc' \in {"recv", "send", "dispatch"}
  BY <1>1 DEF me
<1>5. new.ex = ex
  OBVIOUS
<1>6. new # NULL
  <2>1. me \in Client /\ ex \in Exchanges
    BY <1>2, Handled, ProcessResult DEF RInv, InHand
  <2> HIDE DEF ex
  <2>2. new \in Client
    BY <2>1, ConstantsAssumption DEF Client
  <2> QED BY <2>2, NullAssumption
<1> HIDE DEF ex, new
<1>7. Running' /\ (pc' \in {"file", "last", "close"} => cur' = cur) /\ pc \in InHand
  BY <1>2, <1>4 DEF Running, InHand
<1>8. PICK c \in Conns : c = node.client /\ client[c] = me
  BY <1>7, ClientInHand
<1>9. PICK v : v = new /\ v # NULL /\ client' = [client EXCEPT ![node.client] = v]
  BY <1>4, <1>6
<1>10. OnlyOf(c) /\ stageOf(c) = StageAt(pc) /\ stageOf(c)' = StageAt(pc')
  BY <1>2, <1>7, <1>8, <1>9, OfTheOne
<1>11. dueTo(c) <=> me.ex.state = "RS_READY" /\ pc \notin {"file", "close"}
  BY <1>2, <1>7, <1>8, <1>9, OfTheOne
<1>12. dueTo(c)' <=> client'[c].ex.state = "RS_READY" /\ pc' \notin {"file", "close"}
  BY <1>2, <1>7, <1>8, <1>9, OfTheOne
<1>13. client'[c].ex = ex
  BY <1>4, <1>5, <1>8 DEF RInv, IInv, TypeOK
<1>14. stageOf(c) = "held"
  BY <1>2, <1>10 DEF StageAt
<1>15. CASE ex.state = "RS_CLOSE"
  <2>1. ~dueTo(c)'
    BY <1>12, <1>13, <1>15
  <2>2. stageOf(c)' = "parting"
    BY <1>4, <1>10, <1>15 DEF StageAt
  <2>3. C!GiveUp(c)
    BY <1>2, <1>10, <1>14, <2>1, <2>2, GaveUp
  <2> QED BY <2>3 DEF AbstractStep, C!Next
<1>16. CASE ex.state # "RS_CLOSE"
  <2>1. stageOf(c)' = "held"
    BY <1>4, <1>10, <1>16 DEF StageAt
  <2>2. ~dueTo(c)
    BY <1>3, <1>11, <1>16, WordsOf
  <2>3. CASE dueTo(c)'
    <3>1. C!Prepare(c)
      BY <1>2, <1>10, <1>14, <2>1, <2>2, <2>3, Prepared
    <3> QED BY <3>1 DEF AbstractStep, C!Next
  <2>4. CASE ~dueTo(c)'
    BY <1>2, <1>10, <1>14, <2>1, <2>2, <2>4, QuietOne
  <2> QED BY <2>3, <2>4
<1> QED BY <1>15, <1>16

(* The connection is given up: what was ready stays due while it is read,  *)
(* and no more once a send has failed.                                     *)
LEMMA FailsMaps == RInv /\ (recv_fails \/ send_fails \/ send_file_fails) => AbstractStep
<1> SUFFICES ASSUME RInv, recv_fails \/ send_fails \/ send_file_fails PROVE AbstractStep
  OBVIOUS
<1>1. /\ UNCHANGED <<backlog, peer, sock, heap, client, cur>> /\ pc \in {"recv", "send", "file"}
      /\ pc' = IF pc = "recv" THEN "last" ELSE "close"
      /\ tx' = tx \/ (pc = "file" /\ tx' = [tx EXCEPT ![to] = Append(@, "cut")])
  BY DEF recv_fails, send_fails, send_file_fails, kernel, tables, WriteNothing
<1>2. pc \in InHand /\ Running'
  BY <1>1 DEF InHand, Running
<1>3. PICK c \in Conns : c = node.client /\ client[c] = me /\ to = c /\ me # NULL
  BY <1>2, ClientInHand
<1>4. PICK new : new # NULL
  BY <1>3
<1>5. OnlyOf(c) /\ stageOf(c) = StageAt(pc) /\ stageOf(c)' = StageAt(pc')
  BY <1>1, <1>2, <1>3, <1>4, OfTheOne
<1>6. dueTo(c) <=> me.ex.state = "RS_READY" /\ pc \notin {"file", "close"}
  BY <1>1, <1>2, <1>3, <1>4, OfTheOne
<1>7. dueTo(c)' <=> client'[c].ex.state = "RS_READY" /\ pc' \notin {"file", "close"}
  BY <1>1, <1>2, <1>3, <1>4, OfTheOne
<1>8. stageOf(c) = "held"
  BY <1>1, <1>5 DEF StageAt
<1>9. CASE pc = "recv"
  <2>1. stageOf(c)' = "parting" /\ (dueTo(c)' <=> dueTo(c)) /\ tx' = tx
    BY <1>1, <1>3, <1>5, <1>6, <1>7, <1>9 DEF StageAt
  <2>2. C!GiveUp(c)
    BY <1>5, <1>8, <2>1, GaveUp
  <2> QED BY <2>2 DEF AbstractStep, C!Next
<1>10. CASE pc # "recv"
  <2>1. stageOf(c)' = "ending" /\ ~dueTo(c)'
    BY <1>1, <1>5, <1>7, <1>10 DEF StageAt
  <2>2. \/ tx' = tx
        \/ /\ ~dueTo(c) /\ tx[c] # <<>> /\ tx[c][Len(tx[c])] \in {"page", "cut"}
           /\ tx' = [tx EXCEPT ![c] = Append(@, "cut")]
    BY <1>1, <1>3, <1>6 DEF RInv, FileInv
  <2>3. C!BreakOff(c)
    BY <1>5, <1>8, <2>1, <2>2, BrokeOff
  <2> QED BY <2>3 DEF AbstractStep, C!Next
<1> QED BY <1>9, <1>10

(* The send of what _outBuf holds: the response that was ready, or the     *)
(* error of what was refused.                                              *)
LEMMA SendLastMaps == RInv /\ send_last => AbstractStep
<1> SUFFICES ASSUME RInv, send_last PROVE AbstractStep
  OBVIOUS
<1>1. /\ UNCHANGED <<backlog, peer, sock, heap, client, cur>> /\ pc = "last" /\ pc' = "close"
      /\ WriteNothing \/ (me.ex.outBuf # "empty" /\ Write(to, me.ex.outBuf))
  BY DEF send_last, AfterLast, tables
<1>2. pc \in InHand /\ Running'
  BY <1>1 DEF InHand, Running
<1>3. PICK c \in Conns : /\ c = node.client /\ client[c] = me /\ to = c /\ me # NULL
                         /\ me.ex \in Stored \cup {Refused}
  BY <1>2, ClientInHand
<1>4. PICK new : new # NULL
  BY <1>3
<1>5. OnlyOf(c) /\ stageOf(c) = StageAt(pc) /\ stageOf(c)' = StageAt(pc')
  BY <1>1, <1>2, <1>3, <1>4, OfTheOne
<1>6. dueTo(c) <=> me.ex.state = "RS_READY" /\ pc \notin {"file", "close"}
  BY <1>1, <1>2, <1>3, <1>4, OfTheOne
<1>7. dueTo(c)' <=> client'[c].ex.state = "RS_READY" /\ pc' \notin {"file", "close"}
  BY <1>1, <1>2, <1>3, <1>4, OfTheOne
<1>8. stageOf(c) = "parting" /\ stageOf(c)' = "ending" /\ ~dueTo(c)'
  BY <1>1, <1>5, <1>7 DEF StageAt
<1>9. me.ex.outBuf # "empty" => me.ex.outBuf = IF dueTo(c) THEN "page" ELSE "error"
  BY <1>1, <1>3, <1>6, WordsOf DEF Stored
<1>10. \/ tx' = tx
       \/ \E w \in {IF dueTo(c) THEN "page" ELSE "error", "cut"} :
             tx' = [tx EXCEPT ![c] = Append(@, w)]
  <2>1. CASE WriteNothing
    BY <2>1 DEF WriteNothing
  <2>2. CASE me.ex.outBuf # "empty" /\ Write(c, me.ex.outBuf)
    <3>1. PICK word : word = me.ex.outBuf /\ word = IF dueTo(c) THEN "page" ELSE "error"
      BY <1>9, <2>2
    <3>2. \E w \in {word, "cut"} : tx' = [tx EXCEPT ![c] = Append(@, w)]
      BY <2>2, <3>1 DEF Write
    <3> QED BY <3>1, <3>2
  <2> QED BY <1>1, <1>3, <2>1, <2>2
<1>11. C!LastAnswer(c)
  BY <1>5, <1>8, <1>10, LastAnswered
<1> QED BY <1>11 DEF AbstractStep, C!Next

LEMMA Fresh ==
  ASSUME NEW m \in Client
  PROVE  \E new \in Client : new = [m EXCEPT !.ex = NewExchange] /\ new.ex = NewExchange
<1>1. NewExchange \in Exchanges
  BY DEF NewExchange, Exchanges, ReqState
<1> HIDE DEF NewExchange
<1>2. [m EXCEPT !.ex = NewExchange] \in Client /\ [m EXCEPT !.ex = NewExchange].ex = NewExchange
  BY <1>1 DEF Client
<1> QED BY <1>2

LEMMA SendResponseMaps == RInv /\ send_response => AbstractStep
<1> SUFFICES ASSUME RInv, send_response PROVE AbstractStep
  OBVIOUS
<1>1. pc = "send" /\ pc \in InHand /\ UNCHANGED <<backlog, peer, sock, heap>>
  BY DEF send_response, InHand
<1>2. PICK c \in Conns : c = node.client /\ client[c] = me /\ me \in Client /\ to = c
  BY <1>1, ClientInHand, Handled DEF RInv
<1>3. PICK new : new = [me EXCEPT !.ex = NewExchange] /\ new \in Client /\ new.ex = NewExchange
  BY <1>2, Fresh
<1>4. /\ new # NULL
      /\ \/ pc' = "file" /\ cur' = cur /\ client' = client
         \/ pc' = "dispatch" /\ client' = [client EXCEPT ![node.client] = new]
  BY <1>3, NullAssumption DEF send_response, Clear_exchange, BackToBatch, me
<1>5. Running' /\ (pc' \in {"file", "last", "close"} => cur' = cur)
      /\ (client' = client \/ client' = [client EXCEPT ![node.client] = new])
  BY <1>4 DEF Running
<1>12. OnlyOf(c) /\ stageOf(c) = StageAt(pc) /\ stageOf(c)' = StageAt(pc')
  BY <1>1, <1>2, <1>4, <1>5, OfTheOne
<1>6. OnlyOf(c) /\ stageOf(c) = "held" /\ stageOf(c)' = "held"
  BY <1>1, <1>4, <1>12 DEF StageAt
<1>7. dueTo(c) <=> me.ex.state = "RS_READY" /\ pc \notin {"file", "close"}
  BY <1>1, <1>2, <1>4, <1>5, OfTheOne
<1>8. dueTo(c)' <=> client'[c].ex.state = "RS_READY" /\ pc' \notin {"file", "close"}
  BY <1>1, <1>2, <1>4, <1>5, OfTheOne
<1>9. ~dueTo(c)'
  <2>1. NewExchange.state # "RS_READY"
    BY WordsOf
  <2>2. CASE pc' = "file"
    BY <1>8, <2>2
  <2>3. CASE pc' # "file"
    <3>1. client'[c] = new
      BY <1>2, <1>4, <2>3 DEF RInv, IInv, TypeOK
    <3> QED BY <1>3, <1>8, <2>1, <3>1
  <2> QED BY <2>2, <2>3
<1>10. CASE me.ex \in {Reading, NewExchange} /\ tx' = tx
  <2>1. ~dueTo(c)
    BY <1>7, <1>10, WordsOf
  <2> QED BY <1>6, <1>9, <1>10, <2>1, QuietOne
<1>11. CASE \E w \in {"page", "cut"} :
              tx' = [tx EXCEPT ![to] = Append(@, w)] /\ \E p \in Page : me.ex = Served(p)
  <2>1. dueTo(c)
    BY <1>1, <1>7, <1>11, WordsOf
  <2>2. PICK w \in {"page", "cut"} : tx' = [tx EXCEPT ![c] = Append(@, w)]
    BY <1>2, <1>11
  <2>3. C!Answer(c)
    BY <1>6, <1>9, <2>1, <2>2, Answered
  <2> QED BY <2>3 DEF AbstractStep, C!Next
<1> QED BY <1>10, <1>11, ResponseSent

LEMMA SendFileMaps == RInv /\ send_file => AbstractStep
<1> SUFFICES ASSUME RInv, send_file PROVE AbstractStep
  OBVIOUS
<1>1. /\ pc = "file" /\ pc \in InHand /\ pc' = "dispatch"
      /\ UNCHANGED <<backlog, peer, sock, heap>>
  BY DEF send_file, BackToBatch, InHand
<1>2. PICK c \in Conns : c = node.client /\ client[c] = me /\ me \in Client /\ to = c
  BY <1>1, ClientInHand, Handled DEF RInv
<1>3. PICK new : new = [me EXCEPT !.ex = NewExchange] /\ new \in Client /\ new.ex = NewExchange
  BY <1>2, Fresh
<1>4. /\ new # NULL /\ client' = [client EXCEPT ![node.client] = new]
      /\ Running' /\ pc' \notin {"file", "last", "close"}
  BY <1>1, <1>3, NullAssumption DEF send_file, Clear_exchange, me, Running
<1>11. OnlyOf(c) /\ stageOf(c) = StageAt(pc) /\ stageOf(c)' = StageAt(pc')
  BY <1>1, <1>2, <1>4, OfTheOne
<1>5. OnlyOf(c) /\ stageOf(c) = "held" /\ stageOf(c)' = "held"
  BY <1>1, <1>11 DEF StageAt
<1>6. dueTo(c) <=> me.ex.state = "RS_READY" /\ pc \notin {"file", "close"}
  BY <1>1, <1>2, <1>4, OfTheOne
<1>7. dueTo(c)' <=> client'[c].ex.state = "RS_READY" /\ pc' \notin {"file", "close"}
  BY <1>1, <1>2, <1>4, OfTheOne
<1>8. ~dueTo(c) /\ ~dueTo(c)'
  <2>1. client'[c].ex = NewExchange
    BY <1>2, <1>3, <1>4 DEF RInv, IInv, TypeOK
  <2> QED BY <1>1, <1>6, <1>7, <2>1, WordsOf
<1>9. CASE tx' = tx
  BY <1>5, <1>8, <1>9, QuietOne
<1>10. CASE tx' # tx
  <2>1. PICK w \in {"file", "cut"} : tx' = [tx EXCEPT ![c] = Append(@, w)]
    BY <1>2, <1>10 DEF send_file, WriteNothing, Write
  <2>2. tx[c] # <<>> /\ tx[c][Len(tx[c])] \in {"page", "cut"}
    BY <1>1, <1>2 DEF RInv, FileInv
  <2>3. C!Attach(c)
    BY <1>5, <1>8, <2>1, <2>2, FileSent
  <2> QED BY <2>3 DEF AbstractStep, C!Next
<1> QED BY <1>9, <1>10

(* The inactive ones are closed together.                                  *)
LEMMA InactiveMaps == RInv /\ close_inactive_clients => AbstractStep
<1> SUFFICES ASSUME RInv, close_inactive_clients PROVE AbstractStep
  OBVIOUS
<1> USE ConstantsAssumption
<1> DEFINE Old == {h \in Handles : Inactive(h)}
           Out == {c \in Conns : \E fd \in Fds : fd \in Old /\ sock[fd] = c}
<1>1. /\ pc = "dispatch" /\ pc' = "top" /\ UNCHANGED <<backlog, peer, tx, client>>
      /\ sock' = [fd \in Fds |-> IF fd \in Old THEN NULL ELSE sock[fd]]
  BY DEF close_inactive_clients, FreeInactive
<1>2. /\ Running /\ Running' /\ pc # "ended" /\ IInv
      /\ \A c \in Conns : ~Past(c) /\ ~Past(c)' /\ ~GivenUp(c) /\ ~GivenUp(c)'
  BY <1>1 DEF Running, RInv, Past, GivenUp
<1> PICK S : S = Out
  OBVIOUS
<1> PICK Gone : Gone = Old
  OBVIOUS
<1>3. /\ sock' = [fd \in Fds |-> IF fd \in Gone THEN NULL ELSE sock[fd]]
      /\ S = {c \in Conns : \E fd \in Fds : fd \in Gone /\ sock[fd] = c}
  BY <1>1
<1> HIDE DEF Old, Out
<1>4. \A c \in Conns : Queued(c) <=> Queued(c)'
  BY <1>1 DEF Queued
<1>5. ASSUME NEW c \in S
      PROVE  stageOf(c) = "held" /\ stageOf(c)' = "closed" /\ ~dueTo(c)'
  <2>1. PICK fd \in Fds : fd \in Gone /\ sock[fd] = c /\ c \in Conns
    BY <1>3, <1>5
  <2>2. Held(c)
    BY <2>1 DEF Held
  <2>3. \A f \in Fds : sock[f] = c => f = fd
    BY <1>2, <2>1, OneDescriptor
  <2>4. ~Held(c)'
    BY <1>3, <2>1, <2>3 DEF Held
  <2>5. stageOf(c) = "held" /\ ~Queued(c) /\ peer[c] # "away"
    BY <1>2, <2>1, <2>2, HeldStage
  <2> QED BY <1>1, <1>4, <2>1, <2>4, <2>5 DEF stageOf, dueTo
<1>6. ASSUME NEW c \in Conns \ S
      PROVE  stageOf(c)' = stageOf(c) /\ (dueTo(c)' <=> dueTo(c))
  <2>1. Held(c) <=> Held(c)'
    BY <1>3, <1>6 DEF Held
  <2> QED BY <1>1, <1>2, <1>4, <2>1, SameStage, SameDue
<1>7. C!CloseSome(S)
  BY <1>1, <1>3, <1>5, <1>6, SomeClosed
<1>8. S \in SUBSET Conns
  BY <1>3
<1> QED BY <1>7, <1>8 DEF AbstractStep, C!Next

LEMMA NewClientMaps ==
  ASSUME RInv, NEW e \in request, new_client_setup(e)
  PROVE  AbstractStep
<1> USE ConstantsAssumption, NullAssumption
<1>1. /\ pc = "dispatch" /\ pc' = pc /\ UNCHANGED <<peer, tx>> /\ Running /\ Running'
      /\ backlog \in [Servers -> SUBSET Conns] /\ sock \in [Fds -> Conns \cup {NULL}]
      /\ client \in [Conns -> Client \cup {NULL}]
  BY DEF new_client_setup, Running, RInv, IInv, TypeOK
<1>2. PICK s \in Servers : s = heap[e.ptr].server
  <2>1. e.ptr \in Addrs /\ heap[e.ptr] # NULL
    BY DEF RInv, IInv, TypeOK, NoDanglingPointer, Live, Entry
  <2> QED BY <2>1 DEF RInv, IInv, TypeOK, t_node
<1>3. PICK c \in backlog[s], fd \in {d \in Fds : sock[d] = NULL} :
        /\ backlog' = [backlog EXCEPT ![s] = @ \ {c}]
        /\ sock' = [sock EXCEPT ![fd] = c]
        /\ client' = [client EXCEPT ![c] = NewClient(fd)]
  BY <1>2 DEF new_client_setup
<1>4. c \in Conns /\ peer[c] # "away" /\ client[c] = NULL
      /\ \A t \in Servers : c \in backlog[t] => s = t
  BY <1>1, <1>3 DEF RInv, IInv, QueueFresh
<1>5. stageOf(c) = "queued" /\ ~dueTo(c)
  BY <1>1, <1>3, <1>4 DEF stageOf, Queued, dueTo
<1>6. ~Queued(c)' /\ Held(c)'
  BY <1>1, <1>3, <1>4 DEF Queued, Held
<1>7. stageOf(c)' = "held"
  <2>1. ~GivenUp(c)'
    BY <1>1 DEF GivenUp
  <2> QED BY <1>1, <1>4, <1>6, <2>1 DEF stageOf
<1>11. \A d \in Conns : ~Past(d) /\ ~Past(d)' /\ ~GivenUp(d) /\ ~GivenUp(d)'
  BY <1>1 DEF Past, GivenUp
<1>8. ~dueTo(c)'
  <2>1. client'[c].ex.state = "RS_IDLE"
    BY <1>1, <1>3, <1>4 DEF NewClient, NewExchange
  <2> QED BY <2>1 DEF dueTo
<1>9. ASSUME NEW d \in Conns \ {c}
      PROVE  stageOf(d)' = stageOf(d) /\ (dueTo(d)' <=> dueTo(d))
  <2>1. Queued(d) <=> Queued(d)'
    BY <1>1, <1>3, <1>9 DEF Queued
  <2>2. Held(d) <=> Held(d)'
    BY <1>1, <1>3, <1>9 DEF Held
  <2>3. client'[d] = client[d]
    BY <1>1, <1>3, <1>9
  <2> QED BY <1>1, <1>11, <2>1, <2>2, <2>3, SameStage, SameDue
<1>10. C!Accept(c)
  BY <1>1, <1>4, <1>5, <1>7, <1>8, <1>9, Accepted DEF OnlyOf
<1> QED BY <1>4, <1>10 DEF AbstractStep, C!Next

(* Taking an entry of the batch only makes its client younger.             *)
LEMMA EventMaps ==
  ASSUME RInv, NEW e \in request, read_event(e) \/ write_event(e)
  PROVE  AbstractStep
<1>1. /\ pc = "dispatch" /\ pc' \in {"recv", "send"} /\ UNCHANGED <<backlog, peer, sock, tx>>
      /\ client' = [client EXCEPT ![heap[e.ptr].client] = [@ EXCEPT !.idle = 0]]
      /\ client \in [Conns -> Client \cup {NULL}]
  BY DEF read_event, write_event, kernel, Update_Last_Activity, RInv, IInv, TypeOK
<1>2. PICK c \in Conns : c = heap[e.ptr].client /\ client[c] \in Client
  <2>1. e.ptr \in Addrs /\ LiveClientNode(e.ptr) /\ pc # "ended"
    BY <1>1 DEF RInv, IInv, TypeOK, NoDanglingPointer, Live, Entry, LiveClientNode,
                read_event, write_event
  <2> QED BY <2>1, LiveClient DEF RInv
<1>3. client' = [client EXCEPT ![c] = [client[c] EXCEPT !.idle = 0]]
  BY <1>1, <1>2
<1>4. [client[c] EXCEPT !.idle = 0] \in Client /\ [client[c] EXCEPT !.idle = 0].ex = client[c].ex
  BY <1>2, ConstantsAssumption DEF Client
<1>5. \A d \in Conns : /\ client'[d] # NULL <=> client[d] # NULL
                       /\ client[d] # NULL => client'[d].ex = client[d].ex
  BY <1>1, <1>2, <1>3, <1>4, NullAssumption
<1> QED BY <1>1, <1>5, TurnMaps DEF Running

LEMMA RefinementStep == RInv /\ [Next]_vars => [C!Next]_C!vars
<1> SUFFICES ASSUME RInv, [Next]_vars PROVE AbstractStep
  BY DEF AbstractStep
<1>1. CASE check_sig_stop \/ enter_epoll_wait \/ epoll_wait
  <2>1. /\ UNCHANGED <<backlog, peer, sock, tx, client>> /\ Running /\ Running'
        /\ pc \notin {"file", "last", "close"} /\ pc' \notin {"file", "last", "close"}
    BY <1>1 DEF check_sig_stop, enter_epoll_wait, epoll_wait, kernel, tables, Running
  <2> QED BY <2>1, TurnMaps
<1>2. CASE shutdown \/ \E e \in request : accept_fails(e)
  <2>1. UNCHANGED <<peer, tx>> /\ Running /\ ~Running' /\ pc \in {"dispatch", "stopped"}
    BY <1>2 DEF shutdown, accept_fails, kernel, Running
  <2> QED BY <2>1, EndMaps
<1>3. CASE UNCHANGED vars
  <2>1. /\ UNCHANGED <<backlog, peer, sock, tx, client, pc, cur, heap>>
    BY <1>3 DEF vars, kernel, tables, loop
  <2>2. Running' = Running /\ node' = node
    BY <2>1 DEF Running, node
  <2>3. \A c \in Conns : (Held(c) <=> Held(c)') /\ (Queued(c) <=> Queued(c)')
    BY <2>1 DEF Held, Queued
  <2>5. \A c \in Conns : (Past(c) <=> Past(c)') /\ (GivenUp(c) <=> GivenUp(c)')
    BY <2>1, <2>2 DEF Past, GivenUp
  <2>4. \A c \in Conns : stageOf(c)' = stageOf(c) /\ (dueTo(c)' <=> dueTo(c))
    BY <2>1, <2>2, <2>3, <2>5, SameStage, SameDue
  <2> QED BY <2>1, <2>4, Stutters DEF AbstractStep
<1> QED
  BY <1>1, <1>2, <1>3, OutsideMaps, NewClientMaps, EventMaps, RecvDataMaps, FailsMaps,
     SendLastMaps, ClosedMaps, SendResponseMaps, SendFileMaps, InactiveMaps
  DEF Next, Loop, Terminated

LEMMA RefinementStart == Init => C!Init
<1> SUFFICES ASSUME Init PROVE C!Init
  OBVIOUS
<1>1. \A c \in Conns : stageOf(c) = "away"
  BY DEF Init, stageOf
<1>2. \A c \in Conns : dueTo(c) = FALSE
  <2>1. \A c \in Conns : client[c] = NULL
    BY DEF Init
  <2> QED BY <2>1, Zenon DEF dueTo
<1>3. tx = [c \in Conns |-> <<>>]
  BY DEF Init
<1> QED BY <1>1, <1>2, <1>3 DEF C!Init

(* Connection by connection, and whatever the peers, the kernel and the    *)
(* signals do, the loop accepts once, answers each ready request once,     *)
(* lets a file follow its response only, and closes with at most an answer *)
(* and a farewell, each cut short or left out as the kernel and the peer   *)
(* have it at that moment (Server.cpp 88-196, Server_functions.cpp         *)
(* 195-206).                                                               *)
THEOREM Implements == Spec => ImplementsConversations
BY RefinementStart, RefinementStep, RInvariance, PTL
DEF Spec, C!Spec, ImplementsConversations
=============================================================================
