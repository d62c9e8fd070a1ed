----------------------------- MODULE EventLoop -----------------------------
(***************************************************************************)
(* The one thread of webserv: the epoll loop of socket_manager.cpp with    *)
(* the handlers it calls (server/Server.cpp, Server::close_client,         *)
(* Monitor/Monitor.cpp), against a kernel and peers that act at any        *)
(* moment.  Pointers are addresses that are reused once freed and          *)
(* descriptors are numbers that are reused once closed, as in the program. *)
(***************************************************************************)
EXTENDS Exchange, Integers, FiniteSets

CONSTANTS
  Servers,         \* the Server objects; each stands for its listening socket too
  Fds,             \* the descriptors the process may still open
  Conns,           \* the connections peers may make; also their Client objects
  Addrs,           \* the addresses a t_node may be allocated at
  NULL,
  MAX_EVENTS,      \* the size of the array given to epoll_wait
  client_timeout,  \* client_timeout_inactivity of each server
  MAX_IDLE,        \* bound: ages from MAX_IDLE on are not told apart
  Inputs,          \* bound: the kinds of chunk peers send
  MAX_CHUNKS       \* bound: the chunks each peer sends

Handles == Servers \cup Fds

ASSUME ConstantsAssumption ==
  /\ Servers \cap Fds = {}
  /\ NULL \notin Handles \cup Conns \cup Addrs
  /\ MAX_EVENTS \in Nat \ {0}
  /\ MAX_IDLE \in Nat
  /\ client_timeout \in [Servers -> Int]
  /\ \A s \in Servers : client_timeout[s] < MAX_IDLE
  /\ Inputs \subseteq Chunk
  /\ MAX_CHUNKS \in [Conns -> Nat]

VARIABLES
  \* the kernel and the peers
  backlog,   \* per server, the connections waiting to be accepted
  sock,      \* per descriptor, the connection it is open on
  peer,      \* per connection, what the other end has done
  rx,        \* per connection, the chunks received and not read
  full,      \* per connection, whether its send buffer has no room
  sent,      \* per connection, how many chunks the peer has sent
  tx,        \* per connection, all that was written to it
  \* the tables of the server
  epoll,     \* per descriptor, the interest set and the pointer registered
  node_map,  \* Monitor's map from descriptors to nodes
  heap,      \* the t_node at each address
  client,    \* the Client made for each connection
  \* the loop
  pc, request, cur, sig_stop

kernel == <<backlog, sock, peer, rx, full, sent, tx>>
tables == <<epoll, node_map, heap, client>>
loop   == <<pc, request, cur, sig_stop>>
vars   == <<kernel, tables, loop>>

Wire  == {"page", "file", "cut", "error", "204"}
Event == {"IN", "OUT"}
Entry == [events : SUBSET Event, ptr : Addrs]
t_node == [IsServer : BOOLEAN, fd : Handles, server : Servers,
           client : Conns \cup {NULL}]
Client == [socket : Fds, ex : Exchanges, idle : 0..MAX_IDLE]

ServerNode(s)   == [IsServer |-> TRUE, fd |-> s, server |-> s, client |-> NULL]
ClientNode(s, fd, c) == [IsServer |-> FALSE, fd |-> fd, server |-> s, client |-> c]

(* Operators named faulty_... are slips of the definition that follows     *)
(* them; Next uses none of them.  Here: Client(), whose socket is -1.      *)
faulty_Client(fd) == [socket |-> NULL, ex |-> NewExchange, idle |-> 0]
NewClient(fd)     == [socket |-> fd, ex |-> NewExchange, idle |-> 0]

(* NULL is no record.                                                      *)
ASSUME NullAssumption ==
  NULL \notin t_node /\ NULL \notin Entry /\ NULL \notin Client

Running == pc \notin {"ended", "exited"}

-----------------------------------------------------------------------------
(* The kernel and the peers.                                               *)

Attached(c) == (\E s \in Servers : c \in backlog[s]) \/ (\E fd \in Fds : sock[fd] = c)

Connect(c, s) ==
  /\ Running /\ peer[c] = "away"
  /\ peer' = [peer EXCEPT ![c] = "open"]
  /\ backlog' = [backlog EXCEPT ![s] = @ \cup {c}]
  /\ UNCHANGED <<sock, rx, full, sent, tx, tables, loop>>

PeerSend(c) ==
  /\ Running /\ Attached(c) /\ peer[c] = "open" /\ sent[c] < MAX_CHUNKS[c]
  /\ \E data \in Inputs : rx' = [rx EXCEPT ![c] = Append(@, data)]
  /\ sent' = [sent EXCEPT ![c] = @ + 1]
  /\ UNCHANGED <<backlog, sock, peer, full, tx, tables, loop>>

(* The peer closes its sending side, or the whole connection: what it sent *)
(* before stays readable, and writing fails after a reset only.            *)
PeerLeaves(c, how) ==
  /\ Running /\ Attached(c)
  /\ peer[c] = "open" \/ (peer[c] = "shut" /\ how = "reset")
  /\ peer' = [peer EXCEPT ![c] = how]
  /\ UNCHANGED <<backlog, sock, rx, full, sent, tx, tables, loop>>

PeerDrains(c) ==
  /\ Running /\ Attached(c) /\ full[c] /\ peer[c] # "reset"
  /\ full' = [full EXCEPT ![c] = FALSE]
  /\ UNCHANGED <<backlog, sock, peer, rx, sent, tx, tables, loop>>

(* time(NULL) advances: every last_activity is one unit older.             *)
Tick ==
  /\ Running
  /\ client' = [c \in Conns |->
       IF client[c] # NULL /\ client[c].idle < MAX_IDLE
         THEN [client[c] EXCEPT !.idle = @ + 1] ELSE client[c]]
  /\ UNCHANGED <<kernel, epoll, node_map, heap, loop>>

(* signal_handler sets the flag; a handler that runs while the thread is   *)
(* blocked makes epoll_wait return -1, and respond_to_client return.       *)
signal_handler ==
  /\ Running /\ ~sig_stop
  /\ sig_stop' = TRUE
  /\ pc' = IF pc = "wait" THEN "stopped" ELSE pc
  /\ UNCHANGED <<kernel, tables, request, cur>>

Environment ==
  \/ \E c \in Conns, s \in Servers : Connect(c, s)
  \/ \E c \in Conns : PeerSend(c)
  \/ \E c \in Conns, how \in {"shut", "reset"} : PeerLeaves(c, how)
  \/ \E c \in Conns : PeerDrains(c)
  \/ Tick
  \/ signal_handler

-----------------------------------------------------------------------------
(* One turn of the loop.                                                   *)

faulty_no_check == pc = "top" /\ pc' = "enter" /\ UNCHANGED <<kernel, tables, request, cur, sig_stop>>

check_sig_stop ==
  /\ pc = "top"
  /\ pc' = IF sig_stop THEN "stopped" ELSE "enter"
  /\ UNCHANGED <<kernel, tables, request, cur, sig_stop>>

enter_epoll_wait ==
  /\ pc = "enter"
  /\ pc' = "wait"
  /\ UNCHANGED <<kernel, tables, request, cur, sig_stop>>

Readable(h) == IF h \in Servers THEN backlog[h] # {}
               ELSE rx[sock[h]] # <<>> \/ peer[sock[h]] \in {"shut", "reset"}
Writable(h) == h \in Fds /\ (~full[sock[h]] \/ peer[sock[h]] = "reset")

Fired(h) == {e \in epoll[h].events : IF e = "IN" THEN Readable(h) ELSE Writable(h)}
Ready == {h \in Handles : epoll[h] # NULL /\ Fired(h) # {}}

(* epoll_wait returns as many of the ready descriptors as fit the array;   *)
(* which ones, and in which order, is the kernel's choice.                 *)
epoll_wait ==
  /\ pc = "wait" /\ Ready # {}
  /\ \E S \in SUBSET Ready :
       /\ Cardinality(S) = IF Cardinality(Ready) < MAX_EVENTS
                             THEN Cardinality(Ready) ELSE MAX_EVENTS
       /\ request' = {[events |-> Fired(h), ptr |-> epoll[h].ptr] : h \in S}
  /\ pc' = "dispatch"
  /\ UNCHANGED <<kernel, tables, cur, sig_stop>>

(* Monitor::add_to_node, for a node just allocated at a.                   *)
add_to_node(a, node) ==
  /\ heap' = [[b \in Addrs |-> IF b = node_map[node.fd] THEN NULL ELSE heap[b]]
                EXCEPT ![a] = node]
  /\ node_map' = [node_map EXCEPT ![node.fd] = a]

new_client_setup(e) ==
  LET s == heap[e.ptr].server IN
  /\ pc = "dispatch" /\ e \in request
  /\ heap[e.ptr].IsServer /\ "IN" \in e.events
  /\ \E c \in backlog[s], fd \in {d \in Fds : sock[d] = NULL},
        a \in {b \in Addrs : heap[b] = NULL} :
       /\ backlog' = [backlog EXCEPT ![s] = @ \ {c}]
       /\ sock' = [sock EXCEPT ![fd] = c]
       /\ client' = [client EXCEPT ![c] = NewClient(fd)]
       /\ add_to_node(a, ClientNode(s, fd, c))
       /\ epoll' = [epoll EXCEPT ![fd] = [events |-> {"IN"}, ptr |-> a]]
  /\ request' = request \ {e}
  /\ UNCHANGED <<peer, rx, full, sent, tx, pc, cur, sig_stop>>

(* accept fails when the process has no descriptor left: exit().           *)
accept_fails(e) ==
  /\ pc = "dispatch" /\ e \in request
  /\ heap[e.ptr].IsServer /\ "IN" \in e.events
  /\ \A fd \in Fds : sock[fd] # NULL
  /\ pc' = "exited"
  /\ UNCHANGED <<kernel, tables, request, cur, sig_stop>>

Update_Last_Activity(c) == client' = [client EXCEPT ![c].idle = 0]

faulty_keep_exchange(c) == UNCHANGED client
Clear_exchange(c)       == client' = [client EXCEPT ![c].ex = NewExchange]

(* Only EPOLLIN is ever armed, or EPOLLOUT is never disarmed.              *)
faulty_mod(a, events) ==
  epoll' = [epoll EXCEPT ![heap[a].fd] = [events |-> {"IN"}, ptr |-> a]]

faulty_mod_both(a, events) ==
  epoll' = [epoll EXCEPT ![heap[a].fd] = [events |-> {"IN", "OUT"}, ptr |-> a]]

(* epoll_ctl(EPOLL_CTL_MOD): it fails, with no effect, on a descriptor     *)
(* that is not registered.                                                 *)
epoll_mod(a, events) ==
  LET fd == heap[a].fd IN
  epoll' = IF epoll[fd] = NULL THEN epoll
           ELSE [epoll EXCEPT ![fd] = [events |-> events, ptr |-> a]]

(* An entry with EPOLLIN: both events are armed before the read.           *)
read_event(e) ==
  /\ pc = "dispatch" /\ e \in request
  /\ ~heap[e.ptr].IsServer /\ "IN" \in e.events
  /\ epoll_mod(e.ptr, {"IN", "OUT"})
  /\ Update_Last_Activity(heap[e.ptr].client)
  /\ pc' = "recv" /\ cur' = e /\ request' = request \ {e}
  /\ UNCHANGED <<kernel, node_map, heap, sig_stop>>

(* An entry with EPOLLOUT alone.                                           *)
write_event(e) ==
  /\ pc = "dispatch" /\ e \in request
  /\ ~heap[e.ptr].IsServer /\ e.events = {"OUT"}
  /\ Update_Last_Activity(heap[e.ptr].client)
  /\ pc' = "send" /\ cur' = e /\ request' = request \ {e}
  /\ UNCHANGED <<kernel, epoll, node_map, heap, sig_stop>>

-----------------------------------------------------------------------------
(* The handlers of a client, for the entry cur.                            *)

node == heap[cur.ptr]
me   == client[node.client]
to   == sock[me.socket]

CanWrite(c) == peer[c] # "reset" /\ ~full[c]

(* A send of 'word' that is taken, the whole of it or what has room, after *)
(* which there may or may not be room for more; and one that does nothing. *)
Write(c, word) ==
  /\ CanWrite(c)
  /\ \E w \in {word, "cut"} : tx' = [tx EXCEPT ![c] = Append(@, w)]
  /\ \E b \in BOOLEAN : full' = [full EXCEPT ![c] = b]
WriteNothing == UNCHANGED <<tx, full>>

BackToBatch == pc' = "dispatch" /\ cur' = NULL

faulty_no_delete(c) == UNCHANGED client
delete_client(c)    == client' = [client EXCEPT ![c] = NULL]

faulty_no_erase(fd) == UNCHANGED node_map
erase(fd)           == node_map' = [node_map EXCEPT ![fd] = NULL]

(* A connection that a handler gives up is closed in two calls that write  *)
(* to it: the send of what is in _outBuf, when it was reading, then the    *)
(* 204 of Server::close_client.  Neither result is looked at.  The slip    *)
(* returns from read_client_request between them.                          *)
faulty_AfterLast == BackToBatch
AfterLast        == pc' = "close" /\ UNCHANGED cur

send_last ==
  /\ pc = "last"
  /\ \/ me.ex.outBuf # "empty" /\ Write(to, me.ex.outBuf)
     \/ me.ex.outBuf = "empty" /\ WriteNothing
     \/ ~CanWrite(to) /\ WriteNothing
  /\ AfterLast
  /\ UNCHANGED <<backlog, sock, peer, rx, sent, tables, request, sig_stop>>

close_client ==
  LET fd == node.fd IN
  /\ pc = "close"
  /\ \/ Write(sock[fd], "204")
     \/ ~CanWrite(sock[fd]) /\ WriteNothing
  /\ epoll' = [epoll EXCEPT ![fd] = NULL]
  /\ sock' = [sock EXCEPT ![fd] = NULL]
  /\ delete_client(node.client)
  /\ heap' = [heap EXCEPT ![cur.ptr] = NULL]
  /\ erase(fd)
  /\ BackToBatch
  /\ UNCHANGED <<backlog, peer, rx, sent, request, sig_stop>>

(* read_client_request breaks out of its loop on a response that is ready. *)
faulty_no_break(ex) == FALSE
Breaks(ex)          == ex.state = "RS_READY"

(* One turn of that loop in which recv returned bytes.                     *)
recv_data ==
  /\ pc = "recv" /\ rx[to] # <<>>
  /\ \E n \in 1..Len(rx[to]) :
       LET ex == process(me.ex, SubSeq(rx[to], 1, n)) IN
       /\ rx' = [rx EXCEPT ![to] = SubSeq(@, n + 1, Len(@))]
       /\ client' = [client EXCEPT ![node.client] =
            [socket |-> @.socket, ex |-> ex,
             idle |-> IF Breaks(ex) /\ "OUT" \in cur.events THEN 0 ELSE @.idle]]
       /\ \/ ex.state = "RS_CLOSE" /\ pc' = "last" /\ UNCHANGED cur
          \/ ex.state # "RS_CLOSE" /\ ~Breaks(ex) /\ UNCHANGED <<pc, cur>>
          \/ ex.state # "RS_CLOSE" /\ Breaks(ex) /\ "OUT" \in cur.events
               /\ pc' = "send" /\ UNCHANGED cur
          \/ ex.state # "RS_CLOSE" /\ Breaks(ex) /\ "OUT" \notin cur.events /\ BackToBatch
  /\ UNCHANGED <<backlog, sock, peer, full, sent, tx, epoll, node_map, heap, request, sig_stop>>

(* recv returned 0 or -1, which for this non-blocking socket is also how   *)
(* "nothing more for now" reads.  The slip retries until there is more.    *)
faulty_retry   == rx[to] = <<>> /\ peer[to] # "open"
NothingToRead  == rx[to] = <<>>

recv_fails ==
  /\ pc = "recv" /\ NothingToRead
  /\ pc' = "last"
  /\ UNCHANGED <<kernel, tables, request, cur, sig_stop>>

(* send_page_to_client up to the opening of the url: the response in       *)
(* _outBuf.  send may take a part of it only, and its result is compared   *)
(* with -1 alone.                                                          *)
send_fails ==
  /\ pc = "send"
  /\ peer[to] = "reset" \/ (full[to] /\ me.ex.outBuf # "empty")
  /\ pc' = "close"
  /\ UNCHANGED <<kernel, tables, request, cur, sig_stop>>

send_response ==
  /\ pc = "send" /\ peer[to] # "reset"
  /\ \/ me.ex.outBuf = "empty" /\ WriteNothing
     \/ me.ex.outBuf # "empty" /\ Write(to, me.ex.outBuf)
  /\ \/ /\ me.ex.url \in {"file", "dir"}
        /\ pc' = "file" /\ UNCHANGED <<cur, client>>
     \/ Clear_exchange(node.client) /\ BackToBatch
  /\ UNCHANGED <<backlog, sock, peer, rx, sent, epoll, node_map, heap, request, sig_stop>>

(* The rest of send_page_to_client: the bytes of the opened file, sent     *)
(* 1024 at a time, then the reset of the exchange and of the interest set. *)
(* The first of these sends fails, or one after some that left a part.     *)
(* RS_CLOSE and the status are tested on the fresh exchange: never true.   *)
send_file_fails ==
  /\ pc = "file" /\ me.ex.url = "file"
  /\ \/ ~CanWrite(to) /\ WriteNothing
     \/ /\ CanWrite(to)
        /\ tx' = [tx EXCEPT ![to] = Append(@, "cut")]
        /\ full' = [full EXCEPT ![to] = TRUE]
  /\ pc' = "close"
  /\ UNCHANGED <<backlog, sock, peer, rx, sent, tables, request, cur, sig_stop>>

send_file ==
  /\ pc = "file"
  /\ \/ me.ex.url = "dir" /\ WriteNothing
     \/ me.ex.url = "file" /\ Write(to, "file")
  /\ Clear_exchange(node.client)
  /\ epoll_mod(cur.ptr, {"IN"})
  /\ BackToBatch
  /\ UNCHANGED <<backlog, sock, peer, rx, sent, node_map, heap, request, sig_stop>>

-----------------------------------------------------------------------------
(* Monitor::close_inactive_clients, after every batch; it frees the nodes  *)
(* and not the clients they point to.                                      *)
Inactive(h) ==
  /\ node_map[h] # NULL
  /\ LET n == heap[node_map[h]] IN
       ~n.IsServer /\ client[n.client].idle > client_timeout[n.server]

FreeInactive ==
  LET Old == {h \in Handles : Inactive(h)} IN
  /\ epoll' = [h \in Handles |-> IF h \in Old THEN NULL ELSE epoll[h]]
  /\ sock' = [fd \in Fds |-> IF fd \in Old THEN NULL ELSE sock[fd]]
  /\ heap' = [a \in Addrs |-> IF \E h \in Old : node_map[h] = a THEN NULL ELSE heap[a]]
  /\ node_map' = [h \in Handles |-> IF h \in Old THEN NULL ELSE node_map[h]]
  /\ UNCHANGED <<backlog, peer, rx, full, sent, tx, client, request, cur, sig_stop>>

(* Called for each event instead of after the batch.                       *)
faulty_close_inactive ==
  /\ pc = "dispatch" /\ FreeInactive
  /\ pc' = IF request = {} THEN "top" ELSE pc

close_inactive_clients ==
  /\ pc = "dispatch" /\ request = {}
  /\ FreeInactive
  /\ pc' = "top"

(* The end of Start_all_servers: servers, then nodes and their clients.    *)
shutdown ==
  /\ pc = "stopped"
  /\ backlog' = [s \in Servers |-> {}]
  /\ client' = [c \in Conns |->
       IF \E h \in Fds : node_map[h] # NULL /\ heap[node_map[h]].client = c
         THEN NULL ELSE client[c]]
  /\ heap' = [a \in Addrs |-> IF \E h \in Handles : node_map[h] = a THEN NULL ELSE heap[a]]
  /\ node_map' = [h \in Handles |-> NULL]
  /\ pc' = "ended"
  /\ UNCHANGED <<sock, peer, rx, full, sent, tx, epoll, request, cur, sig_stop>>

Loop ==
  \/ check_sig_stop \/ enter_epoll_wait \/ epoll_wait
  \/ \E e \in request : new_client_setup(e) \/ accept_fails(e)
                          \/ read_event(e) \/ write_event(e)
  \/ recv_data \/ recv_fails \/ send_last \/ close_client
  \/ send_response \/ send_fails \/ send_file \/ send_file_fails
  \/ close_inactive_clients \/ shutdown

Terminated == ~Running /\ UNCHANGED vars

Next == Loop \/ Environment \/ Terminated

(* add_server_to_epoll for each server of the configuration, then the loop.*)
Init ==
  /\ backlog = [s \in Servers |-> {}]
  /\ sock = [fd \in Fds |-> NULL]
  /\ peer = [c \in Conns |-> "away"]
  /\ rx = [c \in Conns |-> <<>>]
  /\ full = [c \in Conns |-> FALSE]
  /\ sent = [c \in Conns |-> 0]
  /\ tx = [c \in Conns |-> <<>>]
  /\ \E at \in [Servers -> Addrs] :
       /\ \A s, t \in Servers : at[s] = at[t] => s = t
       /\ heap = [a \in Addrs |-> IF \E s \in Servers : at[s] = a
                    THEN ServerNode(CHOOSE s \in Servers : at[s] = a) ELSE NULL]
       /\ node_map = [h \in Handles |-> IF h \in Servers THEN at[h] ELSE NULL]
       /\ epoll = [h \in Handles |-> IF h \in Servers
                     THEN [events |-> {"IN"}, ptr |-> at[h]] ELSE NULL]
  /\ client = [c \in Conns |-> NULL]
  /\ pc = "top" /\ request = {} /\ cur = NULL /\ sig_stop = FALSE

Spec == Init /\ [][Next]_vars

(* The thread is never stopped by anything but itself and a signal; peers, *)
(* time and signals owe nothing.                                           *)
FairSpec == Spec /\ WF_vars(Loop)
=============================================================================
