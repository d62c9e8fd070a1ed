------------------------- MODULE EventLoopProperties -------------------------
(***************************************************************************)
(* What the event loop guarantees, and (at the end) what the repository    *)
(* says of it that it does not.                                            *)
(***************************************************************************)
EXTENDS EventLoop

Held(c) == \E fd \in Fds : sock[fd] = c
InHand == {"recv", "send", "file", "last", "close"}
Live(a) == heap[a] # NULL
LiveClientNode(a) == Live(a) /\ ~heap[a].IsServer

(* Every variable has values of its kind.                                  *)
TypeOK ==
  /\ backlog \in [Servers -> SUBSET Conns]
  /\ sock \in [Fds -> Conns \cup {NULL}]
  /\ peer \in [Conns -> {"away", "open", "shut", "reset"}]
  /\ rx \in [Conns -> Seq(Chunk)]
  /\ full \in [Conns -> BOOLEAN]
  /\ sent \in [Conns -> Nat]
  /\ tx \in [Conns -> Seq(Wire)]
  /\ epoll \in [Handles -> Entry \cup {NULL}]
  /\ node_map \in [Handles -> Addrs \cup {NULL}]
  /\ heap \in [Addrs -> t_node \cup {NULL}]
  /\ client \in [Conns -> Client \cup {NULL}]
  /\ pc \in {"top", "enter", "wait", "dispatch", "recv", "send", "file",
             "last", "close", "stopped", "ended", "exited"}
  /\ request \in SUBSET Entry
  /\ cur \in Entry \cup {NULL}
  /\ sig_stop \in BOOLEAN

(* The open descriptors, epoll's registrations and Monitor's node_map name *)
(* the same descriptors; each registers the node the map holds for it; and *)
(* every allocated node is in the map (none is lost, none is freed twice), *)
(* however descriptors and addresses are reused (Server.cpp 137-165,       *)
(* Server_functions.cpp 195-206, Monitor.cpp 16-53).                       *)
TablesAgree ==
  pc # "ended" =>
  /\ \A fd \in Fds : (sock[fd] # NULL) <=> (node_map[fd] # NULL)
  /\ \A h \in Handles : (epoll[h] # NULL) <=> (node_map[h] # NULL)
  /\ \A h \in Handles : node_map[h] # NULL =>
       /\ Live(node_map[h])
       /\ heap[node_map[h]].fd = h
       /\ heap[node_map[h]].IsServer <=> h \in Servers
       /\ epoll[h].ptr = node_map[h]
  /\ \A a \in Addrs : Live(a) => node_map[heap[a].fd] = a

(* No handler runs on freed memory: every entry of the batch still to be   *)
(* dispatched, and the one being handled, points to an allocated node,     *)
(* whatever the handlers of the entries before it closed, accepted or      *)
(* reused (socket_manager.cpp 16-45).                                      *)
NoDanglingPointer ==
  /\ \A e \in request : Live(e.ptr) /\ \A f \in request : e.ptr = f.ptr => e = f
  /\ pc \in InHand =>
       LiveClientNode(cur.ptr) /\ \A e \in request : e.ptr # cur.ptr

(* Every allocated client node has a Client of its own, whose socket is    *)
(* the node's descriptor, open on that client's connection: no connection  *)
(* is read or answered through the Client of another one.                  *)
OwnConnection ==
  \A a \in Addrs : LiveClientNode(a) =>
    LET n == heap[a] IN
    /\ n.client # NULL /\ client[n.client] # NULL
    /\ client[n.client].socket = n.fd
    /\ sock[n.fd] = n.client

(* Between two events a client either has nothing in progress or has a     *)
(* response ready and EPOLLOUT armed to send it: no request is left half   *)
(* read and no answer forgotten (read_client_request breaks on RS_READY    *)
(* alone, socket_manager.cpp 27 arms EPOLLOUT before the read).            *)
NothingForgotten ==
  \A a \in Addrs : LiveClientNode(a) /\ (cur = NULL \/ cur.ptr # a) =>
    LET ex == client[heap[a].client].ex IN
    \/ ex = NewExchange
    \/ ex.state = "RS_READY" /\ "OUT" \in epoll[heap[a].fd].events

(* A Client is lost (no node points to it any more) only by                *)
(* close_inactive_clients, and so only beyond its server's timeout: no     *)
(* other path, error or shutdown, leaks one.                               *)
NoOtherLeak ==
  \A c \in Conns :
    client[c] # NULL /\ (\A a \in Addrs : Live(a) => heap[a].client # c)
      => \E s \in Servers : client[c].idle > client_timeout[s]

(* Answers never outnumber requests: the answers written to a connection,  *)
(* the 204 of close_client apart, and the one in preparation, are no more  *)
(* than the chunks read from it.  An answer is not sent twice.             *)
Answers(c) == {i \in DOMAIN tx[c] : tx[c][i] \in {"page", "error"}}
Past(c)    == pc \in {"file", "close"} /\ node.client = c
Due(c) == IF client[c] # NULL /\ client[c].ex.state = "RS_READY" /\ ~Past(c) THEN 1 ELSE 0

NoAnswerTwice == \A c \in Conns : Cardinality(Answers(c)) + Due(c) <= sent[c] - Len(rx[c])

(* The 204 of close_client is the last word written to a connection that   *)
(* is closed; after an error, even if its peer left or its buffer filled   *)
(* in the meantime, comes the 204, a part of it or nothing, and while the  *)
(* connection is open the next call is the one that closes it; a file only *)
(* follows the response that announces it (Server.cpp 176-192,             *)
(* Server_functions.cpp 195-206).                                          *)
LastWords ==
  \A c \in Conns : \A i \in DOMAIN tx[c] :
    /\ tx[c][i] = "204" => i = Len(tx[c]) /\ ~Held(c)
    /\ tx[c][i] = "error" =>
         \/ i = Len(tx[c]) /\ (Held(c) => pc = "close" /\ node.client = c)
         \/ i + 1 = Len(tx[c]) /\ tx[c][i + 1] \in {"204", "cut"} /\ ~Held(c)
    /\ tx[c][i] = "file" => i > 1 /\ tx[c][i - 1] \in {"page", "cut"}

(* EPOLLOUT stays armed for a client that has nothing to be sent only      *)
(* after a response no file followed, or a part of an answer: not on a     *)
(* connection that has been answered nothing, nor after a whole file, nor  *)
(* while a request is not complete (Server.cpp 100-133, socket_manager.cpp *)
(* 26-43).                                                                 *)
ArmedInVain ==
  \A a \in Addrs : LiveClientNode(a) /\ (cur = NULL \/ cur.ptr # a) =>
    LET c == heap[a].client IN
    "OUT" \in epoll[heap[a].fd].events /\ client[c].ex = NewExchange =>
      tx[c] # <<>> /\ tx[c][Len(tx[c])] \in {"page", "cut"}

(* The server gives up a connection whose response is ready, by a handler  *)
(* or as inactive, only if the peer left, sent more bytes before reading   *)
(* the answer, stopped draining its side, or was inactive for too long;    *)
(* and a batch never makes a served client inactive.                       *)
GivenUp(c) == pc \in {"last", "close"} /\ node.client = c

NoAnswerDropped ==
  [][\A c \in Conns :
       /\ Held(c) /\ ~GivenUp(c) /\ (GivenUp(c)' \/ ~Held(c)')
       /\ client[c].ex.state = "RS_READY"
       => \/ peer[c] # "open" \/ rx[c] # <<>> \/ full'[c]
          \/ \E s \in Servers : client[c].idle > client_timeout[s]]_vars

(* The inductive strengthening of the first five: what the program counter *)
(* says of the batch, and that a queued connection is new to the tables.   *)
Control ==
  /\ cur # NULL <=> pc \in InHand
  /\ pc \in {"top", "enter", "wait", "stopped", "ended"} => request = {}
  /\ pc = "recv" => "OUT" \in epoll[heap[cur.ptr].fd].events

QueueFresh ==
  \A c \in Conns :
    /\ peer[c] = "away" => client[c] = NULL
    /\ \A s \in Servers : c \in backlog[s] =>
         peer[c] # "away" /\ client[c] = NULL /\ \A t \in Servers : c \in backlog[t] => s = t

IInv == /\ TypeOK /\ Control /\ TablesAgree /\ NoDanglingPointer
        /\ OwnConnection /\ QueueFresh /\ NothingForgotten

-----------------------------------------------------------------------------
(* Liveness, under FairSpec.                                               *)

Over == pc \in {"stopped", "ended", "exited"}

(* The handlers of a batch all return, and the thread comes back to        *)
(* epoll_wait or ends: a peer that sends while its request is read, stops  *)
(* in the middle of it, does not drain its side or leaves holds nobody up. *)
(* It takes that process returns, and that what a peer sends has an end    *)
(* (MAX_CHUNKS), as what Content-Length announces has: a stream of recvs   *)
(* that begin with a NUL, or a script that is waited for, is not among the *)
(* inputs (Server.cpp 167-197).                                            *)
BatchCompletes == (pc = "dispatch") ~> (pc = "wait" \/ Over)

(* A response that is ready, on a connection with room for it, is written  *)
(* (or its connection closed) unless the server stops.                     *)
Unanswered(c) == Held(c) /\ client[c] # NULL /\ client[c].ex.state = "RS_READY"
ReadyAnswered == \A c \in Conns : (Unanswered(c) /\ ~full[c]) ~> (~Unanswered(c) \/ Over)

(* A connection in the queue of a server is accepted unless it stops.      *)
QueuedAccepted ==
  \A s \in Servers, c \in Conns : (c \in backlog[s]) ~> (c \notin backlog[s] \/ Over)

(* After SIGINT the server stops as soon as any descriptor has an event.   *)
StopsOnEvent == (sig_stop /\ Ready # {}) ~> (pc = "ended" \/ pc = "exited")

-----------------------------------------------------------------------------
(* Said by the repository, and refuted by what the code does.              *)

(* main.cpp 33, "SIGINT RECEIVED STOPPING ALL SERVERS": a server that has  *)
(* received the signal stops.                                              *)
SignalStops == sig_stop ~> (pc = "ended" \/ pc = "exited")

(* README.md 14, a "non blocking server" that handles "all I/O requests":  *)
(* a connection is not closed under a client that is still there with a    *)
(* request partly received and accepted so far.                            *)
HandlesAllRequests ==
  [][\A fd \in Fds :
       LET c == sock[fd] IN
       c # NULL /\ sock'[fd] # c /\ client[c].ex.state = "RS_HEADERS_READ"
         => peer[c] # "open" \/ rx[c] # <<>>]_vars
=============================================================================
