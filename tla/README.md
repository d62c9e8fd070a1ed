# A verification of webserv

`src/` is an HTTP/1.1 server of the 42 school: one process, one thread, one
`epoll` loop. This directory holds TLA+ modules of its core, the TLC
configurations that check them on small instances, and proofs that TLAPS checks
for every value of the constants. Paths below are relative to `src/src/` unless
they start with `src/`.

1. [The system](#1-the-system)
2. [The modules](#2-the-modules)
3. [What is checked, on which instances](#3-what-is-checked-on-which-instances)
4. [Fairness](#4-fairness)
5. [What is proved, and how](#5-what-is-proved-and-how)
6. [Where the code and its documentation differ](#6-where-the-code-and-its-documentation-differ)
7. [What is not modelled](#7-what-is-not-modelled)
8. [Plan](#8-plan)

## 1. The system

`Start_all_servers` (`parse_config.cpp:63`) reads a configuration, makes one
`Server` with its listening socket per block, registers each with `epoll` and
calls `respond_to_client` (`socket_manager.cpp:6`), the loop of the program. The
components, their state and what has to hold of them:

| component | state | operations | correct when |
|---|---|---|---|
| **event loop** `socket_manager.cpp`, `main.cpp` | `sig_stop`, the array of events `request` | test of the flag, `epoll_wait`, dispatch of each entry, `close_inactive_clients` | no entry is dispatched on a freed node; batches end; an event after SIGINT stops the server |
| **connections** `server/Server.cpp`, `Server_functions.cpp:195` | per connection a descriptor, a `t_node`, a `Client`, an `epoll` registration | `new_client_setup`, `read_client_request`, `send_page_to_client`, `close_client` | the five registrations of a connection are made and undone together; a ready answer is sent, once, to its own client |
| **Monitor** `Monitor/Monitor.cpp` | `node_map`: descriptor to node | `add_to_node`, `close_inactive_clients` | the map has the open descriptors and all allocated nodes, no more |
| **Client** `utils/Client.cpp` | socket, `last_activity`, its `HttpExchange` | `Update_Last_Activity`, `Clear_exchange` | the exchange is fresh when the next request comes |
| **HttpExchange** `http/HttpExchange.cpp` | `_inBuf`, `_outBuf`, request, response | `process`: parse, route, handle, build | the loop sees one of few states; cuts of the stream do not change the outcome |
| **Parser** `http/Parser.cpp` | `_contentLength`, the state of the request | `parse` and its parts, `handleBoundary` | a request is served when exactly it has come |
| **Router** `http/Router.cpp` | type and url of the request | `route`, `validateRequest`, `defineRequestType` | each request gets one type or one error |
| **Handler** `http/Handler.cpp` | the file system, `errno`, the clock, two statics that number uploads | files, auto index, uploads, deletions | one request is handled once; uploads are stored as sent, under names of their own; a deletion says what it did |
| **CGI** `Handler::execute_cgi` | a pipe, a process, descriptors | `pipe`, `fork`, `execve`, `waitpid`, `read` | nothing is lost, left running or left open |
| **HttpResponse** `http/HttpResponse.cpp` | status, headers, body | `toString`, `errorToString` | status and body go with the state |
| **configuration** `config/`, `Server_functions.cpp`, `parse_config.cpp` | servers, their settings and locations | `Start_all_servers`, `LoadConfig`, `Manage_Location`, `Manage_Methods`, `Start_server`, `defineBestLocation` | each line goes to its key in its block, each uri to its location; what runs serves what was read |

How they interact. The loop finds a node through the pointer `epoll` gives back
and calls the node's `Server`; the `Server` reads and writes through the node's
`Client`; each `recv` is passed to the client's `HttpExchange::process`, whose
state alone (`RS_CLOSE`, `RS_READY` or neither) decides whether the connection
is closed, answered or read again. All of that is by direct call, in one thread;
what is concurrent is the outside: peers that connect, send, stop reading, shut
down or reset at any moment, the clock, SIGINT, and a script that is forked.

What is hard:

- **stale pointers and reused numbers**: a batch of events holds raw pointers
  while the handlers of earlier entries free nodes, close descriptors and get
  the same addresses and numbers back;
- **undoing a registration**: `close_client` is called from five places, in the
  middle of handlers whose callers still hold references;
- **partial input**: the stream of a peer is cut anywhere, `recv` of a
  non-blocking socket says -1 for "nothing yet", and any number of requests may
  come before an answer is sent;
- **partial output**: `send` takes less than it is given, or nothing, and what it
  says is compared with -1 at most;
- **two sends that end a connection**, with anything between them;
- **timeouts**: inactivity is tested after the batch that may have served the
  same client;
- **two processes** that wait for each other around a pipe of finite size;
- **arithmetic on positions** that were not found, in multipart bodies;
- **a walk that fails half-way**, with an `errno` that is read long after it was
  set and directories that are not closed;
- **names that must never come back**, made from a local time that may be set back
  and two statics that a new start resets;
- **an upload in several calls** whose results nobody looks at;
- **servers that fail to start one by one**, while the others go on;
- **four nested loops over one stream of lines**, each with an idea of its own of
  where its block ends.

The full list, each at its line and with the properties that watch it, is
`hazards` in `PROJECT.json`.

## 2. The modules

| module | what it is |
|---|---|
| `Exchange` | abstract: what the loop sees of an `HttpExchange`, `process` on kinds of chunks |
| `EventLoop` | the loop, its handlers, Monitor and the shutdown, with kernel and peers |
| `EventLoopProperties` | invariants, action properties and liveness of `EventLoop` |
| `Conversations` | abstract: what a connection may go through and be told |
| `EventLoopRefinement` | `EventLoop` implements `Conversations` |
| `EventLoopProofs` | the TLAPS proofs of the safety of `EventLoop` |
| `WireProofs` | those of what is said on a connection, and to whom |
| `ConversationsProofs` | the TLAPS proofs that it implements `Conversations` and leaks on one path only |
| `HttpExchange` | one exchange in detail: Parser, Router, Handler on tokens |
| `HttpExchangeProperties` | its properties, against the bytes the peer sends |
| `HttpExchangeProofs` | the TLAPS proofs of what `process` leaves |
| `ServingProofs` | those that relate it to what was received |
| `Cgi` | `execute_cgi` and the process it forks |
| `CgiProperties`, `CgiProofs` | its properties and their proofs |
| `Config` | the configuration file, line by line, up to the servers it starts; locations of uris |
| `ConfigProperties`, `ConfigProofs` | its properties, against a reader who counts braces, and their proofs |
| `Files` | uploads and recursive deletions on a file system, call by call |
| `FilesProperties`, `FilesProofs` | its properties and their proofs |
| `MCEventLoop`, `MCHttpExchange`, `MCCgi`, `MCConfig`, `MCFiles` | the instances TLC checks |

Operators named `faulty_...` are plausible slips of the definition that follows
them (a dropped guard, a missing erase). No next-state relation uses them; they
are there so that each property can be tried against code that has the slip.
`map` in `PROJECT.json` gives the lines each definition stands for.

### EventLoop

State and code:

| variable | in the program |
|---|---|
| `backlog`, `sock`, `peer`, `rx`, `full`, `sent` | the kernel's queues and buffers, and what the other ends did |
| `tx` | everything written to a connection, by kind: `page` and `error` (a response in `_outBuf`), `file` (the bytes of the url), `cut` (a part of either), `204` (the farewell of `close_client`) |
| `epoll` | per descriptor the interest set and `data.ptr` |
| `node_map` | `Monitor::node_map` |
| `heap` | the `t_node` at each address, NULL when free; addresses are reused |
| `client` | the `Client` of each connection: socket, exchange, age of `last_activity` |
| `pc`, `request`, `cur` | where the thread is, the entries still to dispatch, the one in hand |
| `sig_stop` | the flag of the signal handler |

A step of the thread is a system call with the code up to the next one: the test
of `sig_stop` (`check_sig_stop`), entering and leaving `epoll_wait`
(`enter_epoll_wait`, `epoll_wait`), `accept` (`new_client_setup`,
`accept_fails`), the `EPOLLIN` and `EPOLLOUT` branches up to `recv` or `send`
(`read_event`, `write_event`), one turn of `read_client_request` (`recv_data`,
`recv_fails`), the last answer of a connection it gives up (`send_last`), the
204 and the rest of `close_client`, the response of `send_page_to_client`
(`send_response`, `send_fails`). Four steps are more than one call: the file
after a response (`send_file`, `send_file_fails`: a loop of sends over one
file), `accept` with the `fcntl` and `epoll_ctl` after it, the sweep
(`close_inactive_clients`), and the end of `Start_all_servers` (`shutdown`); a
peer acts before or after those, not within. The closing sends are steps of
their own because what comes between them shows: an error may be cut or not said
at all, and the 204 said or not, in any combination the kernel allows.
Between any two of them the environment may act. `epoll_wait` returns
`MAX_EVENTS` of the ready descriptors at most, in any order; the batch is a set
because its order is the kernel's choice. The -1 of a `recv` that finds nothing
and the 0 of a closed connection are one case, as they are in the code.

Abstractions: a file or a response is one `send` or a part of one (the blocks of
1024 bytes are not counted); a `send` that takes a part leaves the buffer full;
`fcntl` and `EPOLL_CTL_ADD`, which end the process when they fail for a new client, do not
fail; `process` runs without a system call (the CGI is `Cgi`'s matter). The
servers are those that listen and are registered (the `heard` ones of `Config`);
timeouts are any numbers, negative ones included.

### HttpExchange

The peer's request is a record (`ask`) and a sequence of tokens (`Text(ask)`);
each `Receive` takes any non-empty prefix of what is left, so that every cut at
a token boundary is met; `received` is a history of what was taken for the
present exchange, and how much of it came first. Each function of the Parser,
the Router and the Handler is an operator on the exchange with the same checks
in the same order. What the file system answers is not state: `defineRequestType`, `handleGet`, `handlePost`
and `handleDelete` return the set of exchanges they may leave. `done` is a
history of what happened outside memory (`upload` with its contents, `delete`,
`run`). `c_str` is the conversion of `read_client_request`, which ends at the
first NUL. What the loop sees of the result is tied to `Exchange` by
`SeenByLoop` (the states `process` may leave) and `ImplementsExchange` (its
steps): `HttpExchange` implements the exchange `EventLoop` works with.

`handleBoundary` has its positions. The pieces that occur in what it searches
for (`\r\n`, `--`, the boundary) are two bytes long each and never overlap, so
that a place between tokens is a place between bytes; `find`, `PartStart` and
`erased` are the code's numbers in those units, and the `npos` of an end mark
that is missing wraps around as `size_t` does: the erase then takes `npos` plus
the boundary and four bytes, which is the boundary and three, and the part is
accepted if no more than that is left.

### Cgi

`pc` is the place in `execute_cgi`, `child` the forked process, `writers` the
holders of the pipe's write end. A fork that fails goes on as the code does (it
is not tested); `execve` that fails makes the child return from `execute_cgi`
and become a second server, for which the first then waits. `foreign` says that
bytes the script did not write were appended: `str += buffer` reads to a NUL
nobody put there, and what it finds is a choice. Output is counted, not spelled
(it is taken to hold no NUL, at which the append would stop).

### Config

A line is a sequence of tokens: blanks, the signs the code looks for, and words;
a path is slashes and words. `level` says which of the four loops reads
(`Start_all_servers`, `LoadConfig`, `Manage_Location`, `Manage_Methods`),
`servers` is `Server_List`, `loc` the `NewConfig` of the location being read.
Each line is one step, `Read(line)`, of the loop at work; `EndOfFile` ends
whatever loop reads, as `getline` does, and what was read counts. `data` are a
server's members, `config` the `ServerConfig` that `fill_config_datas` copies
them to. Keys are found as the code finds them, the first of the sorted names
that occurs anywhere in the line; values are cut where `Skip_white_spaces` and
`substr` cut them. A member no constructor sets holds `Indeterminate`. A thrown
exception is the level `failed`: it ends the program wherever it was thrown.
`bind` is refused for a port another listening server has, and may be refused
anyway: that throws. A `listen` or an `epoll_ctl` that fails is printed and no
more (`print_errors`), so each server has a `reach`: bound, listening, or heard by
`epoll` too. `setup_epoll` may have failed (`epoll`); then no server is heard, and
the loop ends at its first `epoll_wait` (`Respond`).

`BestLocations` and `Url` are `defineBestLocation` and the url the Router makes;
they are operators, and the properties try them on all of `Uris` with whatever
locations were read.

A size is at least 501 here (`ConfigAssumption`), so that the sizes the program
starts with are sizes.

`ConfigProperties` adds a history, `written`: the file as one reads it who
counts braces, who takes a setting to be `key = value` and gives up (`Untidy`)
on anything else.

### Files

A name is the numbers it begins with, each followed by `_`, and a rest; a path
is a sequence of names, and the disk maps paths to nodes. `stack` holds the calls
of `deleteRecursive`, each with its path and the entries `readdir` has still to
give; a step is a system call with the code up to the next one, so that each may
fail by itself. An upload is `uploadFile` (the name is made, the file opened, which
truncates what is there), `write`, by which all of the file is on the disk, and
`close_upload`, which answers 201 whether `write` came before it or not: the code
looks at no result after the opening. `ofs` is the file being written. The clock
answers any of `Seconds` each time it is asked, in any order, and `Local` is the
local time of a second, which may be that of another one too. `errno` (whether it is not zero) is kept as the code keeps it:
reset after `opendir`, set by whatever fails, looked at after the loop;
`Elsewhere` lets other code leave anything in it between requests. `open` counts
directories, and `opendir` fails when `MAX_DIRS` are open (or for another
reason). `Restart` kills the program between any two steps, in the middle of an upload or
a walk, and starts it again, perhaps in the same second, with `old` and `count`
as at first and the disk as it was.
An entry of kind `other` is one that `stat` fails for or that is neither file
nor directory, which the walk passes over. Nobody else changes the disk during a
walk. A disk is a tree: every directory on the way to a path is there, and is
one (`Tree`); an upload needs its folder to be a directory, and a place where no
directory is. A history, `kept`, has the files nobody asked to delete, as they
were when the program left them: whole, partial or empty.

### Conversations

A connection is away, queued, held or closed; an answer is due or not; `said` is
what was written to it. It promises that a connection is accepted once, spoken
to only while held, given one response for each request that became ready, with
a file only after a response. A connection that is given up passes through
`parting`, where the answer before the farewell is said, cut or not said, and
`ending`, where the farewell is; nothing is said after it.

## 3. What is checked, on which instances

### Runs that pass

**`tables`** (about 825,000 states with symmetry): one server, two descriptors,
two connections, three node addresses, batches of two, timeout 0, one chunk per
peer of kinds file, gone, bad, part. Two connections over two descriptors and
three addresses are the least in which a batch has two client entries, one
closes the other's neighbour, and numbers and addresses come back to another
connection.

- `TablesAgree`: descriptors, registrations, map and allocated nodes agree;
- `NoDanglingPointer`: nothing in the batch or in hand points to freed memory;
- `OwnConnection`: no connection is read or answered through another's `Client`;
- `NothingForgotten`: between events nothing is half read, and a ready answer
  has `EPOLLOUT` armed;
- `NoOtherLeak`: a `Client` is leaked by `close_inactive_clients` only;
- `IInv`: the inductive invariant of the proofs;
- `ImplementsConversations`: the refinement.

**`wire`** (about 1,070,000 states): one connection with up to three chunks of all
five kinds, short sends, full buffers, shutdowns and resets, ages up to one past
a timeout of 1. Three chunks are the least for a request, one more before its
answer, and one after it.

- `NoAnswerTwice`: answers never outnumber what was read;
- `LastWords`: the farewell ends a connection; after an error comes the farewell, a
  part of it or nothing, and while the connection is still open the next call is
  the one that closes it; a file follows its response only;
- `ArmedInVain`: `EPOLLOUT` stays armed for nothing only after a response no file
  follows, or a part of one;
- `NoAnswerDropped`: a connection with a ready answer is closed only if the peer
  left, sent more, stopped reading, or was idle too long.

**`live`** (about 261,000 states): two connections for one descriptor; one sends two
chunks, gone or part, so that it sends on while it is read, the other only
connects. `BatchCompletes`, `ReadyAnswered`, `QueuedAccepted`,
`StopsOnEvent`. Batches of two are what `QueuedAccepted` needs: with a batch of one the kernel could report the same client for ever, since
nothing says in which order `epoll_wait` serves the ready ones.

**`http`** (about 32,000 states): some 400 requests that differ from a plain one
in one or two respects (each check of the Parser and the Router is met), plain
bodies up to three pieces and multipart ones up to 19 with a limit of 20, every
cut, every file-system answer. The multipart bodies are whole ones, with and
without blank lines or an end mark in the file, and ones that go on behind the
end mark, start before the boundary, have two parts, are longer than
Content-Length, hold NULs, or lack the end mark, the blank line or the boundary.

- `SeenByLoop`: `process` leaves only what `Exchange` knows, with the error code
  and status that go with it;
- `ServedWhole`, `AnsweredWhole`: a request is served when exactly it has been
  received, and then is; the exception, a start line alone at the end of a
  `recv`, is in the statement because the code serves it (section 6);
- `CutsDontMatter`: once the head came in one `recv`, cutting the body changes
  neither state nor error;
- `StoredAsSent`: an upload has as much of the body as Content-Length announces,
  within the limit; of a multipart body, what is between the first blank line
  and the next end mark (so a file comes with the CRLF before the mark), behind
  which there is one piece at most, or three pieces at most if there is no mark.
  A file in a part of its own is stored whole, or, if it holds an end mark,
  refused;
- `HandledOnce`: what is uploaded, deleted or run for one request is done once, and
  at most once more for each NUL in what the peer sent. That a NUL can double it
  is what the code does: a `recv` that begins with one makes `process` run on
  nothing, and on an exchange that is ready that handles the request again
  (`Server.cpp:177`, `HttpExchange.cpp:38`); the run has such requests;
- `ImplementsExchange`: each `recv` makes of what the loop sees what `Exchange`
  makes of some piece of input, and what comes after a ready response is only
  refused.

What is said of the requests that are served (`ServedWhole`, `AnsweredWhole`,
`CutsDontMatter`, `StoredAsSent`) and `ImplementsExchange` are about requests
without a NUL (`Textual`): the rest of a `recv` behind one is lost, which
`binary_upload` shows. `SeenByLoop` and `HandledOnce` are about all.

**`cgi`** (about 490 states): five calls, four descriptors, outputs of 0, 1, 3
and 4 units through a pipe of 3 read by 2: empty, below one read, as much as the
pipe holds, one more. `NoChildLeft`, `ReadsEnd`, `WholeOutput`, `OneLeftOpen`
(each call leaves one descriptor open, and no more), `Returns`, and `IInv`. Four
descriptors are used up within the five calls, so that the `pipe` that fails is
reached. Deadlock is not checked here: the server does stop, when the exception
leaves the loop, when the script never ends or fills the pipe.

In `http` it is not checked either; every state there has a successor.

**`config`** (about 124,000 states): files of up to six lines of some thirty
kinds, up to two servers. Six lines are the least for a server with a location
and a directive in it that is closed and followed by another block; the lines
have settings that are well and badly written, a value that contains another
key, ports that are equal modulo 2^16, a number that is none or negative, every
directive of a location, and braces with and without blanks before them. Seven
uris have the paths of the locations at the start, further on and not at all,
one of them without a slash. Deadlock is not checked: reading ends.

- `AllBound`: the loop runs with an `epoll` instance only, and with every server
  that was read, each bound, on ports of their own as far as they listen; a
  server is heard only if it was registered. A `listen` or a registration that
  fails is not noticed: such a server stays silent while the others serve
  (section 6);
- `UploadFlagKnown`: no location has a folder for uploads and an indeterminate
  flag;
- `LocationFound`, `LongestPrefix`: each uri with a slash has a location, no
  shorter than any that begins the uri, and the url is its root and the rest;
- `AsWritten`: of a tidy file the program reads what a reader does: it is in the
  block the braces say, and each server has its own settings and methods.

**`files`** (about 808,000 states): three uploads, with names that begin with a
number or do not, in two seconds of one local time, in any order, and deletions
of anything on two small disks, in which every call may fail, with a new start
between any two steps; two directories can be open at once, one less than the
walk of the deeper disk wants when one was lost.

- `StampsApart`: two uploads get the same time stamp only in seconds of the same
  local time, and only if between them the program was started again or there
  was an upload in another second (a clock that was set back, or local time at
  the end of summer);
- `UploadsKept`: a file nobody asked to delete stays as it was left when it was
  closed, or when the program was killed while it was written; but for those
  whose name begins with a number of its own, or whose local time came back;
- `DeleteLeaves`: 205 leaves nothing, 500 leaves what was named and has a reason;
- `ErrnoTellsTruth`: an `errno` left over keeps no directory from being removed
  that could have been;
- `WalkEnds`: a deletion ends;
- `TypeOK` also counts the open directories: those of the calls under way, and
  one for each `unlink` that failed.

### Bounds

`MAX_CHUNKS`, `MAX_CALLS`, `LONGEST` and `Requests` bound what the environment
does; `MAX_IDLE` caps ages, which matter only against a smaller timeout;
`MAX_BODY`, `CAPACITY`, `BUFFER`, `MAX_FDS`, `MAX_EVENTS` and `TIMEOUT` are
parameters of the program, taken small so that both sides of each are met.
`Lines`, `Uris`, `MAX_LINES`, `MAX_SERVERS`, `Trees`, `Filenames`, `Contained`,
`Seconds`, `Local`, `MAX_RUNS` and `MAX_UPLOADS` bound what `config`, `files` and `http` are given;
`MAX_DIRS` is a parameter again, and `PORTS` and `SIZES` are what the types of
the code wrap at (a size wraps at 65536 in `config`, which the one negative size
meets as well as 2^64). Two seconds, two runs and three uploads are what a stamp needs
to come back: with a second between two others, in the same second after a new
start, or with the counter of the one before. That seconds of different local
times have different stamps only the theorem says; TLC would need a third
second for it. Only `tables` uses symmetry, and no liveness is checked there.

## 4. Fairness

`EventLoop!FairSpec` is weak fairness of the thread's steps together: the
scheduler runs the one thread whenever it can run. Peers, clock and signal have
none, so no liveness property relies on a peer that sends, reads or closes.
`BatchCompletes` takes two things for granted, which its comment names. What a
peer sends has an end (`MAX_CHUNKS`): a recv that begins with a NUL leaves a new
exchange as it was, and `read_client_request` reads again, so a peer that sent
such recvs without end and as fast as they are read would hold the loop. And
`process` returns: a script that is waited for without end (`cgi_blocks`) holds it
too. The property says that a peer that sends on, stops half-way, does not drain
its side or leaves holds nobody up, with what it sends being of the kinds that
`Exchange` has.
`Cgi!FairSpec` is weak fairness of the server, of the script's start and
writing, and of its exit once all is written: two processes under one scheduler,
and a script that ends when it has nothing left to do (one that does not end
holds the server, which waits for it; that is not a matter of the pipe).

`Files!FairSpec` is weak fairness of `deleteRecursive`: the thread goes on with
the walk it is in. A restart ends the walk too. Clients and clock owe nothing,
and nothing is said of when an upload ends.
`Config` states none; its properties are all about states.

## 5. What is proved, and how

`EventLoopProofs` (about 1150 obligations): for any sets of servers,
descriptors, connections and addresses, any batch size, timeouts and inputs,

- `Invariance`: `Spec => []IInv`
- `TypeCorrect`, `TablesAlwaysAgree`, `NeverDangling`, `ClientsApart`,
  `NeverForgotten`: its parts `TypeOK`, `TablesAgree`, `NoDanglingPointer`,
  `OwnConnection`, `NothingForgotten`.

Assumptions: `ConstantsAssumption` (descriptors of listening sockets are not
those of clients; the timeouts are numbers below the cap on ages) and `NullAssumption`
(NULL is no record).

The argument. `TablesAgree` alone is not inductive: closing a connection frees a
node, and only `NoDanglingPointer` says that no other entry of the batch points
to it; that in turn needs to know that the entry in hand is not in the rest of
the batch, and that a sweep happens on an empty batch (`Control`).
`OwnConnection` needs that a connection taken from a queue has no `Client` yet
(`QueueFresh`). `NothingForgotten` needs that `EPOLLOUT` was armed before the
read began (`Control`). Their conjunction `IInv` is inductive: one lemma per
action, over a few shared ones: `CloseClient` (everything `close_client`
undoes), `KeepClient` (steps that change one client's exchange or age and maybe
its interest set), `HeldNode` and `OneDescriptor` (a held connection has one
descriptor, and that descriptor one node), `ProcessResult` (what `process`
leaves). The hard ones are `NewClientSetup`, where a reused descriptor and a
reused address must be shown to be new to every table, and `CloseInactive`,
which frees a set of nodes at once.

`ConversationsProofs` (about 1500 obligations), on top of `EventLoopProofs` and
under its assumptions: `Implements` (`Spec => ImplementsConversations`) and
`LeaksNowhereElse` (`NoOtherLeak`). `IInv` says nothing of what an exchange is
between two steps, and the refinement needs it, because the words of a closing
connection depend on it: `RInv` adds that every stored exchange is one that
`process` made or a fresh one, and a refused one only on its way to the close
(`StoredInv`); that a response, or a part of one, has just been written whenever a
file is about to be (`FileInv`); that the nodes of servers have no `Client` (`ServerInv`). A step of the loop is then
mapped through the connection it handles: `OfTheOne` says that a handler changes
the stage and the due response of no other connection, `ClosedMaps` that
`close_client` is a `Farewell` on every path that reaches it, whatever its `send`
did, `OneDescriptor` that a connection whose descriptor is closed is held no more. `InactiveMaps` is
the step that closes many connections at once, `EndMaps` the end of the process.
For the leaks, `OrphanBefore` is the whole argument: a `Client` a step does not
touch, without a node after it, had none before unless that step freed the node,
and only `close_inactive_clients` frees a node and keeps its `Client`.

`WireProofs` (about 1550 obligations), on top of `ConversationsProofs` and under
the same assumptions:

- `RarelyInVain` (`ArmedInVain`) and `NothingDropped` (`NoAnswerDropped`, an
  action property), from `HInv`: beside `RInv` it says that an entry of the
  batch that is to be read is of a client that has sent more or left, that one
  to be written has `EPOLLOUT` armed (`EntriesHold`), and the same of the entry
  in hand (`HandHolds`). Without it a step that reads a client could be one
  whose answer nobody interrupted;
- `SaysNothingAfter` (`LastWords`), from `SaidInv`, by how far the connection is:
  before the closing calls what was said has neither an error nor a 204
  (`Unfinished`); between them at most an error, as the last word (`Parted`); at
  the end it is in order (`Ordered`). That the sends may be cut or fail, with the
  peer leaving and the buffer filling between them, changes none of the three;
- `AnswersOnce` (`NoAnswerTwice`). The property is not inductive: a response that
  is ready is owed, and sending it must not make one too many, so `Paid` counts
  the answers given plus the one owed against the requests read, but for a
  response whose file is about to follow.

`HttpExchangeProofs` (about 2350 obligations), for any requests, limits, names
and locations, under `RequestsAssumption` (requests are requests, the limit is a
number): `Invariant` (`Inv`), and from it `TypeCorrect`, `LoopSees`
(`SeenByLoop`) and `OnlyOnce` (`HandledOnce`). `Inv` says that between two `recv`s
an exchange is new, in the middle of a body with nothing kept back and less of
it than announced, finished with a response, or closed with an error
(`Situation`), and that what was taken for it is a piece of the request that
ends where the rest begins (`Place`). One lemma per function of the Parser, the
Router and the Handler says what it leaves of each of these; `SeenByLoop` is then
what ties the event loop's `Exchange` to the code for every request and not only
those of `http`. `OnlyOnce` counts with it: a `recv` adds at most one to what was done,
and to an exchange that has done something only if it begins with a NUL.

`ServingProofs` (about 2900 obligations), on top of it and under
`ContainedAssumption` (files are sequences of pieces):

- `ServesWhole` (`ServedWhole`), `AnswersWhole` (`AnsweredWhole`), `CutsAlike`
  (`CutsDontMatter`). They need `Shape`: an exchange that waits for more of a body
  has taken the request from its start, keeps its method and length, and has as
  its body what of the body was taken; one that is ready has taken the request
  up to where its length says, or the start line alone. For `CutsAlike` the
  operator `process` is run on the same text in one piece (`SameAsk`): the exchange
  that came in pieces leaves the same state and error.
- `StoresAsSent` (`StoredAsSent`), from `Kept`: what an exchange has done is
  nothing, a run, a deletion, or one upload of what `Stores` says, of the
  request it belongs to. `BodyStored` says that the body in hand when it is
  complete is that of the request (`SentIs`), `BoundaryCut` what `handleBoundary`
  leaves of any body: where the first blank line and the next end mark are,
  when it accepts one and what it keeps, the wrap-around of `npos` included.
  `EnvelopeBetween` then shows that of a file in one part nothing but the file
  and its CRLF can stand between those two places. `Words` are the things that
  the Router and the Handler may do on the way, so that only a POST uploads, and
  what it uploads is the body `parse` left.
- `ExchangeImplemented` (`ImplementsExchange`), from `Inv` and `OneRecv` (what a
  `recv` leaves, by what `parse` made of it). With it, what is proved of `EventLoop`
  over the abstract `process` holds for the Parser, the Router and the Handler,
  for requests without a NUL.

Five of the properties are about requests whose body holds no NUL, and say so
themselves (`Textual`); the theorems have no hypothesis. `TypeOK` of
`HttpExchange` is proved and in no run: what TLC would say of it `SeenByLoop` and
`ImplementsExchange` say better.

`CgiProofs` (about 90 obligations), for any scripts, capacities and numbers of
descriptors: `CgiInvariance`, and from it `CgiTypeCorrect`, `CgiReaped` (no
child outlives its call), `CgiReadsEnd` (reads cannot block), `CgiWhole`
(nothing of the output is lost) and `CgiLeaks`. The strengthening (`PipeInv`,
`FdsInv`) says that what was written is what was read plus what is in the pipe,
and who may still write; assumption `CgiAssumption` (the constants are numbers).

`ConfigProofs` (about 2500 obligations), for any lines, any uris and any sizes:
all that `config` checks. Assumptions: `ConfigAssumption` (lines are sequences of
words, no two of them side by side) and `UrisAssumption`.

- `AlwaysAllBound`, `UploadFlagAlwaysKnown`, `LocationAlwaysFound`,
  `LongestPrefixChosen`, from `ConfigInv`: every location, that in hand included,
  is filed under its own path, which is a sequence of words, and has a known
  flag if it has a folder; every server has the location "/"; all servers but
  the one being read are bound, with their settings copied, and those of them that
  listen have ports apart (`Started`); without an `epoll` instance none is heard. The two about
  uris need that a longest match exists, which comes from the well-foundedness
  of the natural numbers (`Least`, `Longest`), the library having no theorem
  about `Min`; `LongestPrefixChosen` that a path that begins a uri occurs in it.
- `TakenAsWritten` (`AsWritten`), from `WrittenOK`: while the file is tidy the
  loop that reads is that of the block the reader is in, and what he was told of
  each server is what is known of it. Its lemmas follow a line through the code:
  `Strip` (the text without its indentation), `Setting` and `SettingRead` (the key
  is the first of the sorted names that occurs, and what `Skip_white_spaces` and
  `substr` cut out is the value), `BlockRead`, `BraceRead`.
- `ConfigTypeCorrect` (`TypeOK`), from `TypeInv`: what each key is given has the
  type of the member it fills.

`FilesProofs` (about 2250 obligations), for any disks, names, limits, any answers
of the clock in any order and any local times; assumption `FilesAssumption` (what
is on the disk is a tree, and local time is a function of the second).

- `StampsAlwaysApart`: `StampsApart` is not inductive; `StampsInv` adds that the
  last upload of this run was in the second `old`, and that the uploads which
  the next one of that second would be `Together` with have no number the counter
  has yet to reach. What was before another second or another start is the
  exception of the statement, so nothing need be said of it.
- `ErrnoAlwaysTrue` needs `WalkInv`: the calls on the stack are of directories
  that are there, each inside its caller's and given by `readdir` already
  (`Frames`), and when `errno` is set, a directory whose own call failed is left
  in that of the innermost call (`Blames`); while a file is written it is there and
  no walk is under way (`OfsInv`).
- `DeletesWhole` (`DeleteLeaves`) needs `WalkInv` and `DeleteInv`: all the calls are
  at or below what was named; an `errno` that is set means that something failed;
  and as long as nothing did, what is left in the directory of each call is what
  `readdir` has still to give and, for the callers, the directory of the next
  call (`Left`).
- `UploadsAlwaysKept` (`UploadsKept`) needs these and `KeptInv`: a file that is to be
  kept is below nothing a walk was asked to delete, and the file being written
  has its path only if the exception applies. `TakenOver` is the argument: a
  name that begins with a stamp and is opened again has the stamp of an earlier
  upload, so by `NewStamp` the local time of that upload came back. A disk that
  holds names with stamps at the start is no exception: such a file has a name
  that begins with a number, and no upload of this history.
- `FilesTypeCorrect` (`TypeOK`), with the count of the directories left open.

Only model-checked: all liveness (`BatchCompletes`, `ReadyAnswered`,
`QueuedAccepted`, `StopsOnEvent`, `Returns`, `WalkEnds`), which is outside of what
TLAPS proves here; and the five counterexamples of the next section.

## 6. Where the code and its documentation differ

Each is a run that ends in a counterexample (`findings` in `PROJECT.json` quotes
the text).

| run | text | what happens |
|---|---|---|
| `lost_signal` | `main.cpp:33` "STOPPING ALL SERVERS" | a signal between the test of `sig_stop` and the block in `epoll_wait` has no effect until some descriptor has an event |
| `split_upload` | `src/README.md:14` | a body whose end has not arrived when `recv` says -1: connection closed |
| `split_headers` | `src/README.md:16` | a header section in two `recv`s: 400 |
| `binary_upload` | `src/README.md:15` | a NUL in an upload: the rest of that `recv` is lost and no answer comes |
| `cgi_blocks` | `src/README.md:14` | output beyond the pipe's capacity: script and server wait for each other |

Seen while modelling, without a run:

- a response that has no file to follow it leaves `EPOLLOUT` armed, and the loop
  then wakes up for that connection over and over (`Server.cpp:100`;
  `ArmedInVain` says that this and a part of a response are the only cases);
- inactivity is looked at only after a batch: without events idle connections
  stay, whatever `client_timeout_inactivity` says (`src/config/two_server:66`);
- the body of a file is sent twice: in `_outBuf`, and again from the url
  (`Server.cpp:107`);
- the tests of state and status after an answer look at the exchange that was
  just cleared, and never close (`Server.cpp:123`);
- `close_inactive_clients` leaks the `Client` (`Monitor.cpp:48`);
- a start line alone at the end of a `recv` is served without headers, so
  without a Host (`Parser.cpp:42`);
- a file in a multipart body is stored with the CRLF that precedes the end mark,
  and a body without an end mark is accepted if no more is left than the length
  of the boundary and three bytes (`Parser.cpp:244`);
- the test for a missing slash compares nothing with "/": no directory is ever
  answered 301 (`Router.cpp:91`);
- bytes the script did not write may be answered after its output
  (`Handler.cpp:148`);
- an upload whose name begins with a number can get the path of another: as the
  second upload of the second `T`, "x" becomes `T_1_x`, and so does "1_x"
  as the first (`Handler.cpp:283`; the exception in `UploadsKept`). A new start
  in the same second, a clock that is set back, or local time that falls back
  repeats a stamp (`Handler.cpp:299`), and the file of the first upload is
  truncated by the second;
- 201 is answered for a file that is short or empty because `write` or `close`
  failed, and the file stays (`Handler.cpp:263`);
- a `listen` or a registration with `epoll` that fails is printed and no more: that
  server stays silent while the others serve (`Server.cpp:78`,
  `parse_config.cpp:55`); one that is registered and does not listen makes
  `epoll_wait` return at once, again and again;
- a request whose answer is ready is handled again when a `recv` begins with a NUL
  (`Server.cpp:177`; `HandledOnce` says that nothing else makes it so);
- an `unlink` that fails leaves a directory open (`Handler.cpp:362`);
- `Max_request`, `request_timeout`, `default_page` and `server_name` are read and
  never used; without its line `client_timeout` has no value
  (`Server.cpp:18`);
- `upload_enabled = false` before `upload_folder` ends enabled
  (`LocationConfig.cpp:84`);
- a server block that is not closed still starts, and a location block ends at
  any line with a "}" in it (`Server_functions.cpp:104`);
- a uri without a slash has no location, and `end()` is dereferenced
  (`ServerConfig.cpp:121`); a location is chosen wherever its path occurs in the
  uri, and as many bytes are cut from the start (`Router.cpp:75`);
- `handleCgiPost` is never called.

## 7. What is not modelled

- **Characters within a word of the configuration**: lines are tokens. A key
  inside a longer word, or a line with two words run together, is met as two
  tokens or not at all.
- **`line.substr` on a "Content-Type:" line that ends there**: header lines come
  as one token, good or bad in a named way.
- **The second server** a failed `execve` leaves behind: it shares sockets and
  `epoll` with the first, which waits for it.
- **Servers that are silent**: `EventLoop` has the servers that listen and are
  registered; one that failed to (`Config`) has no connections. One that does not
  listen and is registered is reported with EPOLLHUP by every `epoll_wait`, which
  `socket_manager.cpp:18` passes over: the loop spins, and serves as before.
- **NULs in `Exchange`**: the loop's chunks have none (section 8).
- **The bytes of a file**: `write` of `Files` is the call that completes the file,
  a file that is not whole is a part or empty.
- **Exceptions and failed allocations** other than those of a failing `pipe` and
  of the configuration.
- **Other programs that change the disk** during a walk of `deleteRecursive`.
- **Text**: status lines, MIME types, error pages, logging, utilities: constants
  and formatting. Of response building the model has which response is built,
  with which status.

## 8. Plan

Done, in this order: `EventLoop` with its tables, its refinement and its proofs
(that of the refinement last); `HttpExchange`; `Cgi` with its proofs; positions in
`handleBoundary`; `Files` and `Config` with their proofs; the proofs of what is
said on a connection, of `HttpExchange`, and of the rest of `Files` and `Config`;
what an upload stores; `HttpExchange` as an implementation of `Exchange`.

Left:

1. the composition of `Config` with `HttpExchange`: the methods and locations
   that were read as those the Router looks at;
2. NULs in `Exchange`: a piece after which a ready request is handled again,
   which `EventLoop` does not have.
