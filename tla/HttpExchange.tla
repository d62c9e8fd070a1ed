---------------------------- MODULE HttpExchange ----------------------------
(***************************************************************************)
(* One HttpExchange in detail: HttpExchange::process with the Parser, the  *)
(* Router and the Handler it calls, on the pieces of a request that recv   *)
(* returns, however they are cut.  Text is a sequence of tokens: "start"   *)
(* is a start line, "fields" all the header lines but the last CRLF, and   *)
(* what follows are pieces of a body.  What stat, access, open, unlink and *)
(* a CGI program answer is a choice: the result of each operator that asks *)
(* them is the set of the exchanges they may leave.                        *)
(***************************************************************************)
EXTENDS Integers, Sequences, FiniteSetsExt

CONSTANTS
  Requests,  \* bound: what peers may send on a connection
  MAX_BODY   \* Max_client_body_size of the server

E == INSTANCE Exchange

None == -1   \* no Content-Length
Junk == -2   \* a Content-Length that is no number, or overflows

(* Of a body; "dash" is "--", "B" the name of the boundary, "disp" the     *)
(* header lines of a part but the last CRLF.  All are two bytes long, but  *)
(* for "disp".                                                             *)
Piece == {"b1", "b2", "b3", "nul", "crlf", "dash", "B", "disp"}
Token == {"start", "fields"} \cup Piece

(* A request as the peer writes it: 'line' is "ok", or a start line with a *)
(* word missing or none at all; 'fields' are "ok", without Host, badly     *)
(* written ("400", "431") or absent; 'te' names the transfer encoding      *)
(* header, if any; 'form' says of the Content-Type that it is multipart,   *)
(* with the boundary B or without one.                                     *)
Request == [line : {"ok", "short", "empty"},
            method : {"GET", "POST", "DELETE", "OTHER"},
            version : {"1.1", "other", "junk"},
            fields : {"ok", "hostless", "400", "431", "absent"},
            length : {None, Junk} \cup Nat,
            te : {"none", "Transfer-Encoding", "Transfert-Encoding"},
            form : {"none", "multipart", "unbounded"},
            body : Seq(Piece)]

ASSUME RequestsAssumption == Requests \subseteq Request /\ MAX_BODY \in Nat

VARIABLES
  ask,       \* the request the peer is sending
  todo,      \* what of it has not been received
  received,  \* history: what came for this exchange, and how much at first
  ex         \* the HttpExchange

vars == <<ask, todo, received, ex>>

Text(g) ==
  (IF g.line = "empty" THEN <<>> ELSE <<"start">>) \o <<"crlf">>
    \o (IF g.fields = "absent" THEN <<>> ELSE <<"fields", "crlf">>) \o <<"crlf">>
    \o g.body

(* 'done' is a history: what was done for this request outside of memory.  *)
New == [inBuf |-> <<>>, outBuf |-> "empty", state |-> "RS_IDLE", errCode |-> 0,
        method |-> "", length |-> None, body |-> <<>>, type |-> "unset", url |-> "unset",
        code |-> 200, done |-> <<>>]

Nothing == [first |-> 0, all |-> <<>>]

(* setErrCode and setState(RS_CLOSE); the slip forgets the code.  Next     *)
(* uses none of the operators named faulty_...                             *)
faulty_Fail(x, code) == [x EXCEPT !.state = "RS_CLOSE"]
Fail(x, code) == [x EXCEPT !.errCode = code, !.state = "RS_CLOSE"]

(* Where 'what' occurs in a text.                                          *)
Found(text, what) ==
  {i \in DOMAIN text : /\ i + Len(what) - 1 <= Len(text)
                       /\ SubSeq(text, i, i + Len(what) - 1) = what}
After(text, i) == SubSeq(text, i, Len(text))

-----------------------------------------------------------------------------
(* Parser.                                                                 *)

(* A header line read as a start line has a word missing too.              *)
parseStartLine(x) ==
  LET pos  == Min(Found(x.inBuf, <<"crlf">>))
      rest == [x EXCEPT !.inBuf = After(@, pos + 1)]
  IN  IF pos = 1 THEN Fail(x, 400)
      ELSE IF ask.line = "short" \/ x.inBuf[1] # "start" THEN Fail(rest, 400)
      ELSE [rest EXCEPT !.state = "RS_START_LINE_READ", !.method = ask.method]

parseHeaders(x) ==
  LET endPos == Min(Found(x.inBuf, <<"crlf", "crlf">>))
      rest   == [x EXCEPT !.inBuf = After(@, endPos + 2)]
  IN  CASE ask.fields = "431" -> Fail(rest, 431)
        [] ask.fields \in {"400", "hostless", "absent"} -> Fail(rest, 400)
        [] OTHER -> [rest EXCEPT !.state = "RS_HEADERS_READ", !.length = ask.length]

(* How many more bytes the body takes; the slip forgets those it has.      *)
faulty_Missing(x) == x.length
Missing(x)        == x.length - Len(x.body)

faulty_Leftover(x) == FALSE
Leftover(x)        == x.inBuf # <<>>

(* Whether the body has the length announced.                              *)
faulty_Complete(x) == Len(x.body) > x.length
Complete(x)        == Len(x.body) = x.length

(* The part of a multipart body.  Positions count from 0, npos is a number *)
(* beyond any of them to which one more is 0.  The boundary is looked for  *)
(* anywhere, the blank line too; without an end mark everything is kept,   *)
(* and the erase, npos + 8 bytes long, removes 7.                          *)
CRLF     == <<"crlf", "crlf">>
Boundary == <<"dash", "B">>
EndMark  == Boundary \o <<"dash">>
find(text, what) == Min(Found(text, what)) - 1

(* The slip keeps the header lines of the part.                            *)
faulty_PartStart(x) == find(x.body, Boundary) + Len(Boundary) + 1
PartStart(x)        == find(x.body, CRLF) + Len(CRLF) + 1

handleBoundary(x) ==
  LET buf    == After(x.body, PartStart(x))
      ended  == Found(buf, EndMark) # {}
      endPos == IF ended THEN find(buf, EndMark) ELSE Len(buf)
      erased == IF ended THEN endPos + Len(Boundary) + Len(CRLF) ELSE 3
  IN  IF \/ ask.form = "unbounded"
         \/ Found(x.body, Boundary) = {} \/ Found(x.body, CRLF) = {}
         \/ After(buf, erased + 1) # <<>>
      THEN Fail(x, 400)
      ELSE [x EXCEPT !.body = SubSeq(buf, 1, endPos)]

TakeBody(x) ==
  LET n == Min({Len(x.inBuf), Missing(x)})
      y == [x EXCEPT !.body = @ \o SubSeq(x.inBuf, 1, n), !.inBuf = After(@, n + 1)]
  IN  CASE ~Complete(y) -> y
        [] Complete(y) /\ Leftover(y) -> Fail(y, 400)
        [] OTHER -> LET done == [y EXCEPT !.state = "RS_BODY_DONE"] IN
                    IF ask.form = "none" THEN done ELSE handleBoundary(done)

parseBody(x) ==
  CASE x.length = None -> Fail(x, 501)
    [] x.length # None /\ (ask.te = "Transfer-Encoding" \/ x.length \in {Junk, 0}) -> Fail(x, 400)
    [] x.length >= MAX_BODY /\ ask.te # "Transfer-Encoding" -> Fail(x, 413)
    [] OTHER -> TakeBody(x)

(* RS_NO_BODY is what any state but RS_HEADERS_READ becomes: that of an    *)
(* unfinished header section, and that of a response that waits to be sent.*)
parse(x) ==
  LET started == IF x.state = "RS_IDLE" /\ Found(x.inBuf, <<"crlf">>) # {}
                   THEN parseStartLine(x) ELSE x
      headed  == IF started.state = "RS_START_LINE_READ"
                      /\ Found(started.inBuf, <<"crlf", "crlf">>) # {}
                   THEN parseHeaders(started) ELSE started
      bodied  == IF headed.state = "RS_HEADERS_READ"
                      /\ (headed.length # None \/ ask.te = "Transfert-Encoding")
                   THEN parseBody(headed) ELSE [headed EXCEPT !.state = "RS_NO_BODY"]
  IN  CASE headed.errCode # 0 -> headed
        [] headed.errCode = 0 /\ bodied.state = "RS_NO_BODY" /\ Leftover(bodied)
             -> Fail(bodied, 400)
        [] OTHER -> bodied

-----------------------------------------------------------------------------
(* Router.                                                                 *)

validateRequest(x) ==
  CASE x.method \in {"OTHER", ""} -> Fail(x, 405)
    [] ask.version = "junk" -> Fail(x, 400)
    [] ask.version = "other" -> Fail(x, 505)
    [] x.method = "POST" /\ x.length = None -> Fail(x, 400)
    [] OTHER -> [x EXCEPT !.state = "RS_HEADERS_DONE"]

defineRequestType(x) ==
  LET As(type, url) == [x EXCEPT !.type = type, !.url = url] IN
  {Fail(x, code) : code \in {403, 404, 500}}
    \cup {As("DIRECTORY", "dir")}
    \cup {As(type, url) : type \in {"REDIRECTION", "REG_FILE", "CGI"}, url \in E!Page}

route(x) ==
  LET valid == validateRequest(x) IN
  IF valid.state = "RS_CLOSE" THEN {valid}
  ELSE {IF y.state = "RS_CLOSE" THEN y ELSE [y EXCEPT !.state = "RS_ROUTING_DONE"]
          : y \in defineRequestType(valid)}

-----------------------------------------------------------------------------
(* Handler.                                                                *)

Ready(x, code) == [x EXCEPT !.code = code, !.state = "RS_READY"]
Did(x, what)   == [x EXCEPT !.done = Append(@, what)]

handleCgi(x) == LET run == Did(x, <<"run">>) IN {Ready(run, x.code), Fail(run, 500)}

handleGet(x) ==
  CASE x.type = "CGI"       -> handleCgi(x)
    [] x.type = "REG_FILE"  -> {Ready(x, x.code), Fail(x, 403)}
    [] x.type = "DIRECTORY" -> {Fail(x, 403), Ready(x, x.code)}
                                 \cup {Ready([x EXCEPT !.url = p], x.code) : p \in E!Page}

faulty_Contents(x) == x.inBuf
Contents(x)        == x.body

handlePost(x) ==
  {Fail(x, code) : code \in {403, 405, 500}}
    \cup {Ready(Did(x, <<"upload">> \o Contents(x)), 201)}

(* A file that is gone, or a tree of which a part may be.                  *)
handleDelete(x) ==
  IF x.type = "CGI" THEN {Fail(x, 405)}
  ELSE LET gone == Did([x EXCEPT !.url = "gone"], <<"delete">>) IN
       {Fail(x, 403), Fail(x, 500), Fail(gone, 500), Ready(gone, 205)}

handle(x) ==
  CASE x.type = "REDIRECTION" -> {Ready(x, 302)}
    [] x.type # "REDIRECTION" /\ x.method = "GET" -> handleGet(x)
    [] x.type # "REDIRECTION" /\ x.method = "POST" -> handlePost(x)
    [] x.type # "REDIRECTION" /\ x.method = "DELETE" -> handleDelete(x)

-----------------------------------------------------------------------------

(* errorToString or toString, for the state process leaves.                *)
faulty_buildAnswer(x) ==
  IF x.state = "RS_READY" THEN [x EXCEPT !.outBuf = "page"] ELSE x
buildAnswer(x) ==
  CASE x.state = "RS_CLOSE" -> [x EXCEPT !.outBuf = "error", !.code = x.errCode]
    [] x.state = "RS_READY" -> [x EXCEPT !.outBuf = "page"]
    [] OTHER -> x

process(x, data) ==
  LET parsed  == parse([x EXCEPT !.inBuf = @ \o data])
      routed  == IF parsed.state \in {"RS_BODY_DONE", "RS_NO_BODY"}
                   THEN route(parsed) ELSE {parsed}
      handled == UNION {IF r.state = "RS_ROUTING_DONE" THEN handle(r) ELSE {r} : r \in routed}
  IN  {buildAnswer(h) : h \in handled}

(* read_client_request passes the bytes of a recv as a C string, which     *)
(* ends at the first NUL.                                                  *)
c_str(data) ==
  LET nuls == Found(data, <<"nul">>) IN
  IF nuls = {} THEN data ELSE SubSeq(data, 1, Min(nuls) - 1)

Receive ==
  /\ ex.state \in {"RS_IDLE", "RS_HEADERS_READ", "RS_READY"}
  /\ \E n \in DOMAIN todo :
       /\ received' = [first |-> IF received.all = <<>> THEN n ELSE received.first,
                        all |-> received.all \o SubSeq(todo, 1, n)]
       /\ todo' = After(todo, n + 1)
       /\ ex' \in process(ex, c_str(SubSeq(todo, 1, n)))
  /\ UNCHANGED ask

(* The answer was sent; what the peer has still to send meets a new one.   *)
Clear_exchange ==
  /\ ex.state = "RS_READY"
  /\ ex' = New /\ received' = Nothing
  /\ UNCHANGED <<ask, todo>>

(* The connection is closed, and another made; or all of it was answered.  *)
NextRequest ==
  /\ ex.state # "RS_IDLE" \/ todo = <<>>
  /\ ask' \in Requests /\ todo' = Text(ask')
  /\ ex' = New /\ received' = Nothing

Init ==
  /\ ask \in Requests /\ todo = Text(ask)
  /\ received = Nothing /\ ex = New

Next == Receive \/ Clear_exchange \/ NextRequest

Spec == Init /\ [][Next]_vars
=============================================================================
