----------------------- MODULE HttpExchangeProperties -----------------------
(***************************************************************************)
(* What HttpExchange::process guarantees of the requests it serves, and    *)
(* (at the end) what the repository says of it that it does not.           *)
(***************************************************************************)
EXTENDS HttpExchange, SequencesExt

CONSTANTS Contained   \* bound: the files that multipart bodies hold

ASSUME ContainedAssumption == Contained \subseteq Seq(Piece)

Received == received.all
HeadOf(g) == Text([g EXCEPT !.body = <<>>])
BodyOf(g) == IF g.length = None THEN 0 ELSE g.length

States == {"RS_IDLE", "RS_START_LINE_READ", "RS_HEADERS_READ", "RS_NO_BODY", "RS_BODY_DONE",
           "RS_HEADERS_DONE", "RS_ROUTING_DONE", "RS_READY", "RS_CLOSE"}
Errors == {400, 403, 404, 405, 413, 431, 500, 501, 505}

OutBufs == {"empty", "page", "error"}
Methods == {"", "GET", "POST", "DELETE", "OTHER"}
Lengths == {None, Junk} \cup Nat
Types   == {"unset", "REDIRECTION", "DIRECTORY", "REG_FILE", "CGI"}
Urls    == E!Page \cup {"unset"}
Codes   == {200, 201, 205, 302} \cup Errors
ErrCodes == {0} \cup Errors
Word    == {"run", "upload", "delete"} \cup Piece
Dones   == Seq(Seq(Word))

(* The exchanges process works on.                                         *)
Typed ==
  [inBuf : Seq(Token), outBuf : OutBufs, state : States, errCode : ErrCodes, method : Methods,
   length : Lengths, body : Seq(Piece), type : Types, url : Urls, code : Codes, done : Dones]

(* Every variable has values of its kind.                                  *)
TypeOK ==
  /\ ask \in Requests
  /\ todo \in Seq(Token) /\ received \in [first : Nat, all : Seq(Token)]
  /\ ex \in Typed

(* What the event loop looks at: the url, once the request is ready.       *)
Seen == [state |-> ex.state, outBuf |-> ex.outBuf,
         url |-> IF ex.state = "RS_READY" THEN ex.url ELSE "unset"]

(* What process leaves is one of the few exchanges the event loop knows:   *)
(* in no state between those, with nothing in _outBuf while a body is      *)
(* read, a page when the response is ready and an error when it refuses,   *)
(* and the status that goes with it (HttpExchange.cpp 33-62).              *)
SeenByLoop ==
  /\ Seen \in E!Outcomes \cup {E!NewExchange}
  /\ (ex.state = "RS_CLOSE") <=> (ex.errCode # 0)
  /\ ex.state = "RS_CLOSE" => ex.code = ex.errCode
  /\ ex.state = "RS_READY" => ex.code < 400

Nuls(text) == {i \in DOMAIN text : text[i] = "nul"}

(* A request in which recv and c_str lose nothing: the pieces it comes in  *)
(* are passed on as C strings, which end at a NUL (Server.cpp 177).        *)
Textual == Nuls(ask.body) = {}

(* HttpExchange implements Exchange: what the loop sees after any recv of  *)
(* a request without NUL is what Exchange's process makes of some piece of *)
(* input and of what it saw before, so that bytes after a ready response   *)
(* only close the connection; when nothing has been received it sees a new *)
(* exchange (HttpExchange.cpp 33-62, Client.cpp 45-48).                    *)
ImplementsExchange ==
  [][IF received' = Nothing THEN Seen' = E!NewExchange
     ELSE Textual => \E piece \in E!Chunk : Seen' = E!process(Seen, <<piece>>)]_ex

(* A request without NUL is served when exactly it has been received, its  *)
(* body as long as Content-Length says and no longer; or, when a recv      *)
(* ended there, on its start line alone (Parser.cpp 17-50, 191-205).       *)
ServedWhole ==
  Textual /\ ex.state = "RS_READY" =>
    \/ Received = <<"start", "crlf">>
    \/ /\ IsPrefix(HeadOf(ask), Received) /\ IsPrefix(Received, Text(ask))
       /\ Len(Received) = Len(HeadOf(ask)) + BodyOf(ask)

(* A request without NUL that has been received whole is answered: process *)
(* does not wait for more (Parser.cpp 34-43, 196-205).                     *)
AnsweredWhole ==
  Textual /\ Received = Text(ask) /\ Len(ask.body) = BodyOf(ask) =>
    ex.state \in {"RS_READY", "RS_CLOSE"}

(* Once the header section has come in one recv, the cuts of a body        *)
(* without NUL do not matter: the state and the error are those the same   *)
(* bytes have when they come at once (Parser.cpp 146-220).                 *)
CutsDontMatter ==
  Textual /\ received.first >= Len(HeadOf(ask)) =>
    \E y \in process(New, c_str(Received)) : y.state = ex.state /\ y.errCode = ex.errCode

(* A file in a multipart body, as browsers send it.                        *)
Envelope(content) ==
  Boundary \o <<"crlf", "disp">> \o CRLF \o content \o <<"crlf">> \o EndMark

(* What of a multipart body is stored: what stands between the first blank *)
(* line and the next end mark, behind which there is no more than one      *)
(* piece; or, if there is no end mark, all that follows, up to three.      *)
Between(body, stored) ==
  \E i \in 3..(Len(body) + 1) :
    /\ find(body, CRLF) = i - 3 /\ SubSeq(body, i - 2, i - 1) = CRLF
    /\ LET rest == After(body, i) IN
         \/ /\ IsPrefix(stored \o EndMark, rest) /\ Found(stored, EndMark) = {}
            /\ Len(rest) <= Len(stored) + Len(EndMark) + 1
         \/ stored = rest /\ Len(rest) <= 3 /\ Found(rest, EndMark) = {}

(* What is uploaded of a body without NUL is as much of it as              *)
(* Content-Length announces, within Max_client_body_size (Parser.cpp       *)
(* 184-205, Handler.cpp 263-264); of a multipart body what is Between, so  *)
(* that a file comes with the CRLF that precedes the end mark (Parser.cpp  *)
(* 233-255).                                                               *)
StoredAsSent ==
  Textual => \A i \in DOMAIN ex.done : ex.done[i][1] = "upload" =>
    LET stored == Tail(ex.done[i])
        sent   == SubSeq(ask.body, 1, ask.length)
    IN  /\ Len(sent) = ask.length /\ ask.length < MAX_BODY
        /\ ask.form = "none" => stored = sent
        /\ ask.form # "none" => Between(sent, stored)
        /\ \A content \in Contained :
             ask.form # "none" /\ sent = Envelope(content) => stored = content \o <<"crlf">>

(* A request is handled once, and no more than once again for every NUL    *)
(* that came: of what may follow it before its answer is sent, only a recv *)
(* that starts with a NUL, which process takes for no bytes at all, has it *)
(* uploaded, deleted or run again (Server.cpp 177, HttpExchange.cpp 38,    *)
(* where every process call parses, and Parser.cpp 41-49).                 *)
HandledOnce == Len(ex.done) <= 1 + Cardinality(Nuls(Received))

-----------------------------------------------------------------------------
(* Said by the repository, and refuted by what the code does.              *)

WellFormed(g) ==
  /\ g.line = "ok" /\ g.version = "1.1" /\ g.fields = "ok" /\ g.te = "none"
  /\ g.method # "OTHER" /\ g.form = "none"
  /\ g.length = Len(g.body) \/ (g.length = None /\ g.body = <<>> /\ g.method = "GET")

(* README.md 16, "accurate status code like defined in RFC 9112": a        *)
(* request that is well formed so far is not answered 400.                 *)
NotABadRequest == WellFormed(ask) /\ IsPrefix(Received, Text(ask)) => ex.errCode # 400

(* README.md 15, "clients can upload [...] files": an upload that has been *)
(* received whole is answered, whatever bytes the file has.                *)
UploadAnswered ==
  Received = Text(ask) /\ WellFormed(ask) => ex.state \in {"RS_READY", "RS_CLOSE"}
=============================================================================
