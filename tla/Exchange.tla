------------------------------ MODULE Exchange ------------------------------
(***************************************************************************)
(* What the event loop sees of an HttpExchange (src/http/HttpExchange.cpp):*)
(* the state of its request, what _outBuf holds, and what becomes of the   *)
(* request's url when send_page_to_client opens it.  The parser, router    *)
(* and handler behind HttpExchange::process are abstracted to the kind of  *)
(* each piece of input.                                                    *)
(***************************************************************************)
EXTENDS Integers, Sequences

(* How the url of a served request looks to the ifstream that              *)
(* send_page_to_client opens on it: a file with bytes in it, something     *)
(* that opens and has no byte to read (the directory an upload or an index *)
(* was asked of), or nothing at all (a redirection, a deleted file).       *)
Page == {"file", "dir", "gone"}

(* A piece of a client's byte stream, by what process makes of it: with    *)
(* "part" a request begins or goes on, and its body has still to end; a    *)
(* Page is the rest of a request that is served (all of it, if no part     *)
(* came before); for a "bad" piece it is refused.                          *)
Chunk == Page \cup {"part", "bad"}

(* The request states process can return in.                               *)
ReqState == {"RS_IDLE", "RS_HEADERS_READ", "RS_READY", "RS_CLOSE"}

Exchanges == [state : ReqState, url : Page \cup {"unset"},
              outBuf : {"empty", "page", "error"}]

(* HttpExchange(sc), as Client::Clear_exchange assigns it.                 *)
NewExchange == [state |-> "RS_IDLE", url |-> "unset", outBuf |-> "empty"]

Reading   == [state |-> "RS_HEADERS_READ", url |-> "unset", outBuf |-> "empty"]
Served(p) == [state |-> "RS_READY", url |-> p, outBuf |-> "page"]
Refused   == [state |-> "RS_CLOSE", url |-> "unset", outBuf |-> "error"]

(* What process may leave.                                                 *)
Outcomes == {Served(p) : p \in Page} \cup {Reading, Refused}

(* HttpExchange::process on the bytes of one recv, which may be several    *)
(* pieces.  A request is served when its last byte is the last byte        *)
(* received; bytes after it, and any byte that reaches an exchange whose   *)
(* response is ready, make it a 400.                                       *)
process(ex, data) ==
  LET last  == data[Len(data)]
      whole == /\ ex.state \in {"RS_IDLE", "RS_HEADERS_READ"}
               /\ \A i \in 1..(Len(data) - 1) : data[i] = "part"
  IN  CASE whole /\ last \in Page -> Served(last)
        [] whole /\ last = "part" -> Reading
        [] OTHER -> Refused
=============================================================================
