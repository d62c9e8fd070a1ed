--------------------------- MODULE MCHttpExchange ---------------------------
(* HttpExchange on the requests that differ from a plain one in one or two  *)
(* respects: each check of the Parser and of the Router is met.             *)
EXTENDS HttpExchangeProperties, TLC

CONSTANTS LONGEST

Pieces(n) == SubSeq(<<"b1", "b2", "b3">>, 1, n)

Plain == [line |-> "ok", method |-> "GET", version |-> "1.1", fields |-> "ok",
          length |-> None, te |-> "none", form |-> "none", body |-> <<>>]

Lines   == {[Plain EXCEPT !.line = l, !.fields = f] : l \in {"ok", "short", "empty"},
              f \in {"ok", "hostless", "400", "431", "absent"}}
Verbs   == {[Plain EXCEPT !.method = m, !.version = v] : m \in {"GET", "POST", "DELETE", "OTHER"},
              v \in {"1.1", "other", "junk"}}
Bodies  == {[Plain EXCEPT !.method = m, !.length = l, !.body = Pieces(n), !.te = te] :
              m \in {"GET", "POST", "DELETE"}, l \in {None, Junk, MAX_BODY} \cup 0..(LONGEST + 1),
              n \in 0..LONGEST, te \in {"none", "Transfer-Encoding", "Transfert-Encoding"}}

(* Files with and without blank lines, and with an end mark; bodies that   *)
(* are whole, go on behind the end mark, start before the boundary, have   *)
(* two parts, or lack the end mark, the blank line or the boundary.        *)
MCContained == {<<>>, <<"b1">>, <<"b1", "crlf", "crlf", "b2">>, <<"dash", "B", "dash", "b1">>}
Part    == <<"dash", "B", "crlf", "disp", "crlf", "crlf">>
Lacking == {Part \o Pieces(n) : n \in 0..LONGEST} \cup {Part \o <<"b1", "crlf", "b2", "b3">>}
            \cup {<<"dash", "B", "b1">>, <<"b1", "crlf", "crlf">>, <<"crlf", "crlf", "dash", "B">>}
Parts   == {Envelope(c) : c \in MCContained}
            \cup {Envelope(<<"b1">>) \o more : more \in {<<"crlf">>, <<"crlf", "b2">>}}
            \cup {<<"crlf">> \o Envelope(<<"b1">>), Part \o <<"b1", "crlf">> \o Envelope(<<"b2">>)}
Forms   == {[Plain EXCEPT !.method = "POST", !.length = Len(b), !.body = b, !.form = f] :
              b \in Lacking \cup Parts, f \in {"multipart", "unbounded"}}

(* Bodies longer than Content-Length, which may end before the end mark.   *)
Longer  == {[Plain EXCEPT !.method = "POST", !.length = Len(Envelope(<<"b1">>)) - n,
                          !.body = Envelope(<<"b1">>), !.form = "multipart"] : n \in {1, 4}}

(* Bodies with a NUL in them, which the requests above do not have: within  *)
(* what Content-Length announces, or behind a request that is whole.        *)
Torn    == {<<"nul">>, <<"nul", "b1">>, <<"b1", "nul">>, <<"b1", "nul", "nul">>,
            <<"b1", "b2", "nul">>, Envelope(<<"nul">>) \o <<"nul">>}
Binary  == {[Plain EXCEPT !.method = "POST", !.length = n, !.body = b, !.form = f] :
              n \in {1, 2, 3, Len(Envelope(<<"nul">>))}, b \in Torn, f \in {"none", "multipart"}}
            \cup {[Plain EXCEPT !.method = m, !.body = b] : m \in {"GET", "DELETE"}, b \in Torn}

MCRequests == Lines \cup Verbs \cup Bodies \cup Forms \cup Longer \cup Binary
=============================================================================
