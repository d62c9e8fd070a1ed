--------------------------- MODULE ServingProofs ---------------------------
(***************************************************************************)
(* Requests without a NUL are served when exactly they have come, however  *)
(* they are cut: for any requests and any body limit.                      *)
(***************************************************************************)
EXTENDS HttpExchangeProofs

(* Which requests are served: past the header section, those whose body    *)
(* has a length that is accepted, or none.                                 *)

BodyOk(g) == g.length \in Nat /\ g.length # 0 /\ g.length < MAX_BODY /\ g.te # "Transfer-Encoding"
NoBodyOk(g) == g.length = None /\ g.te # "Transfert-Encoding"

LEMMA Accepts ==
  ASSUME ask \in Request, NEW x \in Typed, AtBody(x)
  PROVE  /\ BodyOk(ask) => parseBody(x) = TakeBody(x)
         /\ ~BodyOk(ask) => \E code \in {400, 413, 501} : parseBody(x) = Fail(x, code)
<1> DEFINE none == x.length = None
           bad  == ask.te = "Transfer-Encoding" \/ x.length \in {Junk, 0}
           long == x.length >= MAX_BODY /\ ask.te # "Transfer-Encoding"
<1>1. parseBody(x) = CASE none -> Fail(x, 501) [] ~none /\ bad -> Fail(x, 400)
                       [] long -> Fail(x, 413) [] OTHER -> TakeBody(x)
  BY DEF parseBody
<1>2. PICK l : l = x.length /\ l = ask.length
  BY DEF AtBody
<1>3. l \in Nat \/ l = None \/ l = Junk
  BY <1>2 DEF Typed, Lengths
<1>4. MAX_BODY \in Nat
  BY RequestsAssumption
<1>5. BodyOk(ask) => ~none /\ ~bad /\ ~long
  BY <1>2, <1>4 DEF BodyOk, None, Junk
<1>6. ~BodyOk(ask) => none \/ (~none /\ bad) \/ long
  BY <1>2, <1>3, <1>4 DEF BodyOk
<1> HIDE DEF none, bad, long
<1>7. BodyOk(ask) => parseBody(x) = TakeBody(x)
  BY <1>1, <1>5
<1>8. ~BodyOk(ask) =>
        parseBody(x) = Fail(x, 501) \/ parseBody(x) = Fail(x, 400) \/ parseBody(x) = Fail(x, 413)
  BY <1>1, <1>6, Zenon
<1> QED BY <1>7, <1>8

(* What becomes of the bytes behind the header section: the state is that  *)
(* of the whole of them.                                                   *)
LEMMA BodyStep ==
  ASSUME ask \in Request, NEW x \in Typed, AtBody(x), x.inBuf \in Seq(Piece),
         x.length \in Nat => Len(x.body) <= x.length
  PROVE  LET p   == Rest(x)
             got == Len(x.body) + Len(x.inBuf)
         IN  /\ p \in Typed
             /\ ~BodyOk(ask) /\ ~NoBodyOk(ask) => Refused(p)
             /\ BodyOk(ask) =>
                  /\ got < ask.length => p = Filled(x) /\ Midway(p)
                  /\ got > ask.length => Refused(p) /\ p.errCode = 400
                  /\ got = ask.length =>
                       /\ p = IF ask.form = "none" THEN Done(x) ELSE handleBoundary(Done(x))
                       /\ Refused(p) \/ Whole(p)
             /\ NoBodyOk(ask) =>
                  /\ x.inBuf = <<>> => p = NoBody(x) /\ Whole(p)
                  /\ x.inBuf # <<>> => Refused(p) /\ p.errCode = 400
<1>1. x.state = "RS_HEADERS_READ" /\ x.errCode = 0 /\ Unrouted(x) /\ x.length = ask.length
  BY DEF AtBody
<1>2. PICK p, got : p = Rest(x) /\ got = Len(x.body) + Len(x.inBuf)
  OBVIOUS
<1>3. 400 \in Errors /\ 413 \in Errors /\ 501 \in Errors
  BY DEF Errors
<1>4. CASE NoBodyOk(ask)
  <2>1. ~BodyOk(ask)
    BY <1>4 DEF NoBodyOk, BodyOk, None
  <2>2. ~(x.state = "RS_HEADERS_READ" /\ (x.length # None \/ ask.te = "Transfert-Encoding"))
    BY <1>1, <1>4 DEF NoBodyOk
  <2>3. CASE x.inBuf = <<>>
    <3>1. p = NoBody(x)
      BY <1>1, <1>2, <2>2, <2>3, RestNoBody
    <3>2. p \in Typed /\ Whole(p)
      BY <1>1, <2>3, <3>1, NoBodyIs DEF Whole, Unrouted, Served
    <3> QED BY <1>2, <1>4, <2>1, <2>3, <3>1, <3>2
  <2>4. CASE x.inBuf # <<>>
    <3>1. p = Fail(NoBody(x), 400)
      BY <1>1, <1>2, <2>2, <2>4, RestNoBody
    <3>2. NoBody(x) \in Typed
      BY NoBodyIs
    <3>3. p \in Typed /\ Refused(p) /\ p.errCode = 400
      BY <1>3, <3>1, <3>2, FailKeeps, SMTT(30)
    <3> QED BY <1>2, <1>4, <2>1, <2>4, <3>3
  <2> QED BY <2>3, <2>4
<1>5. CASE ~NoBodyOk(ask)
  <2>1. p = parseBody(x)
    <3>1. x.length # None \/ ask.te = "Transfert-Encoding"
      BY <1>1, <1>5 DEF NoBodyOk
    <3> QED BY <1>1, <1>2, <3>1, RestBody
  <2>2. CASE ~BodyOk(ask)
    <3>1. PICK code \in {400, 413, 501} : p = Fail(x, code)
      BY <2>1, <2>2, Accepts
    <3>2. p \in Typed /\ Refused(p)
      BY <1>3, <3>1, FailKeeps
    <3> QED BY <1>2, <1>5, <2>2, <3>2
  <2>3. CASE BodyOk(ask)
    <3>1. p = TakeBody(x)
      BY <2>1, <2>3, Accepts
    <3>2. x.length \in Nat /\ Len(x.body) <= x.length
      BY <1>1, <2>3 DEF BodyOk
    <3>3. p \in Typed /\ Parsed(p)
      BY <1>1, <2>1, ParseBodyIs
    <3>4. got < ask.length => p = Filled(x)
      BY <1>1, <1>2, <3>1, <3>2, TakeBodyIs
    <3>5. got > ask.length => \E y \in Typed : p = Fail(y, 400)
      <4> SUFFICES ASSUME got > ask.length PROVE \E y \in Typed : p = Fail(y, 400)
        OBVIOUS
      <4>1. PICK y \in Typed : TakeBody(x) = Fail(y, 400) /\ (Unrouted(x) => Unrouted(y))
        BY <1>1, <1>2, <3>2, TakeBodyIs, ZenonT(40)
      <4> QED BY <3>1, <4>1
    <3>6. got = ask.length => p = IF ask.form = "none" THEN Done(x) ELSE handleBoundary(Done(x))
      BY <1>1, <1>2, <3>1, <3>2, TakeBodyIs, ZenonT(40)
    <3>7. got > ask.length => Refused(p) /\ p.errCode = 400
      <4>1. \A y \in Typed : Refused(Fail(y, 400)) /\ Fail(y, 400).errCode = 400
        BY <1>3, FailKeeps
      <4> QED BY <3>5, <4>1
    <3>8. got < ask.length => Midway(p)
      <4>1. ASSUME got < ask.length PROVE p.state = "RS_HEADERS_READ"
        BY <1>1, <3>4, <4>1, FilledIs
      <4> QED BY <3>3, <4>1 DEF Parsed, Refused, Whole
    <3>9. got = ask.length => Refused(p) \/ Whole(p)
      <4>1. ASSUME got = ask.length PROVE p.state # "RS_HEADERS_READ"
        <5>1. Done(x).state = "RS_BODY_DONE"
          BY DoneIs
        <5>2. Done(x) \in Typed /\ Done(x).errCode = 0 /\ Done(x).inBuf = <<>> /\ Unrouted(Done(x))
          BY <1>1, DoneIs
        <5>3. handleBoundary(Done(x)).state # "RS_HEADERS_READ"
          BY <5>1, <5>2, BoundaryState
        <5> QED BY <3>6, <4>1, <5>1, <5>3
      <4> QED BY <3>3, <4>1 DEF Parsed, Midway
    <3> QED BY <1>2, <1>5, <2>3, <3>3, <3>4, <3>6, <3>7, <3>8, <3>9
  <2> QED BY <2>2, <2>3
<1> QED BY <1>4, <1>5

-----------------------------------------------------------------------------
(* The head of a request: a start line of two tokens, header lines of two, *)
(* and the CRLF that ends them.                                            *)

Lined(g) == g.line # "empty"
Headlined(g) == Lined(g) /\ g.fields # "absent"

LEMMA TextShape ==
  ASSUME NEW g \in Request
  PROVE  LET s == Text(g) IN
         /\ \A j \in 2..Len(s) : s[j] # "start"
         /\ Len(s) >= 2
         /\ ~Lined(g) => s[1] # "start"
         /\ Lined(g) => s[1] = "start" /\ s[2] = "crlf" /\ Len(s) >= 3
         /\ Headlined(g) =>
              /\ s[3] = "fields" /\ s[4] = "crlf" /\ s[5] = "crlf"
              /\ Len(s) = 5 + Len(g.body) /\ \A j \in 1..Len(g.body) : s[5 + j] = g.body[j]
<1> PICK b \in Seq(Piece) : b = g.body
  BY DEF Request
<1>1. \A j \in 1..Len(b) : b[j] # "start"
  <2>1. \A j \in 1..Len(b) : b[j] \in Piece
    OBVIOUS
  <2> QED BY <2>1 DEF Piece
<1>2. CASE g.line = "empty" /\ g.fields = "absent"
  <2>1. Text(g) = <<>> \o <<"crlf">> \o <<>> \o <<"crlf">> \o b
    BY <1>2 DEF Text
  <2>2. PICK s : s = <<>> \o <<"crlf">> \o <<>> \o <<"crlf">> \o b
    OBVIOUS
  <2>3. \A j \in 2..Len(s) : s[j] # "start"
    BY <1>1, <2>2
  <2>4. Len(s) >= 2 /\ s[1] = "crlf"
    BY <2>2
  <2> QED BY <1>2, <2>1, <2>2, <2>3, <2>4 DEF Lined, Headlined
<1>3. CASE g.line # "empty" /\ g.fields = "absent"
  <2>1. Text(g) = <<"start">> \o <<"crlf">> \o <<>> \o <<"crlf">> \o b
    BY <1>3 DEF Text
  <2>2. PICK s : s = <<"start">> \o <<"crlf">> \o <<>> \o <<"crlf">> \o b
    OBVIOUS
  <2>3. \A j \in 2..Len(s) : s[j] # "start"
    BY <1>1, <2>2
  <2>4. Len(s) >= 3 /\ s[1] = "start" /\ s[2] = "crlf"
    BY <2>2
  <2> QED BY <1>3, <2>1, <2>2, <2>3, <2>4 DEF Lined, Headlined
<1>4. CASE g.line = "empty" /\ g.fields # "absent"
  <2>1. Text(g) = <<>> \o <<"crlf">> \o <<"fields", "crlf">> \o <<"crlf">> \o b
    BY <1>4 DEF Text
  <2>2. PICK s : s = <<>> \o <<"crlf">> \o <<"fields", "crlf">> \o <<"crlf">> \o b
    OBVIOUS
  <2>3. \A j \in 2..Len(s) : s[j] # "start"
    BY <1>1, <2>2
  <2>4. Len(s) >= 2 /\ s[1] = "crlf"
    BY <2>2
  <2> QED BY <1>4, <2>1, <2>2, <2>3, <2>4 DEF Lined, Headlined
<1>5. CASE g.line # "empty" /\ g.fields # "absent"
  <2>1. Text(g) = <<"start">> \o <<"crlf">> \o <<"fields", "crlf">> \o <<"crlf">> \o b
    BY <1>5 DEF Text
  <2>2. PICK s : s = <<"start">> \o <<"crlf">> \o <<"fields", "crlf">> \o <<"crlf">> \o b
    OBVIOUS
  <2>3. \A j \in 2..Len(s) : s[j] # "start"
    BY <1>1, <2>2
  <2>4. /\ Len(s) = 5 + Len(b) /\ s[1] = "start" /\ s[2] = "crlf"
        /\ s[3] = "fields" /\ s[4] = "crlf" /\ s[5] = "crlf"
    BY <2>2
  <2>5. \A j \in 1..Len(b) : s[5 + j] = b[j]
    BY <2>2
  <2>6. Len(s) >= 3
    BY <2>4
  <2> QED BY <1>5, <2>1, <2>2, <2>3, <2>4, <2>5, <2>6 DEF Lined, Headlined
<1> QED BY <1>2, <1>3, <1>4, <1>5

LEMMA HeadIs ==
  ASSUME NEW g \in Request
  PROVE  /\ Lined(g) => Len(HeadOf(g)) >= 3
         /\ Len(HeadOf(g)) >= 2
         /\ Headlined(g) => /\ HeadOf(g) = SubSeq(Text(g), 1, 5) /\ Len(HeadOf(g)) = 5
<1>1. PICK h : h = [g EXCEPT !.body = <<>>]
  OBVIOUS
<1>2. h \in Request
  <2>1. <<>> \in Seq(Piece)
    OBVIOUS
  <2> QED BY <1>1, <2>1, Zenon DEF Request
<1>3. h.line = g.line /\ h.fields = g.fields /\ h.body = <<>>
  BY <1>1 DEF Request
<1>4. HeadOf(g) = Text(h)
  BY <1>1 DEF HeadOf
<1>5. PICK s, t : s = Text(g) /\ t = Text(h)
  OBVIOUS
<1>6. s \in Seq(Token) /\ t \in Seq(Token)
  BY <1>2, <1>5, TextIs
<1>7. /\ Len(t) >= 2
      /\ Lined(h) => Len(t) >= 3
      /\ Headlined(h) => /\ t[1] = "start" /\ t[2] = "crlf"
                         /\ t[3] = "fields" /\ t[4] = "crlf" /\ t[5] = "crlf" /\ Len(t) = 5
  <2>1. /\ Len(t) >= 2 /\ (Lined(h) => t[1] = "start" /\ t[2] = "crlf" /\ Len(t) >= 3)
        /\ Headlined(h) =>
             /\ t[3] = "fields" /\ t[4] = "crlf" /\ t[5] = "crlf" /\ Len(t) = 5 + Len(h.body)
    BY <1>2, <1>5, TextShape
  <2>2. Len(h.body) = 0
    BY <1>3
  <2>3. Headlined(h) => Lined(h)
    BY DEF Headlined
  <2> QED BY <2>1, <2>2, <2>3
<1>8. (Lined(h) <=> Lined(g)) /\ (Headlined(h) <=> Headlined(g))
  BY <1>3 DEF Lined, Headlined
<1>9. ASSUME Headlined(g) PROVE t = SubSeq(s, 1, 5)
  <2>1. /\ s[1] = "start" /\ s[2] = "crlf" /\ s[3] = "fields" /\ s[4] = "crlf" /\ s[5] = "crlf"
        /\ Len(s) = 5 + Len(g.body)
    BY <1>5, <1>9, TextShape DEF Headlined
  <2>2. Len(s) >= 5
    <3>1. Len(g.body) \in Nat
      BY DEF Request
    <3> QED BY <2>1, <3>1
  <2>3. PICK u : u = SubSeq(s, 1, 5)
    OBVIOUS
  <2>4. u \in Seq(Token) /\ Len(u) = 5 /\ \A j \in 1..5 : u[j] = s[0 + j]
    BY <1>6, <2>2, <2>3, SliceIs
  <2>5. \A j \in 1..5 : u[j] = t[j]
    BY <1>7, <1>8, <1>9, <2>1, <2>4
  <2> QED BY <1>6, <1>7, <1>8, <1>9, <2>3, <2>4, <2>5, SeqEqual
<1> QED BY <1>4, <1>5, <1>7, <1>8, <1>9

(* Where the start line and the header section end in such a request.      *)
LEMMA FirstFound ==
  ASSUME NEW d \in Seq(Token), NEW what \in Seq(Piece), Len(what) > 0,
         NEW i \in Nat \ {0}, i + Len(what) - 1 <= Len(d),
         \A j \in 1..Len(what) : d[i + j - 1] = what[j],
         \A k \in 1..(i - 1) : d[k] # what[1]
  PROVE  Found(d, what) # {} /\ Min(Found(d, what)) = i
<1>1. i \in Found(d, what)
  <2>1. i \in 1..Len(d)
    OBVIOUS
  <2> QED BY <2>1, Where
<1>2. PICK m : /\ m = Min(Found(d, what)) /\ m \in Nat \ {0} /\ m + Len(what) - 1 <= Len(d)
               /\ \A j \in 1..Len(what) : d[m + j - 1] = what[j]
  BY <1>1, FirstOf, Zenon
<1>3. Found(d, what) \subseteq Nat
  BY Where
<1>4. m <= i
  BY <1>1, <1>2, <1>3, Least
<1>5. d[m] = what[1]
  <2>1. 1 \in 1..Len(what) /\ m + 1 - 1 = m
    BY <1>2
  <2> QED BY <1>2, <2>1
<1>6. ~(m < i)
  BY <1>2, <1>5
<1> QED BY <1>1, <1>2, <1>4, <1>6

LEMMA AfterLine ==
  ASSUME NEW d \in Seq(Token), Len(d) >= 2
  PROVE  /\ After(d, 3) \in Seq(Token) /\ Len(After(d, 3)) = Len(d) - 2
         /\ \A j \in 1..(Len(d) - 2) : After(d, 3)[j] = d[j + 2]
<1>a. PICK n \in Nat \ {0} : n = 3
  OBVIOUS
<1>1. n <= Len(d) + 1
  BY <1>a
<1>2. /\ After(d, n) \in Seq(Token) /\ Len(After(d, n)) = Len(d) - n + 1
      /\ \A j \in 1..(Len(d) - n + 1) : After(d, n)[j] = d[j + n - 1]
  BY <1>1, AfterIs
<1> QED BY <1>a, <1>2

LEMMA AfterAgain ==
  ASSUME NEW d \in Seq(Token), NEW rest \in Seq(Token), NEW k \in Nat, Len(rest) = Len(d) - k,
         \A j \in 1..(Len(d) - k) : rest[j] = d[j + k],
         NEW a \in Nat \ {0}, a <= Len(rest) + 1
  PROVE  After(rest, a) = After(d, a + k)
<1> DEFINE b == a + k
<1>1. b \in Nat \ {0} /\ b <= Len(d) + 1
  OBVIOUS
<1>2. PICK t, u : t = After(rest, a) /\ u = After(d, b)
  OBVIOUS
<1> HIDE DEF b
<1>3. /\ t \in Seq(Token) /\ Len(t) = Len(rest) - a + 1
      /\ \A j \in 1..(Len(rest) - a + 1) : t[j] = rest[j + a - 1]
  BY <1>2, AfterIs
<1>4. /\ u \in Seq(Token) /\ Len(u) = Len(d) - b + 1
      /\ \A j \in 1..(Len(d) - b + 1) : u[j] = d[j + b - 1]
  BY <1>1, <1>2, AfterIs
<1>5. Len(t) = Len(u)
  BY <1>3, <1>4 DEF b
<1>6. \A j \in 1..Len(u) : t[j] = u[j]
  <2> TAKE j \in 1..Len(u)
  <2>1. /\ t[j] = rest[j + a - 1] /\ j + a - 1 \in 1..(Len(d) - k)
        /\ u[j] = d[j + b - 1] /\ (j + a - 1) + k = j + b - 1
    BY <1>3, <1>4, <1>5 DEF b
  <2> QED BY <2>1
<1> QED BY <1>2, <1>3, <1>4, <1>5, <1>6, SeqEqual DEF b

LEMMA AfterFields ==
  ASSUME NEW d \in Seq(Token), Len(d) >= 5
  PROVE  After(After(d, 3), 4) = After(d, 6)
<1>1. PICK a \in Nat \ {0}, k \in Nat, b \in Nat : a = 4 /\ k = 2 /\ b = 6
  OBVIOUS
<1>2. PICK rest \in Seq(Token) : /\ rest = After(d, 3) /\ Len(rest) = Len(d) - 2
                                 /\ \A j \in 1..(Len(d) - 2) : rest[j] = d[j + 2]
  BY AfterLine
<1>3. Len(rest) = Len(d) - k /\ \A j \in 1..(Len(d) - k) : rest[j] = d[j + k]
  BY <1>1, <1>2
<1>4. a <= Len(rest) + 1 /\ a + k = b
  BY <1>1, <1>2
<1>5. After(rest, a) = After(d, a + k)
  BY <1>3, <1>4, AfterAgain
<1> QED BY <1>1, <1>2, <1>4, <1>5

LEMMA HeadParse ==
  ASSUME ask \in Request, NEW x \in Typed, x.state = "RS_IDLE", x.errCode = 0, Unrouted(x),
         x.body = <<>>, ask.line # "short", ask.fields = "ok",
         NEW d \in Seq(Token), x.inBuf = d, Len(d) >= 5, d[1] = "start", d[2] = "crlf",
         d[3] = "fields", d[4] = "crlf", d[5] = "crlf"
  PROVE  \E y \in Typed : /\ parse(x) = Rest(y) /\ AtBody(y)
                          /\ y.body = <<>> /\ y.inBuf = After(d, 6)
<1>a. PICK crlf : crlf = <<"crlf">>
  OBVIOUS
<1>1. crlf \in Seq(Piece) /\ Len(crlf) = 1 /\ crlf[1] = "crlf"
  BY <1>a DEF Piece
<1>2. Found(d, crlf) # {} /\ Min(Found(d, crlf)) = 2
  <2>1. 2 + Len(crlf) - 1 <= Len(d) /\ Len(crlf) > 0
    BY <1>1
  <2>2. \A j \in 1..Len(crlf) : d[2 + j - 1] = crlf[j]
    BY <1>1
  <2>3. \A k \in 1..(2 - 1) : d[k] # crlf[1]
    BY <1>1
  <2> QED BY <1>1, <2>1, <2>2, <2>3, FirstFound
<1>3. PICK s \in Typed :
           /\ parseStartLine(x) = s /\ Unrouted(s)
           /\ s.state = "RS_START_LINE_READ" /\ s.errCode = 0 /\ s.body = x.body
           /\ s.method = ask.method
           /\ s.inBuf = After(d, 3)
  <2>1. Found(x.inBuf, <<"crlf">>) # {} /\ Min(Found(x.inBuf, <<"crlf">>)) = 2 /\ x.inBuf[1] = "start"
    BY <1>2, <1>a
  <2>2. PICK y \in Typed :
           /\ parseStartLine(x) = y /\ Unrouted(y)
           /\ \/ /\ Refused(y)
                 /\ \/ ask.line = "short" \/ x.inBuf[1] # "start"
                    \/ Min(Found(x.inBuf, <<"crlf">>)) = 1
              \/ /\ y.state = "RS_START_LINE_READ" /\ y.errCode = 0 /\ y.body = x.body
                 /\ y.method = ask.method
                 /\ \E pos \in Nat : /\ pos = Min(Found(x.inBuf, <<"crlf">>))
                                     /\ y.inBuf = After(x.inBuf, pos + 1)
    BY <2>1, StartIs
  <2>3. 2 # 1 /\ 2 + 1 = 3
    OBVIOUS
  <2> QED BY <2>1, <2>2, <2>3
<1>b. PICK rest : rest = After(d, 3)
  OBVIOUS
<1>4. rest \in Seq(Token) /\ Len(rest) = Len(d) - 2 /\ \A j \in 1..(Len(d) - 2) : rest[j] = d[j + 2]
  BY <1>b, AfterLine
<1>5. CRLF \in Seq(Piece) /\ Len(CRLF) = 2 /\ CRLF[1] = "crlf" /\ CRLF[2] = "crlf"
  BY DEF CRLF, Piece
<1>6. Found(rest, CRLF) # {} /\ Min(Found(rest, CRLF)) = 2
  <2>1. 2 + Len(CRLF) - 1 <= Len(rest) /\ Len(CRLF) > 0
    BY <1>4, <1>5
  <2>2. rest[1] = "fields" /\ rest[2] = "crlf" /\ rest[3] = "crlf"
    BY <1>4
  <2>3. \A j \in 1..Len(CRLF) : rest[2 + j - 1] = CRLF[j]
    BY <1>5, <2>2
  <2>4. \A k \in 1..(2 - 1) : rest[k] # CRLF[1]
    BY <1>5, <2>2
  <2> QED BY <1>4, <1>5, <2>1, <2>3, <2>4, FirstFound
<1>7. PICK y \in Typed :
           /\ parseHeaders(s) = y /\ Unrouted(y)
           /\ y.state = "RS_HEADERS_READ" /\ y.errCode = 0 /\ y.body = s.body
           /\ y.method = s.method /\ y.length = ask.length
           /\ y.inBuf = After(rest, 4)
  <2>1. Found(s.inBuf, CRLF) # {} /\ Min(Found(s.inBuf, CRLF)) = 2
    BY <1>3, <1>6, <1>b
  <2>2. PICK y \in Typed :
           /\ parseHeaders(s) = y /\ Unrouted(y)
           /\ \/ Refused(y) /\ ask.fields # "ok"
              \/ /\ y.state = "RS_HEADERS_READ" /\ y.errCode = 0 /\ y.body = s.body
                 /\ y.method = s.method /\ y.length = ask.length
                 /\ \E pos \in Nat : /\ pos = Min(Found(s.inBuf, CRLF))
                                     /\ y.inBuf = After(s.inBuf, pos + 2)
    BY <1>3, <2>1, HeadersAre
  <2>3. 2 + 2 = 4
    OBVIOUS
  <2> QED BY <1>3, <1>b, <2>1, <2>2, <2>3
<1>8. After(rest, 4) = After(d, 6)
  BY <1>b, AfterFields
<1>9. parse(x) = Rest(y)
  <2>1. Started(x) = s
    BY <1>2, <1>3, <1>a DEF Started
  <2>2. Headed(s) = y
    BY <1>3, <1>6, <1>7, <1>b DEF Headed, CRLF
  <2> QED BY <2>1, <2>2, ParseIs
<1>10. AtBody(y)
  BY <1>3, <1>7 DEF AtBody
<1> QED BY <1>3, <1>7, <1>8, <1>9, <1>10

(* The first recv of a request that is not refused brings its start line   *)
(* alone, or all its header section.                                       *)
FirstIs(x, i, m, d) ==
  /\ i = 0 /\ ask.line = "ok"
  /\ \/ m = 2 /\ ~Midway(parse(x)) /\ parse(x).length = None
     \/ /\ ask.fields = "ok" /\ m >= 5
        /\ \E y \in Typed : /\ parse(x) = Rest(y) /\ AtBody(y)
                            /\ y.body = <<>> /\ y.inBuf = After(d, 6)

LEMMA FirstShape ==
  ASSUME ask \in Request, NEW x \in Typed, x.state = "RS_IDLE", x.errCode = 0, Unrouted(x),
         x.body = <<>>, x.length = None,
         NEW s \in Seq(Token), s = Text(ask), NEW i \in Nat, NEW m \in Nat, m >= 1, i + m <= Len(s),
         NEW d \in Seq(Token), Len(d) = m, \A j \in 1..m : d[j] = s[i + j], x.inBuf = d,
         ~Refused(parse(x))
  PROVE  FirstIs(x, i, m, d)
<1>1. PICK pos \in Nat, y \in Typed :
              /\ pos = Min(Found(d, <<"crlf">>)) /\ pos >= 2 /\ pos <= Len(d)
              /\ d[1] = "start" /\ ask.line # "short"
              /\ \/ After(d, pos + 1) = <<>> /\ parse(x) = NoBody(y) /\ y.length = None
                 \/ /\ ask.fields = "ok"
                    /\ \E endPos \in Nat :
                         LET rest == After(d, pos + 1) IN
                         /\ Found(rest, CRLF) # {}
                         /\ endPos = Min(Found(rest, CRLF)) /\ endPos >= 1 /\ endPos + 1 <= Len(rest)
  <2>1. d # <<>>
    OBVIOUS
  <2> QED BY <2>1, FirstParse
<1>2. s[1 + i] = "start" /\ 1 + i \in 1..Len(s)
  BY <1>1
<1>3. i = 0 /\ Lined(ask)
  <2>1. \A j \in 2..Len(s) : s[j] # "start"
    BY TextShape
  <2>2. i = 0
    BY <1>2, <2>1
  <2>3. s[1] = "start"
    BY <1>2, <2>2
  <2>4. ~Lined(ask) => s[1] # "start"
    BY TextShape
  <2> QED BY <2>2, <2>3, <2>4
<1>4. ask.line = "ok"
  <2>1. ask.line \in {"ok", "short", "empty"}
    BY DEF Request
  <2> QED BY <1>1, <1>3, <2>1 DEF Lined
<1>5. \A j \in 1..m : d[j] = s[j]
  BY <1>3
<1>6. m >= 2 /\ d[2] = "crlf"
  <2>1. s[2] = "crlf"
    BY <1>3, TextShape
  <2> QED BY <1>1, <1>5, <2>1
<1>7. pos = 2
  <2>a. PICK crlf : crlf = <<"crlf">>
    OBVIOUS
  <2>1. crlf \in Seq(Piece) /\ Len(crlf) = 1 /\ crlf[1] = "crlf"
    BY <2>a DEF Piece
  <2>b. PICK two \in Nat \ {0} : two = 2
    OBVIOUS
  <2>2. two + Len(crlf) - 1 <= Len(d) /\ Len(crlf) > 0
    BY <1>6, <2>1, <2>b
  <2>3. \A j \in 1..Len(crlf) : d[two + j - 1] = crlf[j]
    BY <1>6, <2>1, <2>b
  <2>4. \A k \in 1..(two - 1) : d[k] # crlf[1]
    BY <1>1, <2>1, <2>b
  <2>5. Min(Found(d, crlf)) = two
    BY <2>1, <2>2, <2>3, <2>4, FirstFound
  <2> QED BY <1>1, <2>a, <2>b, <2>5
<1>a. PICK rest : rest = After(d, 3)
  OBVIOUS
<1>8. rest \in Seq(Token) /\ Len(rest) = m - 2 /\ \A j \in 1..(m - 2) : rest[j] = d[j + 2]
  BY <1>6, <1>a, AfterLine
<1>9. rest = After(d, pos + 1)
  BY <1>7, <1>a
<1>10. CASE After(d, pos + 1) = <<>> /\ parse(x) = NoBody(y) /\ y.length = None
  <2>1. m = 2
    <3>1. Len(rest) = 0
      BY <1>9, <1>10
    <3> QED BY <1>8, <3>1
  <2>2. ~Midway(parse(x)) /\ parse(x).length = None
    BY <1>10, NoBodyIs DEF Midway
  <2> QED BY <1>3, <1>4, <2>1, <2>2 DEF FirstIs
<1>11. CASE ~(After(d, pos + 1) = <<>> /\ parse(x) = NoBody(y) /\ y.length = None)
  <2>1. PICK endPos \in Nat : /\ ask.fields = "ok" /\ Found(rest, CRLF) # {}
                              /\ endPos = Min(Found(rest, CRLF)) /\ endPos >= 1 /\ endPos + 1 <= Len(rest)
    BY <1>1, <1>9, <1>11
  <2>2. Headlined(ask)
    BY <1>3, <2>1 DEF Headlined
  <2>3. s[3] = "fields" /\ s[4] = "crlf" /\ s[5] = "crlf"
    BY <2>2, TextShape
  <2>4. m >= 5
    <3>1. rest[1] = "fields"
      <4>1. Len(rest) >= 2
        BY <1>8, <2>1
      <4>2. rest[1] = d[3] /\ d[3] = s[3]
        BY <1>5, <1>8, <4>1, SMTT(30)
      <4> QED BY <2>3, <4>2
    <3>2. CRLF \in Seq(Piece) /\ Len(CRLF) = 2 /\ CRLF[1] = "crlf"
      BY DEF CRLF, Piece
    <3>3. PICK k : /\ k = Min(Found(rest, CRLF)) /\ k \in Nat \ {0}
                   /\ k + Len(CRLF) - 1 <= Len(rest)
                   /\ \A j \in 1..Len(CRLF) : rest[k + j - 1] = CRLF[j]
      <4>1. Len(CRLF) > 0 /\ rest \in Seq(Token) /\ CRLF \in Seq(Piece) /\ Found(rest, CRLF) # {}
        BY <1>8, <2>1, <3>2
      <4>2. \E k : /\ k = Min(Found(rest, CRLF)) /\ k \in Nat \ {0} /\ k + Len(CRLF) - 1 <= Len(rest)
                   /\ \A j \in 1..Len(CRLF) : rest[k + j - 1] = CRLF[j]
        BY <4>1, FirstOf
      <4> QED BY <4>2
    <3>4. rest[k] = "crlf"
      <4>1. 1 \in 1..Len(CRLF) /\ k + 1 - 1 = k
        BY <3>2, <3>3
      <4> QED BY <3>2, <3>3, <4>1
    <3>5. endPos # 1
      BY <2>1, <3>1, <3>3, <3>4
    <3> QED BY <1>8, <2>1, <3>5
  <2>5. d[3] = "fields" /\ d[4] = "crlf" /\ d[5] = "crlf"
    <3>1. d[3] = s[3] /\ d[4] = s[4] /\ d[5] = s[5]
      BY <1>5, <2>4
    <3> QED BY <2>3, <3>1
  <2>6. \E z \in Typed : /\ parse(x) = Rest(z) /\ AtBody(z)
                         /\ z.body = <<>> /\ z.inBuf = After(d, 6)
    BY <1>1, <1>6, <2>1, <2>4, <2>5, HeadParse
  <2> QED BY <1>3, <1>4, <2>1, <2>4, <2>6 DEF FirstIs
<1> QED BY <1>10, <1>11

-----------------------------------------------------------------------------
(* Of a body it does not matter how much had come before.                  *)

LEMMA SameFields ==
  ASSUME NEW x \in Typed, NEW y \in Typed,
         x.inBuf = y.inBuf, x.outBuf = y.outBuf, x.state = y.state, x.errCode = y.errCode,
         x.method = y.method, x.length = y.length, x.body = y.body, x.type = y.type,
         x.url = y.url, x.code = y.code, x.done = y.done
  PROVE  x = y
BY DEF Typed

LEMMA SameFilled ==
  ASSUME NEW x \in Typed, NEW y \in Typed, AtBody(x), AtBody(y),
         x.inBuf \in Seq(Piece), y.inBuf \in Seq(Piece), x.body \o x.inBuf = y.body \o y.inBuf
  PROVE  Filled(x) = Filled(y) /\ Done(x) = Done(y)
<1>1. PICK v \in Typed, w \in Typed : v = Filled(x) /\ w = Filled(y)
  BY FilledIs
<1>2. /\ v.body = x.body \o x.inBuf /\ v.inBuf = <<>> /\ v.state = x.state /\ v.errCode = x.errCode
      /\ v.method = x.method /\ v.length = x.length /\ Unrouted(v)
  BY <1>1, FilledIs DEF AtBody
<1>3. /\ w.body = y.body \o y.inBuf /\ w.inBuf = <<>> /\ w.state = y.state /\ w.errCode = y.errCode
      /\ w.method = y.method /\ w.length = y.length /\ Unrouted(w)
  BY <1>1, FilledIs DEF AtBody
<1>4. v = w
  <2>1. /\ v.outBuf = w.outBuf /\ v.type = w.type /\ v.url = w.url /\ v.code = w.code
        /\ v.done = w.done
    BY <1>2, <1>3 DEF Unrouted
  <2>2. /\ v.inBuf = w.inBuf /\ v.state = w.state /\ v.errCode = w.errCode
        /\ v.method = w.method /\ v.length = w.length /\ v.body = w.body
    BY <1>2, <1>3 DEF AtBody
  <2> QED BY <2>1, <2>2, SameFields
<1> QED BY <1>1, <1>4 DEF Done

(* A request of which the header section and some of the body came at once.*)
LEMMA AtOnce ==
  ASSUME ask \in Request, ask.line = "ok", ask.fields = "ok",
         NEW s \in Seq(Token), s = Text(ask), NEW k \in Nat, 5 <= k, k <= Len(s)
  PROVE  \E y \in Typed :
           /\ parse(With(New, SubSeq(s, 1, k))) = Rest(y) /\ AtBody(y)
           /\ y.body = <<>> /\ y.inBuf = SubSeq(s, 6, k)
           /\ y.inBuf \in Seq(Piece) /\ Len(y.inBuf) = k - 5
<1>1. Headlined(ask) /\ Lined(ask)
  BY DEF Headlined, Lined
<1>2. s[1] = "start" /\ s[2] = "crlf" /\ s[3] = "fields" /\ s[4] = "crlf" /\ s[5] = "crlf"
  BY <1>1, TextShape
<1>a. PICK d : d = SubSeq(s, 1, k)
  OBVIOUS
<1>3. d \in Seq(Token) /\ Len(d) = k /\ \A j \in 1..k : d[j] = s[j]
  <2>a. PICK z \in Nat : z = 0
    OBVIOUS
  <2>1. /\ SubSeq(s, z + 1, k) \in Seq(Token) /\ Len(SubSeq(s, z + 1, k)) = k - z
        /\ \A j \in 1..(k - z) : SubSeq(s, z + 1, k)[j] = s[z + j]
    <3>1. z <= k
      BY <2>a
    <3> QED BY <3>1, SliceIs
  <2> QED BY <1>a, <2>a, <2>1
<1>b. PICK x : x = With(New, d)
  OBVIOUS
<1>4. /\ x \in Typed /\ x.inBuf = d /\ x.state = "RS_IDLE" /\ x.errCode = 0 /\ Unrouted(x)
      /\ x.body = <<>>
  <2>1. New.inBuf = <<>> /\ New.state = "RS_IDLE" /\ New.errCode = 0 /\ New.body = <<>>
    BY DEF New
  <2> QED BY <1>3, <1>b, <2>1, NewIs, WithIs
<1>5. d[1] = "start" /\ d[2] = "crlf" /\ d[3] = "fields" /\ d[4] = "crlf" /\ d[5] = "crlf"
  BY <1>2, <1>3
<1>6. PICK y \in Typed : /\ parse(x) = Rest(y) /\ AtBody(y) /\ y.body = <<>> /\ y.inBuf = After(d, 6)
  <2>1. ask.line # "short" /\ Len(d) >= 5
    BY <1>3
  <2> QED BY <1>3, <1>4, <1>5, <2>1, HeadParse
<1>7. After(d, 6) = SubSeq(s, 6, k)
  BY <1>3 DEF After
<1>8. SubSeq(s, 6, k) \in Seq(Piece) /\ Len(SubSeq(s, 6, k)) = k - 5
  <2>a. PICK f \in Nat : f = 5
    OBVIOUS
  <2>b. PICK u : u = SubSeq(s, f + 1, k)
    OBVIOUS
  <2>1. u \in Seq(Token) /\ Len(u) = k - f /\ \A j \in 1..(k - f) : u[j] = s[f + j]
    <3>1. f <= k
      BY <2>a
    <3> QED BY <2>b, <3>1, SliceIs
  <2>2. \A j \in 1..Len(s) : j >= 5 => s[j] \in Piece
    BY TextIs
  <2>3. \A j \in 1..Len(u) : u[j] \in Piece
    <3> TAKE j \in 1..Len(u)
    <3>1. f + j \in 1..Len(s) /\ f + j >= 5 /\ u[j] = s[f + j]
      BY <2>a, <2>1
    <3> QED BY <2>2, <3>1
  <2>4. u \in Seq(Piece)
    BY <2>1, <2>3, AllIn
  <2> QED BY <2>a, <2>b, <2>1, <2>4
<1> QED BY <1>a, <1>b, <1>6, <1>7, <1>8

LEMMA ProcessClosed ==
  ASSUME NEW x, NEW data, NEW p \in Typed, p = parse(With(x, data)), Refused(p)
  PROVE  \E e \in process(x, data) : e.state = "RS_CLOSE" /\ e.errCode = p.errCode
<1>1. Routes(p) = {p} /\ Handles(p) = {p}
  BY DEF Routes, Handles, Refused
<1>2. UNION {Handles(r) : r \in Routes(p)} = {p}
  BY <1>1
<1>3. process(x, data) = {buildAnswer(h) : h \in {p}}
  BY <1>2, ProcessIs
<1>4. buildAnswer(p) \in process(x, data)
  BY <1>3
<1> QED BY <1>4, ProcessRefused DEF Closed, Refused

-----------------------------------------------------------------------------
(* Sequences that begin another.                                           *)

LEMMA Begins ==
  ASSUME NEW S, NEW s \in Seq(S), NEW k \in Nat, k <= Len(s), NEW f \in Nat, f <= k
  PROVE  /\ Len(SubSeq(s, 1, k)) = k
         /\ SubSeq(SubSeq(s, 1, k), 1, f) = SubSeq(s, 1, f)
<1>a. PICK z \in Nat : z = 0
  OBVIOUS
<1>b. PICK t : t = SubSeq(s, 1, k)
  OBVIOUS
<1>1. t \in Seq(S) /\ Len(t) = k /\ \A j \in 1..k : t[j] = s[j]
  <2>1. /\ SubSeq(s, z + 1, k) \in Seq(S) /\ Len(SubSeq(s, z + 1, k)) = k - z
        /\ \A j \in 1..(k - z) : SubSeq(s, z + 1, k)[j] = s[z + j]
    BY <1>a, SliceIs
  <2> QED BY <1>a, <1>b, <2>1
<1>2. /\ SubSeq(s, 1, f) \in Seq(S) /\ Len(SubSeq(s, 1, f)) = f
      /\ \A j \in 1..f : SubSeq(s, 1, f)[j] = s[j]
  <2>1. /\ SubSeq(s, z + 1, f) \in Seq(S) /\ Len(SubSeq(s, z + 1, f)) = f - z
        /\ \A j \in 1..(f - z) : SubSeq(s, z + 1, f)[j] = s[z + j]
    BY <1>a, SliceIs
  <2> QED BY <1>a, <2>1
<1>3. /\ SubSeq(t, 1, f) \in Seq(S) /\ Len(SubSeq(t, 1, f)) = f
      /\ \A j \in 1..f : SubSeq(t, 1, f)[j] = t[j]
  <2>1. /\ SubSeq(t, z + 1, f) \in Seq(S) /\ Len(SubSeq(t, z + 1, f)) = f - z
        /\ \A j \in 1..(f - z) : SubSeq(t, z + 1, f)[j] = t[z + j]
    BY <1>a, <1>1, SliceIs
  <2> QED BY <1>a, <2>1
<1>4. \A j \in 1..f : SubSeq(t, 1, f)[j] = SubSeq(s, 1, f)[j]
  BY <1>1, <1>2, <1>3
<1>5. SubSeq(t, 1, f) = SubSeq(s, 1, f)
  BY <1>2, <1>3, <1>4, SeqEqual
<1> QED BY <1>b, <1>1, <1>5

-----------------------------------------------------------------------------
(* What handleBoundary keeps of a body, when it does not refuse it.        *)

LEMMA BoundaryCut ==
  ASSUME NEW x \in Typed, ~Refused(handleBoundary(x))
  PROVE  /\ Between(x.body, handleBoundary(x).body)
         /\ handleBoundary(x).body \in Seq(Piece)
         /\ handleBoundary(x).method = x.method /\ handleBoundary(x).length = x.length
<1> DEFINE buf    == After(x.body, PartStart(x))
           ended  == Found(buf, EndMark) # {}
           endPos == IF ended THEN find(buf, EndMark) ELSE Len(buf)
           erased == IF ended THEN endPos + Len(Boundary) + Len(CRLF) ELSE 3
           bad == \/ ask.form = "unbounded"
                  \/ Found(x.body, Boundary) = {} \/ Found(x.body, CRLF) = {}
                  \/ After(buf, erased + 1) # <<>>
           cut == SubSeq(buf, 1, endPos)
<1>1. handleBoundary(x) = IF bad THEN Fail(x, 400) ELSE [x EXCEPT !.body = cut]
  BY DEF handleBoundary
<1>2. ~bad
  <2>1. Refused(Fail(x, 400))
    BY FailIs DEF Errors
  <2> HIDE DEF bad
  <2> QED BY <1>1, <2>1
<1>3. Found(x.body, CRLF) # {} /\ After(buf, erased + 1) = <<>>
  BY <1>2
<1>a. PICK body \in Seq(Piece) : body = x.body
  BY DEF Typed
<1>4. CRLF \in Seq(Piece) /\ Len(CRLF) = 2 /\ Len(CRLF) > 0 /\ Len(Boundary) = 2
  BY DEF CRLF, Boundary, Piece
<1>5. EndMark \in Seq(Piece) /\ Len(EndMark) = 3 /\ Len(EndMark) > 0
  BY DEF EndMark, Boundary, Piece
<1>b. PICK p : p = Min(Found(body, CRLF))
  OBVIOUS
<1>6. p \in Found(body, CRLF)
  BY <1>3, <1>4, <1>a, <1>b, Where, ZenonT(40)
<1>7. p \in Nat \ {0} /\ p + 1 <= Len(body) /\ SubSeq(body, p, p + 1) = CRLF
  BY <1>4, <1>6 DEF Found
<1>c. PICK i \in Nat \ {0} : i = p + 2
  BY <1>7
<1>8. /\ i \in 3..(Len(body) + 1) /\ find(body, CRLF) = i - 3
      /\ SubSeq(body, i - 2, i - 1) = CRLF
  <2>1. i - 2 = p /\ i - 1 = p + 1 /\ i - 3 = p - 1 /\ i \in 3..(Len(body) + 1)
    BY <1>7, <1>c
  <2>2. find(body, CRLF) = p - 1
    BY <1>b DEF find
  <2>3. SubSeq(body, i - 2, i - 1) = SubSeq(body, p, p + 1)
    BY <2>1
  <2> QED BY <1>7, <2>1, <2>2, <2>3
<1>9. PartStart(x) = i
  <2>1. find(body, CRLF) + 2 + 1 = i
    BY <1>8
  <2> QED BY <1>4, <1>a, <2>1 DEF PartStart
<1>d. PICK rest \in Seq(Piece) : rest = After(body, i) /\ rest = buf
  <2>1. i <= Len(body) + 1
    BY <1>8
  <2> QED BY <1>9, <1>a, <2>1, AfterIs
<1>e. PICK kept : kept = cut
  OBVIOUS
<1>10. /\ kept \in Seq(Piece)
       /\ \/ /\ IsPrefix(kept \o EndMark, rest) /\ Found(kept, EndMark) = {}
             /\ Len(rest) <= Len(kept) + Len(EndMark) + 1
          \/ kept = rest /\ Len(rest) <= 3 /\ Found(rest, EndMark) = {}
  <2>1. CASE ended
    <3>a. PICK e : e = Min(Found(rest, EndMark))
      OBVIOUS
    <3>1. e \in Found(rest, EndMark)
      BY <1>5, <1>d, <2>1, <3>a, Where, ZenonT(40)
    <3>2. e \in Nat \ {0} /\ e + 2 <= Len(rest) /\ SubSeq(rest, e, e + 2) = EndMark
      BY <1>5, <3>1 DEF Found
    <3>b. PICK n \in Nat : n = e - 1
      BY <3>2
    <3>3. endPos = n /\ erased = n + 4
      <4>1. find(buf, EndMark) = n
        BY <1>d, <3>a, <3>b DEF find
      <4> QED BY <1>4, <2>1, <4>1
    <3>4. kept = SubSeq(rest, 1, n)
      BY <1>d, <1>e, <3>3
    <3>5. n <= Len(rest) /\ n + 3 <= Len(rest)
      BY <3>2, <3>b
    <3>6. kept \in Seq(Piece) /\ Len(kept) = n
      BY <3>4, <3>5, Cut
    <3>7. kept \o EndMark = SubSeq(rest, 1, n + 3)
      <4>1. 1 \in 1..(Len(rest) + 1) /\ n \in (1 - 1)..Len(rest) /\ n + 3 \in n..Len(rest)
        BY <3>5
      <4>2. SubSeq(rest, 1, n) \o SubSeq(rest, n + 1, n + 3) = SubSeq(rest, 1, n + 3)
        BY <4>1, ConcatAdjacentSubSeq
      <4>3. n + 1 = e /\ n + 3 = e + 2
        BY <3>2, <3>b
      <4> QED BY <3>2, <3>4, <4>2, <4>3
    <3>8. IsPrefix(kept \o EndMark, rest)
      <4>a. PICK m \in Nat : m = n + 3
        OBVIOUS
      <4>1. Len(SubSeq(rest, 1, m)) = m /\ SubSeq(SubSeq(rest, 1, m), 1, m) = SubSeq(rest, 1, m)
        BY <3>5, <4>a, Begins
      <4> QED BY <3>5, <3>7, <4>a, <4>1 DEF IsPrefix
    <3>9. Found(kept, EndMark) = {}
      <4> SUFFICES ASSUME NEW k \in Found(kept, EndMark) PROVE FALSE
        OBVIOUS
      <4>0. \A l \in Found(kept, EndMark) :
              /\ l \in Nat \ {0} /\ l + Len(EndMark) - 1 <= Len(kept)
              /\ \A j \in 1..Len(EndMark) : kept[l + j - 1] = EndMark[j]
        BY <1>5, <3>6, Where, ZenonT(40)
      <4>1. /\ k \in Nat \ {0} /\ k + Len(EndMark) - 1 <= Len(kept)
            /\ \A j \in 1..Len(EndMark) : kept[k + j - 1] = EndMark[j]
        BY <4>0
      <4>2. \A j \in 1..n : kept[j] = rest[j]
        BY <3>4, <3>5
      <4>3. k \in Found(rest, EndMark)
        <5>1. k \in 1..Len(rest) /\ k + Len(EndMark) - 1 <= Len(rest) /\ k + Len(EndMark) - 1 <= n
          BY <1>5, <3>5, <3>6, <4>1
        <5>2. \A j \in 1..Len(EndMark) : k + j - 1 \in 1..n
          BY <4>1, <5>1
        <5>3. \A j \in 1..Len(EndMark) : rest[k + j - 1] = EndMark[j]
          BY <4>1, <4>2, <5>2
        <5> QED BY <1>5, <5>1, <5>3, Where, ZenonT(40)
      <4>4. Found(rest, EndMark) \subseteq Nat
        BY <1>5, Where, ZenonT(40)
      <4>5. e <= k
        BY <3>a, <4>3, <4>4, Least
      <4> QED BY <1>5, <3>2, <3>6, <3>b, <4>1, <4>5
    <3>10. Len(rest) <= n + 4
      <4>1. After(rest, n + 4 + 1) = <<>>
        BY <1>3, <1>d, <3>3
      <4> SUFFICES ASSUME n + 4 < Len(rest) PROVE FALSE
        BY <3>5
      <4>a. PICK a \in Nat \ {0} : a = n + 5
        OBVIOUS
      <4>2. a <= Len(rest) + 1 /\ After(rest, a) = <<>>
        BY <4>1, <4>a
      <4>3. Len(After(rest, a)) = Len(rest) - a + 1
        BY <4>2, AfterIs
      <4>4. Len(<<>>) = 0
        OBVIOUS
      <4> QED BY <4>2, <4>3, <4>4, <4>a
    <3>11. Len(rest) <= Len(kept) + Len(EndMark) + 1
      BY <1>5, <3>6, <3>10
    <3> QED BY <3>6, <3>8, <3>9, <3>11
  <2>2. CASE ~ended
    <3>1. kept = SubSeq(rest, 1, Len(rest)) /\ Found(rest, EndMark) = {}
      BY <1>d, <1>e, <2>2
    <3>2. kept = rest
      BY <3>1, SubSeqFull
    <3>3. Len(rest) <= 3
      <4>1. After(rest, 3 + 1) = <<>>
        BY <1>3, <1>d, <2>2
      <4> SUFFICES ASSUME 3 < Len(rest) PROVE FALSE
        OBVIOUS
      <4>a. PICK a \in Nat \ {0}, l \in Nat : a = 4 /\ l = Len(rest)
        <5>1. Len(rest) \in Nat
          BY <1>d
        <5> QED BY <5>1
      <4>2. a <= Len(rest) + 1 /\ After(rest, a) = <<>>
        <5>1. 3 + 1 = a /\ a <= l + 1
          BY <4>a
        <5> QED BY <4>1, <4>a, <5>1
      <4>3. Len(After(rest, a)) = Len(rest) - a + 1
        BY <4>2, AfterIs
      <4>4. Len(<<>>) = 0
        OBVIOUS
      <4>5. l - a + 1 = 0
        BY <4>2, <4>3, <4>4, <4>a
      <4> QED BY <4>5, <4>a, SMTT(30)
    <3> QED BY <3>1, <3>2, <3>3
  <2> QED BY <2>1, <2>2
<1>11. Between(body, kept)
  BY <1>8, <1>10, <1>d DEF Between
<1>12. handleBoundary(x) = [x EXCEPT !.body = kept]
  <2> HIDE DEF bad, cut
  <2> QED BY <1>1, <1>2, <1>e
<1>13. \A y : y = [x EXCEPT !.body = kept] =>
         y.body = kept /\ y.method = x.method /\ y.length = x.length
  BY DEF Typed
<1> QED BY <1>10, <1>11, <1>12, <1>13, <1>a

(* Of a body that holds one file, it is the file and the CRLF behind it.   *)
LEMMA EnvelopeBetween ==
  ASSUME NEW c \in Seq(Piece), NEW stored \in Seq(Piece), Between(Envelope(c), stored)
  PROVE  stored = c \o <<"crlf">>
<1>a. PICK b : b = Envelope(c)
  OBVIOUS
<1>1. /\ b \in Seq(Piece) /\ Len(b) = Len(c) + 10
      /\ b[1] = "dash" /\ b[2] = "B" /\ b[3] = "crlf" /\ b[4] = "disp"
      /\ b[5] = "crlf" /\ b[6] = "crlf"
      /\ \A j \in 1..Len(c) : b[6 + j] = c[j]
      /\ b[Len(c) + 7] = "crlf"
  <2>1. b = <<"dash", "B">> \o <<"crlf", "disp">> \o <<"crlf", "crlf">> \o c \o <<"crlf">>
              \o (<<"dash", "B">> \o <<"dash">>)
    BY <1>a DEF Envelope, Boundary, CRLF, EndMark
  <2>2. PICK s : s = <<"dash", "B">> \o <<"crlf", "disp">> \o <<"crlf", "crlf">> \o c \o <<"crlf">>
              \o (<<"dash", "B">> \o <<"dash">>)
    OBVIOUS
  <2>3. s \in Seq(Piece)
    BY <2>2 DEF Piece
  <2>4. Len(s) = Len(c) + 10
    BY <2>2
  <2>5. s[1] = "dash" /\ s[2] = "B" /\ s[3] = "crlf" /\ s[4] = "disp" /\ s[5] = "crlf" /\ s[6] = "crlf"
    BY <2>2
  <2>6. \A j \in 1..Len(c) : s[6 + j] = c[j]
    BY <2>2
  <2>7. s[Len(c) + 7] = "crlf"
    <3>1. PICK v, w : /\ v = <<"dash", "B">> \o <<"crlf", "disp">> \o <<"crlf", "crlf">> \o c
                      /\ w = <<"dash", "B">> \o <<"dash">>
      OBVIOUS
    <3>2. v \in Seq(Piece) /\ w \in Seq(Piece) /\ Len(v) = Len(c) + 6
      BY <3>1 DEF Piece
    <3>3. s = v \o <<"crlf">> \o w
      BY <2>2, <3>1
    <3>4. (v \o <<"crlf">> \o w)[Len(v) + 1] = "crlf"
      BY <3>2
    <3> QED BY <3>2, <3>3, <3>4
  <2> QED BY <2>1, <2>2, <2>3, <2>4, <2>5, <2>6, <2>7
<1>b. PICK n \in Nat : n = Len(c)
  OBVIOUS
<1>2. CRLF \in Seq(Piece) /\ Len(CRLF) = 2 /\ Len(CRLF) > 0 /\ CRLF[1] = "crlf" /\ CRLF[2] = "crlf"
  BY DEF CRLF, Piece
<1>3. EndMark \in Seq(Piece) /\ Len(EndMark) = 3 /\ EndMark[1] = "dash"
  BY DEF EndMark, Boundary, Piece
<1>4. PICK i \in 3..(Len(b) + 1) :
        /\ find(b, CRLF) = i - 3
        /\ LET rest == After(b, i) IN
             \/ /\ IsPrefix(stored \o EndMark, rest)
                /\ Len(rest) <= Len(stored) + Len(EndMark) + 1
             \/ stored = rest /\ Len(rest) <= 3
  BY <1>a DEF Between
<1>5. i = 7
  <2>a. PICK m : m = Min(Found(b, CRLF))
    OBVIOUS
  <2>1. 5 \in Found(b, CRLF)
    <3>1. 5 \in 1..Len(b) /\ 5 + Len(CRLF) - 1 <= Len(b)
      BY <1>1, <1>2
    <3>2. \A j \in 1..Len(CRLF) : b[5 + j - 1] = CRLF[j]
      BY <1>1, <1>2
    <3> QED BY <1>1, <1>2, <3>1, <3>2, Where, ZenonT(40)
  <2>2. Found(b, CRLF) \subseteq Nat /\ m \in Found(b, CRLF)
    BY <1>1, <1>2, <2>1, <2>a, Where, ZenonT(40)
  <2>3. m <= 5
    BY <2>1, <2>2, <2>a, Least
  <2>4. /\ m \in Nat \ {0} /\ \A j \in 1..Len(CRLF) : b[m + j - 1] = CRLF[j]
    BY <1>1, <1>2, <2>2, Where, ZenonT(40)
  <2>5. b[m] = "crlf" /\ b[m + 1] = "crlf"
    <3>1. 1 \in 1..Len(CRLF) /\ 2 \in 1..Len(CRLF) /\ m + 1 - 1 = m /\ m + 2 - 1 = m + 1
      BY <1>2, <2>4
    <3> QED BY <1>2, <2>4, <3>1
  <2>6. m \in {1, 2, 3, 4, 5}
    BY <2>3, <2>4
  <2>7. m = 5
    BY <1>1, <2>5, <2>6
  <2>8. m - 1 = i - 3
    BY <1>4, <2>a DEF find
  <2> QED BY <2>7, <2>8
<1>c. PICK f \in Nat \ {0} : f = 7
  OBVIOUS
<1>f. PICK rest : rest = After(b, f)
  OBVIOUS
<1>6. /\ rest \in Seq(Piece) /\ Len(rest) = n + 4
      /\ \A j \in 1..(n + 4) : rest[j] = b[j + 6]
  <2>1. f <= Len(b) + 1 /\ Len(b) = n + 10
    BY <1>1, <1>b, <1>c
  <2>2. /\ rest \in Seq(Piece) /\ Len(rest) = Len(b) - f + 1
        /\ \A j \in 1..(Len(b) - f + 1) : rest[j] = b[j + f - 1]
    BY <1>1, <1>f, <2>1, AfterIs
  <2> QED BY <1>c, <2>1, <2>2
<1>7. (\A j \in 1..n : rest[j] = c[j]) /\ rest[n + 1] = "crlf"
  <2>1. ASSUME NEW j \in 1..n PROVE rest[j] = c[j]
    <3>1. j \in 1..(n + 4) /\ j \in 1..Len(c) /\ j + 6 = 6 + j
      BY <1>b
    <3> QED BY <1>1, <1>6, <3>1
  <2>2. n + 1 \in 1..(n + 4) /\ (n + 1) + 6 = Len(c) + 7
    BY <1>b
  <2> QED BY <1>1, <1>6, <2>1, <2>2
<1>d. PICK k \in Nat : k = Len(stored)
  OBVIOUS
<1>8. IsPrefix(stored \o EndMark, rest) /\ n + 4 <= k + 4
  <2>1. ~(n + 4 <= 3)
    OBVIOUS
  <2> QED BY <1>3, <1>4, <1>5, <1>6, <1>c, <1>f, <1>d, <2>1
<1>9. /\ k + 3 <= n + 4
      /\ \A j \in 1..k : stored[j] = rest[j]
      /\ rest[k + 1] = "dash"
  <2>a. PICK u : u = stored \o EndMark
    OBVIOUS
  <2>b. PICK v : v = EndMark
    OBVIOUS
  <2>0. v \in Seq(Piece) /\ Len(v) = 3 /\ v[1] = "dash"
    BY <1>3, <2>b
  <2>1. /\ u \in Seq(Piece) /\ Len(u) = k + 3 /\ u[k + 1] = "dash"
        /\ \A j \in 1..k : u[j] = stored[j]
    <3>1. u = stored \o v
      BY <2>a, <2>b
    <3>2. /\ stored \o v \in Seq(Piece) /\ Len(stored \o v) = Len(stored) + Len(v)
          /\ \A j \in 1..(Len(stored) + Len(v)) :
               (stored \o v)[j] = IF j <= Len(stored) THEN stored[j] ELSE v[j - Len(stored)]
      BY <2>0, ConcatProperties
    <3>3. /\ \A j \in 1..k : u[j] = stored[j]
          /\ u[k + 1] = v[(k + 1) - k]
      BY <1>d, <2>0, <3>1, <3>2
    <3> QED BY <1>d, <2>0, <3>1, <3>2, <3>3
  <2>2. Len(u) <= Len(rest) /\ SubSeq(u, 1, Len(u)) = SubSeq(rest, 1, Len(u))
    BY <1>8, <2>a DEF IsPrefix
  <2>3. u = SubSeq(rest, 1, Len(u))
    BY <2>1, <2>2, SubSeqFull
  <2>4. \A j \in 1..Len(u) : u[j] = rest[j]
    BY <1>6, <2>1, <2>2, <2>3
  <2> QED BY <1>6, <2>1, <2>2, <2>4
<1>10. k = n + 1
  <2>1. k # n
    BY <1>7, <1>9
  <2> QED BY <1>8, <1>9, <2>1
<1>e. PICK t : t = c \o <<"crlf">>
  OBVIOUS
<1>11. t \in Seq(Piece) /\ Len(t) = n + 1 /\ t[n + 1] = "crlf" /\ \A j \in 1..n : t[j] = c[j]
  BY <1>b, <1>e DEF Piece
<1>12. \A j \in 1..k : stored[j] = t[j]
  <2> TAKE j \in 1..k
  <2>1. CASE j = n + 1
    BY <1>7, <1>9, <1>11, <2>1
  <2>2. CASE j # n + 1
    <3>1. j \in 1..n
      BY <1>10, <2>2
    <3> QED BY <1>7, <1>9, <1>11, <3>1
  <2> QED BY <2>1, <2>2
<1> QED BY <1>10, <1>11, <1>12, <1>d, <1>e, SeqEqual

-----------------------------------------------------------------------------
(* What is stored of a request: as much of its body as it announces, of a  *)
(* multipart body what is Between.                                         *)

Sent == SubSeq(ask.body, 1, ask.length)

Stores(done) ==
  \/ done = <<>> \/ done = <<<<"run">>>> \/ done = <<<<"delete">>>>
  \/ \E b \in Seq(Piece) :
       /\ done = <<<<"upload">> \o b>>
       /\ BodyOk(ask) /\ Len(Sent) = ask.length
       /\ ask.form = "none" => b = Sent
       /\ ask.form # "none" => Between(Sent, b)

LEMMA SentIs ==
  ASSUME ask \in Request, Headlined(ask), ask.length \in Nat, 5 + ask.length <= Len(Text(ask))
  PROVE  SubSeq(Text(ask), 6, 5 + ask.length) = Sent /\ Len(Sent) = ask.length
<1>a. PICK s \in Seq(Token), b \in Seq(Piece), l \in Nat, f \in Nat :
        s = Text(ask) /\ b = ask.body /\ l = ask.length /\ f = 5
  BY TextIs DEF Request
<1>1. Len(s) = f + Len(b) /\ \A j \in 1..Len(b) : s[f + j] = b[j]
  BY <1>a, TextShape
<1>2. l <= Len(b) /\ f + l <= Len(s)
  BY <1>a, <1>1
<1>b. PICK z \in Nat : z = 0
  OBVIOUS
<1>c. PICK t, u : t = SubSeq(s, f + 1, f + l) /\ u = SubSeq(b, z + 1, l)
  OBVIOUS
<1>3. t \in Seq(Token) /\ Len(t) = l /\ \A j \in 1..l : t[j] = s[f + j]
  <2>a. PICK g \in Nat : g = f + l
    OBVIOUS
  <2>1. f <= g /\ g <= Len(s) /\ g - f = l
    BY <1>2, <2>a
  <2>2. t \in Seq(Token) /\ Len(t) = g - f /\ \A j \in 1..(g - f) : t[j] = s[f + j]
    BY <1>c, <2>a, <2>1, SliceIs
  <2> QED BY <2>1, <2>2
<1>4. u \in Seq(Piece) /\ Len(u) = l /\ \A j \in 1..l : u[j] = b[j]
  <2>1. z <= l /\ l - z = l /\ \A j \in 1..l : z + j = j
    BY <1>b
  <2>2. u \in Seq(Piece) /\ Len(u) = l - z /\ \A j \in 1..(l - z) : u[j] = b[z + j]
    BY <1>2, <1>c, <2>1, SliceIs
  <2> QED BY <2>1, <2>2
<1>5. t = u
  <2>1. u \in Seq(Token)
    BY <1>4 DEF Token
  <2>2. \A j \in 1..l : t[j] = u[j]
    <3> TAKE j \in 1..l
    <3>1. j \in 1..Len(b)
      BY <1>2
    <3>2. t[j] = s[f + j] /\ s[f + j] = b[j] /\ u[j] = b[j]
      BY <1>1, <1>3, <1>4, <3>1
    <3> QED BY <3>2
  <2> QED BY <1>3, <1>4, <2>1, <2>2, SeqEqual
<1>6. f + 1 = 6 /\ z + 1 = 1
  BY <1>a, <1>b
<1> QED BY <1>a, <1>b, <1>c, <1>4, <1>5, <1>6 DEF Sent

LEMMA ProcessStores ==
  ASSUME NEW x, NEW d, NEW p \in Typed, p = parse(With(x, d)), Whole(p), p.done = <<>>,
         NEW e \in process(x, d)
  PROVE  /\ p.length = None => Stores(e.done)
         /\ \/ e.done = <<<<"upload">> \o p.body>>
            \/ Stores(e.done)
<1>1. \/ e.done = <<>>
      \/ /\ \E w \in Words(p) : e.done = Append(<<>>, w)
         /\ p.method = "POST" => p.length # None
  BY ProcessWhole
<1>2. CASE e.done = <<>>
  BY <1>2 DEF Stores
<1>3. ASSUME NEW w \in Words(p), e.done = Append(<<>>, w), p.method = "POST" => p.length # None
      PROVE  /\ p.length = None => Stores(e.done)
             /\ e.done = <<<<"upload">> \o p.body>> \/ Stores(e.done)
  <2>1. e.done = <<w>>
    BY <1>3
  <2>2. \/ w = <<"run">> \/ w = <<"delete">>
        \/ w = <<"upload">> \o p.body /\ p.method = "POST"
    BY DEF Words
  <2>3. CASE w = <<"run">> \/ w = <<"delete">>
    BY <2>1, <2>3 DEF Stores
  <2>4. CASE w = <<"upload">> \o p.body /\ p.method = "POST"
    BY <1>3, <2>1, <2>4
  <2> QED BY <2>2, <2>3, <2>4
<1> QED BY <1>1, <1>2, <1>3

LEMMA BodyStored ==
  ASSUME ask \in Request, Headlined(ask), BodyOk(ask), 5 + ask.length <= Len(Text(ask)),
         NEW z \in Typed, z.inBuf \in Seq(Piece),
         z.body \o z.inBuf = SubSeq(Text(ask), 6, 5 + ask.length),
         NEW x, NEW d, NEW p \in Typed, p = parse(With(x, d)),
         p = IF ask.form = "none" THEN Done(z) ELSE handleBoundary(Done(z)),
         Whole(p), p.done = <<>>, NEW e \in process(x, d)
  PROVE  Stores(e.done)
<1>1. Done(z) \in Typed /\ Done(z).body = Sent /\ Len(Sent) = ask.length
  BY DoneIs, SentIs DEF BodyOk
<1>2. p.body \in Seq(Piece)
  BY DEF Typed
<1>3. ask.form = "none" => p.body = Sent
  BY <1>1
<1>4. ask.form # "none" => Between(Sent, p.body)
  <2> SUFFICES ASSUME ask.form # "none" PROVE Between(Sent, p.body)
    OBVIOUS
  <2>a. PICK v \in Typed : v = Done(z)
    BY <1>1
  <2>1. ~Refused(handleBoundary(v)) /\ p = handleBoundary(v)
    BY <2>a DEF Whole, Refused
  <2>2. Between(v.body, handleBoundary(v).body)
    BY <2>1, BoundaryCut
  <2> QED BY <1>1, <2>a, <2>1, <2>2
<1>5. e.done = <<<<"upload">> \o p.body>> \/ Stores(e.done)
  BY ProcessStores
<1> QED BY <1>1, <1>2, <1>3, <1>4, <1>5 DEF Stores

(* The last piece: an upload that Stores allows is one that StoredAsSent   *)
(* does.                                                                   *)
LEMMA StoresSo ==
  ASSUME NEW done, Stores(done)
  PROVE  \A i \in DOMAIN done : done[i][1] = "upload" =>
           LET stored == Tail(done[i])
               sent   == SubSeq(ask.body, 1, ask.length)
           IN  /\ Len(sent) = ask.length /\ ask.length < MAX_BODY
               /\ ask.form = "none" => stored = sent
               /\ ask.form # "none" => Between(sent, stored)
               /\ \A content \in Contained :
                    ask.form # "none" /\ sent = Envelope(content) => stored = content \o <<"crlf">>
<1> SUFFICES ASSUME NEW i \in DOMAIN done, done[i][1] = "upload"
             PROVE  LET stored == Tail(done[i]) IN
                    /\ Len(Sent) = ask.length /\ ask.length < MAX_BODY
                    /\ ask.form = "none" => stored = Sent
                    /\ ask.form # "none" => Between(Sent, stored)
                    /\ \A content \in Contained :
                         ask.form # "none" /\ Sent = Envelope(content) => stored = content \o <<"crlf">>
  BY DEF Sent
<1>1. done # <<>> /\ done # <<<<"run">>>> /\ done # <<<<"delete">>>>
  OBVIOUS
<1>2. PICK b \in Seq(Piece) :
        /\ done = <<<<"upload">> \o b>>
        /\ BodyOk(ask) /\ Len(Sent) = ask.length
        /\ ask.form = "none" => b = Sent
        /\ ask.form # "none" => Between(Sent, b)
  BY <1>1 DEF Stores
<1>3. Tail(done[i]) = b
  <2>1. done[i] = <<"upload">> \o b
    BY <1>2
  <2>2. Tail(<<"upload">> \o b) = b
    OBVIOUS
  <2> QED BY <2>1, <2>2
<1>4. ask.length < MAX_BODY
  BY <1>2 DEF BodyOk
<1>5. ASSUME NEW content \in Contained, ask.form # "none", Sent = Envelope(content)
      PROVE  b = content \o <<"crlf">>
  <2>1. content \in Seq(Piece)
    BY ContainedAssumption
  <2>2. Between(Envelope(content), b)
    BY <1>2, <1>5
  <2> QED BY <2>1, <2>2, EnvelopeBetween
<1> QED BY <1>2, <1>3, <1>4, <1>5

-----------------------------------------------------------------------------
(* How far a request has been received, for each situation of its exchange.*)

Shape ==
  /\ ex.state = "RS_IDLE" => received = Nothing
  /\ received.first <= Len(received.all)
  /\ ex.state = "RS_HEADERS_READ" =>
       /\ ask.line = "ok" /\ ask.fields = "ok" /\ BodyOk(ask)
       /\ ex.method = ask.method /\ ex.length = ask.length
       /\ \E k \in Nat : /\ 5 <= k /\ k <= Len(Text(ask))
                         /\ received.all = SubSeq(Text(ask), 1, k)
                         /\ todo = SubSeq(Text(ask), k + 1, Len(Text(ask)))
                         /\ ex.body = SubSeq(Text(ask), 6, k)
  /\ ex.state = "RS_READY" =>
       /\ ask.line = "ok"
       /\ \/ received.all = <<"start", "crlf">>
          \/ /\ ask.fields = "ok" /\ (BodyOk(ask) \/ NoBodyOk(ask))
             /\ \E k \in Nat : /\ k = 5 + BodyOf(ask) /\ k <= Len(Text(ask))
                               /\ received.all = SubSeq(Text(ask), 1, k)
                               /\ todo = SubSeq(Text(ask), k + 1, Len(Text(ask)))

(* One recv: of the text s of the request, of which what is between i and  *)
(* k was taken for this exchange, it takes the m tokens d.                 *)
Takes(s, i, k, m, d, x, y) ==
  /\ m >= 1 /\ i <= k /\ k + m <= Len(s) /\ s = Text(ask) /\ x = ex /\ y = ex'
  /\ received.all = SubSeq(s, i + 1, k) /\ todo = SubSeq(s, k + 1, Len(s))
  /\ received'.all = SubSeq(s, i + 1, k + m) /\ todo' = SubSeq(s, k + m + 1, Len(s))
  /\ received'.first = IF received.all = <<>> THEN m ELSE received.first
  /\ d = SubSeq(s, k + 1, k + m) /\ Len(d) = m /\ (\A j \in 1..m : d[j] = s[k + j])
  /\ (x.state = "RS_HEADERS_READ" => d \in Seq(Piece))
  /\ y \in process(x, d) /\ c_str(received'.all) = received'.all

LEMMA OneRecv ==
  ASSUME Textual, Inv, Receive
  PROVE  \E i, k, m \in Nat, s \in Seq(Token), d \in Seq(Token), x \in Typed, y \in Typed :
           /\ Takes(s, i, k, m, d, x, y)
           /\ Situation(x) /\ x.state # "RS_CLOSE" /\ Situation(y)
           /\ LET p == parse(With(x, d)) IN
              /\ p \in Typed /\ (Refused(p) \/ Midway(p) \/ Whole(p))
              /\ Midway(p) => y = p
              /\ Refused(p) => Closed(y) /\ y.errCode = p.errCode
              /\ Whole(p) => Closed(y) \/ Finished(y)
              /\ x.state = "RS_READY" => Refused(p) /\ p.errCode = 400
              /\ x.state # "RS_READY" => p.done = <<>>
              /\ ~Whole(p) => y.done = p.done
              /\ x.state = "RS_READY" => y.done = x.done
<1>1. PICK n \in DOMAIN todo :
        /\ received' = [first |-> IF received.all = <<>> THEN n ELSE received.first,
                        all |-> received.all \o SubSeq(todo, 1, n)]
        /\ todo' = After(todo, n + 1)
        /\ ex' \in process(ex, c_str(SubSeq(todo, 1, n)))
  BY DEF Receive
<1>2. PICK i \in Nat, k \in Nat, m \in Nat, s \in Seq(Token) :
        /\ n = m /\ m >= 1 /\ i <= k /\ k + m <= Len(s) /\ s = Text(ask)
        /\ received.all = SubSeq(s, i + 1, k) /\ todo = SubSeq(s, k + 1, Len(s))
        /\ received.all \o SubSeq(todo, 1, n) = SubSeq(s, i + 1, k + m)
        /\ c_str(SubSeq(todo, 1, n)) = SubSeq(s, k + 1, k + m)
        /\ ex.state = "RS_HEADERS_READ" => k >= 4
  BY Brought, Zenon
<1>3. ask \in Requests /\ ask \in Request /\ ex \in Typed /\ Situation(ex) /\ ex.state # "RS_CLOSE"
  BY Asked DEF Inv, Receive
<1>4. PICK x, y, d, p :
        /\ x = ex /\ y = ex' /\ d = c_str(SubSeq(todo, 1, n)) /\ p = parse(With(x, d))
  OBVIOUS
<1>5. /\ d \in Seq(Token)
      /\ \A j \in DOMAIN d : j >= 5 => d[j] \in Piece
      /\ ex.state = "RS_HEADERS_READ" => d \in Seq(Piece)
  <2>1. k + m <= Len(Text(ask)) /\ todo = SubSeq(Text(ask), k + 1, Len(Text(ask)))
        /\ d = c_str(SubSeq(todo, 1, m))
    BY <1>2, <1>4
  <2> QED BY <1>2, <1>3, <2>1, Received1
<1>6. Len(d) = m /\ \A j \in 1..m : d[j] = s[k + j]
  <2>1. d = SubSeq(s, k + 1, k + m) /\ k <= k + m /\ k + m <= Len(s) /\ k + m \in Nat /\ k + m - k = m
    BY <1>2, <1>4
  <2> QED BY <2>1, SliceIs
<1>7. d # <<>>
  BY <1>2, <1>6
<1>8. /\ p \in Typed /\ (Refused(p) \/ Midway(p) \/ Whole(p))
      /\ x.state # "RS_READY" => Unrouted(p)
      /\ x.state = "RS_READY" /\ d # <<>> => Refused(p) /\ p.errCode = 400 /\ p.done = x.done
  BY <1>3, <1>4, <1>5, Parses
<1>9. y \in process(x, d)
  BY <1>1, <1>4
<1>10. /\ y \in Typed /\ Situation(y)
       /\ Midway(p) => y = p
       /\ Refused(p) => Closed(y) /\ y.errCode = p.errCode /\ y.done = p.done
       /\ Whole(p) => Closed(y) \/ Finished(y)
  BY <1>4, <1>8, <1>9, ProcessSettles
<1>11. todo' = SubSeq(s, k + m + 1, Len(s))
  <2>1. After(SubSeq(s, k + 1, Len(s)), m + 1) = SubSeq(s, k + m + 1, Len(s))
    BY <1>2, Recv
  <2> QED BY <1>1, <1>2, <2>1
<1>12. received'.all = SubSeq(s, i + 1, k + m) /\ received'.first = IF received.all = <<>> THEN m ELSE received.first
  BY <1>1, <1>2
<1>13. c_str(received'.all) = received'.all
  <2>1. PICK n1 \in Nat : n1 = k + m - i /\ i + n1 = k + m
    BY <1>2
  <2>2. c_str(SubSeq(Text(ask), i + 1, i + n1)) = SubSeq(Text(ask), i + 1, i + n1)
    BY <1>2, <1>3, <2>1, Uncut
  <2> QED BY <1>2, <1>12, <2>1, <2>2
<1>14. Takes(s, i, k, m, d, x, y)
  BY <1>2, <1>4, <1>5, <1>6, <1>9, <1>11, <1>12, <1>13, Zenon DEF Takes
<1>15. /\ x.state # "RS_READY" => p.done = <<>>
       /\ ~Whole(p) => y.done = p.done
       /\ x.state = "RS_READY" => y.done = x.done
  <2>1. Unrouted(p) => p.done = <<>>
    BY DEF Unrouted
  <2> QED BY <1>7, <1>8, <1>10, <2>1
<1> QED BY <1>3, <1>4, <1>5, <1>7, <1>8, <1>10, <1>14, <1>15

CutAlike ==
  received'.first >= Len(HeadOf(ask)) =>
    \E e \in process(New, received'.all) : e.state = ex'.state /\ e.errCode = ex'.errCode

LEMMA States3 ==
  ASSUME NEW y
  PROVE  /\ Closed(y) => y.state = "RS_CLOSE"
         /\ Finished(y) => y.state = "RS_READY"
         /\ Midway(y) => y.state = "RS_HEADERS_READ" /\ y.length \in Nat /\ Len(y.body) < y.length
         /\ Refused(y) => y.state = "RS_CLOSE"
         /\ Whole(y) => y.state \in {"RS_NO_BODY", "RS_BODY_DONE"}
BY DEF Closed, Finished, Midway, Refused, Answered, Whole

LEMMA FirstRecv ==
  ASSUME Textual, Inv, Shape, Receive, ex.state = "RS_IDLE"
  PROVE  Shape' /\ CutAlike /\ Stores(ex'.done)
<1>1. PICK i \in Nat, k \in Nat, m \in Nat, s \in Seq(Token), d \in Seq(Token), x \in Typed,
           y \in Typed, p \in Typed :
           /\ Takes(s, i, k, m, d, x, y)
           /\ Situation(x) /\ x.state # "RS_CLOSE" /\ Situation(y)
           /\ p = parse(With(x, d)) /\ (Refused(p) \/ Midway(p) \/ Whole(p))
           /\ Midway(p) => y = p
           /\ Refused(p) => Closed(y) /\ y.errCode = p.errCode
           /\ Whole(p) => Closed(y) \/ Finished(y)
           /\ x.state # "RS_READY" => p.done = <<>>
           /\ ~Whole(p) => y.done = p.done
  BY OneRecv
<1>2. ask \in Request /\ ask' = ask
  BY Asked DEF Inv, Receive
<1>3. received = Nothing /\ received.all = <<>>
  BY DEF Shape, Nothing
<1>4. i = k
  <2>1. i <= k /\ k <= Len(s) /\ SubSeq(s, i + 1, k) = <<>>
    BY <1>1, <1>3, SMTT(30) DEF Takes
  <2>2. Len(SubSeq(s, i + 1, k)) = k - i
    BY <2>1, SliceIs
  <2>3. Len(SubSeq(s, i + 1, k)) = 0
    BY <2>1
  <2> QED BY <2>2, <2>3
<1>5. received'.all = d /\ received'.first = m /\ Len(d) = m /\ m >= 1 /\ x = ex /\ y = ex'
  BY <1>1, <1>3, <1>4 DEF Takes
<1>6. x = New
  BY <1>1, <1>5, States3 DEF Situation
<1>d. p.done = <<>> /\ (~Whole(p) => Stores(ex'.done))
  <2>1. x.state # "RS_READY"
    BY <1>6 DEF New
  <2> QED BY <1>1, <1>5, <2>1 DEF Stores
<1>e. y \in process(x, d)
  BY <1>1 DEF Takes
<1>7. CutAlike
  <2>1. y \in process(New, d)
    BY <1>1, <1>6 DEF Takes
  <2> QED BY <1>5, <2>1 DEF CutAlike
<1>8. y.state # "RS_IDLE"
  BY <1>1, States3
<1>9. received'.first <= Len(received'.all)
  BY <1>5
<1>10. CASE Refused(p)
  <2>1. y.state = "RS_CLOSE"
    BY <1>1, <1>10, States3
  <2>2. Stores(ex'.done)
    BY <1>d, <1>10, States3
  <2> QED BY <1>5, <1>7, <1>9, <2>1, <2>2 DEF Shape
<1>11. CASE ~Refused(p)
  <2>a. PICK w \in Typed : /\ w = With(New, d) /\ w.inBuf = d /\ w.state = "RS_IDLE" /\ w.errCode = 0
                           /\ Unrouted(w) /\ w.body = <<>> /\ w.length = None
    <3>1. New.inBuf = <<>> /\ New.state = "RS_IDLE" /\ New.errCode = 0 /\ New.body = <<>>
          /\ New.length = None
      BY DEF New
    <3> QED BY <3>1, NewIs, WithIs
  <2>b. s = Text(ask) /\ k + m <= Len(s) /\ \A j \in 1..m : d[j] = s[k + j]
    BY <1>1 DEF Takes
  <2>1. parse(w) = p
    BY <1>1, <1>6, <2>a
  <2>2. /\ k = 0 /\ ask.line = "ok"
        /\ \/ m = 2 /\ ~Midway(p) /\ p.length = None
           \/ /\ ask.fields = "ok" /\ m >= 5
              /\ \E z \in Typed : /\ p = Rest(z) /\ AtBody(z)
                                  /\ z.body = <<>> /\ z.inBuf = After(d, 6)
    <3>1. Len(d) = m /\ m >= 1 /\ ~Refused(parse(w))
      BY <1>5, <1>11, <2>1
    <3>2. s \in Seq(Token) /\ k + m <= Len(s) /\ d \in Seq(Token)
      BY <1>1, <2>b DEF Takes
    <3>3. FirstIs(w, k, m, d)
      <4> HIDE DEF FirstIs
      <4> QED BY <1>2, <2>a, <2>b, <3>1, <3>2, FirstShape
    <3> QED BY <2>1, <3>3 DEF FirstIs
  <2>3. d = SubSeq(s, 1, m) /\ todo' = SubSeq(s, m + 1, Len(s)) /\ m <= Len(s)
    BY <1>1, <2>2 DEF Takes
  <2>4. CASE m = 2 /\ ~Midway(p) /\ p.length = None
    <3>1. d = <<"start", "crlf">>
      <4>1. s[1] = "start" /\ s[2] = "crlf"
        BY <1>2, <2>2, <2>b, TextShape DEF Lined
      <4>2. d[1] = s[1] /\ d[2] = s[2]
        BY <2>2, <2>4, <2>b
      <4>3. PICK t : t = <<"start", "crlf">>
        OBVIOUS
      <4>4. t \in Seq(Token) /\ Len(t) = 2 /\ t[1] = "start" /\ t[2] = "crlf"
        BY <4>3 DEF Token, Piece
      <4>5. \A j \in 1..Len(t) : d[j] = t[j]
        BY <4>1, <4>2, <4>4
      <4>6. Len(d) = Len(t)
        BY <1>5, <2>4, <4>4
      <4> QED BY <4>3, <4>4, <4>5, <4>6, SeqEqual
    <3>2. y.state \in {"RS_CLOSE", "RS_READY"}
      BY <1>1, <1>11, <2>4, States3
    <3>3. ex'.state # "RS_HEADERS_READ" /\ ex'.state # "RS_IDLE"
      BY <1>5, <3>2
    <3>4. received'.all = <<"start", "crlf">> /\ ask'.line = "ok"
      BY <1>2, <1>5, <2>2, <3>1
    <3>5. Stores(ex'.done)
      BY <1>1, <1>5, <1>d, <1>e, <2>4, ProcessStores
    <3> QED BY <1>7, <1>9, <3>3, <3>4, <3>5 DEF Shape
  <2>5. CASE ~(m = 2 /\ ~Midway(p) /\ p.length = None)
    <3>1. ask.fields = "ok" /\ m >= 5 /\ ask.line = "ok"
      BY <2>2, <2>5
    <3>2. PICK z \in Typed :
           /\ p = Rest(z) /\ AtBody(z)
           /\ z.body = <<>> /\ z.inBuf = SubSeq(s, 6, m)
           /\ z.inBuf \in Seq(Piece) /\ Len(z.inBuf) = m - 5
      <4>1. 5 <= m /\ parse(With(New, SubSeq(s, 1, m))) = p
        BY <2>1, <2>3, <2>a, <3>1
      <4> QED BY <1>2, <2>3, <2>b, <3>1, <4>1, AtOnce
    <3>a. PICK got : got = Len(z.body) + Len(z.inBuf)
      OBVIOUS
    <3>3. got = m - 5 /\ z.length = ask.length
      BY <3>2, <3>a DEF AtBody
    <3>4. /\ ~BodyOk(ask) /\ ~NoBodyOk(ask) => Refused(p)
          /\ BodyOk(ask) =>
               /\ got < ask.length => p = Filled(z) /\ Midway(p)
               /\ got > ask.length => Refused(p)
               /\ got = ask.length =>
                    /\ p = IF ask.form = "none" THEN Done(z) ELSE handleBoundary(Done(z))
                    /\ Refused(p) \/ Whole(p)
          /\ NoBodyOk(ask) =>
               /\ z.inBuf = <<>> => p = NoBody(z) /\ Whole(p)
               /\ z.inBuf # <<>> => Refused(p)
      <4>1. z.length \in Nat => Len(z.body) <= z.length
        BY <3>2
      <4> QED BY <1>2, <3>2, <3>a, <4>1, BodyStep, ZenonT(40)
    <3>5. BodyOk(ask) => ask.length \in Nat
      BY DEF BodyOk
    <3>6. ~(Midway(p) /\ Whole(p))
      BY States3
    <3>7. CASE Midway(p)
      <4>1. BodyOk(ask) /\ got < ask.length
        BY <1>11, <3>3, <3>4, <3>5, <3>6, <3>7
      <4>2. p = Filled(z)
        BY <3>4, <4>1
      <4>3. /\ p.body = z.body \o z.inBuf /\ p.method = z.method /\ p.length = z.length
        BY <3>2, <4>2, FilledIs
      <4>4. p.body = SubSeq(s, 6, m) /\ p.method = ask.method /\ p.length = ask.length
        <5>1. <<>> \o z.inBuf = z.inBuf
          BY <3>2
        <5> QED BY <3>2, <4>3, <5>1 DEF AtBody
      <4>5. ex' = p /\ p.state = "RS_HEADERS_READ"
        BY <1>1, <1>5, <3>7, States3
      <4>6. \E q \in Nat : /\ 5 <= q /\ q <= Len(Text(ask'))
                           /\ received'.all = SubSeq(Text(ask'), 1, q)
                           /\ todo' = SubSeq(Text(ask'), q + 1, Len(Text(ask')))
                           /\ ex'.body = SubSeq(Text(ask'), 6, q)
        BY <1>2, <1>5, <2>3, <2>b, <3>1, <4>4, <4>5
      <4>7. /\ ask'.line = "ok" /\ ask'.fields = "ok" /\ BodyOk(ask')
            /\ ex'.method = ask'.method /\ ex'.length = ask'.length
        BY <1>2, <3>1, <4>1, <4>4, <4>5
      <4>8. ex'.state # "RS_IDLE" /\ ex'.state # "RS_READY"
        BY <4>5
      <4>9. Stores(ex'.done)
        BY <1>d, <3>6, <3>7
      <4> QED BY <1>7, <1>9, <4>6, <4>7, <4>8, <4>9 DEF Shape
    <3>8. CASE Whole(p)
      <4>1. (BodyOk(ask) /\ got = ask.length) \/ (NoBodyOk(ask) /\ z.inBuf = <<>>)
        BY <1>11, <3>3, <3>4, <3>5, <3>6, <3>8
      <4>2. m = 5 + BodyOf(ask)
        <5>1. CASE BodyOk(ask) /\ got = ask.length
          BY <3>1, <3>3, <3>5, <5>1 DEF BodyOf, None
        <5>2. CASE NoBodyOk(ask) /\ z.inBuf = <<>>
          BY <3>1, <3>2, <5>2 DEF BodyOf, NoBodyOk
        <5> QED BY <4>1, <5>1, <5>2
      <4>3. ex'.state \in {"RS_CLOSE", "RS_READY"}
        BY <1>1, <1>5, <3>8, States3
      <4>4. \E q \in Nat : /\ q = 5 + BodyOf(ask') /\ q <= Len(Text(ask'))
                           /\ received'.all = SubSeq(Text(ask'), 1, q)
                           /\ todo' = SubSeq(Text(ask'), q + 1, Len(Text(ask')))
        BY <1>2, <1>5, <2>3, <2>b, <4>2
      <4>5. ask'.line = "ok" /\ ask'.fields = "ok" /\ (BodyOk(ask') \/ NoBodyOk(ask'))
        BY <1>2, <3>1, <4>1
      <4>6. ex'.state # "RS_IDLE" /\ ex'.state # "RS_HEADERS_READ"
        BY <4>3
      <4>7. Stores(ex'.done)
        <5>1. CASE BodyOk(ask) /\ got = ask.length
          <6>1. Headlined(ask)
            BY <3>1 DEF Headlined, Lined
          <6>2. m = 5 + ask.length
            BY <3>1, <3>3, <3>5, <5>1
          <6>3. 5 + ask.length <= Len(Text(ask))
            BY <2>3, <2>b, <6>2
          <6>4. z.body \o z.inBuf = SubSeq(Text(ask), 6, 5 + ask.length)
            <7>1. <<>> \o z.inBuf = z.inBuf
              BY <3>2
            <7> QED BY <2>b, <3>2, <6>2, <7>1
          <6>5. p = IF ask.form = "none" THEN Done(z) ELSE handleBoundary(Done(z))
            BY <3>4, <5>1
          <6>6. Stores(y.done)
            BY <1>1, <1>2, <1>d, <1>e, <3>2, <3>8, <5>1, <6>1, <6>3, <6>4, <6>5, BodyStored
          <6> QED BY <1>5, <6>6
        <5>2. CASE NoBodyOk(ask) /\ z.inBuf = <<>>
          <6>1. p = NoBody(z) /\ z.length = None
            BY <3>3, <3>4, <5>2 DEF NoBodyOk
          <6>2. p.length = None
            BY <6>1, NoBodyIs
          <6> QED BY <1>1, <1>5, <1>d, <1>e, <3>8, <6>2, ProcessStores
        <5> QED BY <4>1, <5>1, <5>2
      <4> QED BY <1>7, <1>9, <4>4, <4>5, <4>6, <4>7 DEF Shape
    <3> QED BY <1>1, <1>11, <3>7, <3>8
  <2> QED BY <2>4, <2>5
<1> QED BY <1>10, <1>11

(* More of a body: what comes of it is what comes of all of it at once.    *)
LEMMA MoreRecv ==
  ASSUME Textual, Inv, Shape, Receive, ex.state = "RS_HEADERS_READ"
  PROVE  Shape' /\ CutAlike /\ Stores(ex'.done)
<1>1. PICK i \in Nat, j \in Nat, m \in Nat, s \in Seq(Token), d \in Seq(Token), x \in Typed,
           y \in Typed, p \in Typed :
           /\ Takes(s, i, j, m, d, x, y)
           /\ Situation(x) /\ x.state # "RS_CLOSE" /\ Situation(y)
           /\ p = parse(With(x, d)) /\ (Refused(p) \/ Midway(p) \/ Whole(p))
           /\ Midway(p) => y = p
           /\ Refused(p) => Closed(y) /\ y.errCode = p.errCode
           /\ Whole(p) => Closed(y) \/ Finished(y)
           /\ x.state # "RS_READY" => p.done = <<>>
           /\ ~Whole(p) => y.done = p.done
  BY OneRecv
<1>2. ask \in Request /\ ask' = ask
  BY Asked DEF Inv, Receive
<1>3. /\ x = ex /\ y = ex' /\ s = Text(ask) /\ m >= 1 /\ d \in Seq(Piece) /\ Len(d) = m
      /\ x.state = "RS_HEADERS_READ"
  BY <1>1 DEF Takes
<1>4. /\ ask.line = "ok" /\ ask.fields = "ok" /\ BodyOk(ask) /\ ask.length \in Nat
      /\ x.method = ask.method /\ x.length = ask.length
  BY <1>3 DEF Shape, BodyOk
<1>5. Midway(x)
  <2>1. x # New
    <3>1. New.state = "RS_IDLE"
      BY DEF New
    <3> QED BY <1>3, <3>1
  <2> QED BY <1>1, <1>3, <2>1, States3 DEF Situation
<1>6. PICK k \in Nat : /\ 5 <= k /\ k <= Len(s)
                       /\ received.all = SubSeq(s, 1, k) /\ todo = SubSeq(s, k + 1, Len(s))
                       /\ x.body = SubSeq(s, 6, k)
  BY <1>3 DEF Shape
<1>7. j = k /\ i = 0
  <2>1. /\ i <= j /\ j <= Len(s) /\ todo = SubSeq(s, j + 1, Len(s))
        /\ received.all = SubSeq(s, i + 1, j)
    BY <1>1 DEF Takes
  <2>a. PICK z \in Nat : z = 0
    OBVIOUS
  <2>2. Len(SubSeq(s, j + 1, Len(s))) = Len(s) - j /\ Len(SubSeq(s, k + 1, Len(s))) = Len(s) - k
    BY <1>6, <2>1, SliceIs, SMTT(30)
  <2>3. Len(SubSeq(s, i + 1, j)) = j - i
    BY <2>1, SliceIs
  <2>4. Len(SubSeq(s, z + 1, k)) = k - z
    <3>1. z <= k
      BY <2>a
    <3> QED BY <1>6, <3>1, SliceIs
  <2>5. Len(s) - j = Len(s) - k
    BY <1>6, <2>1, <2>2
  <2>6. j - i = k - z
    BY <1>6, <2>a, <2>1, <2>3, <2>4
  <2> QED BY <2>1, <2>5, <2>6, <2>a
<1>a. PICK n \in Nat : n = k + m
  OBVIOUS
<1>8. /\ n <= Len(s) /\ received'.all = SubSeq(s, 1, n) /\ todo' = SubSeq(s, n + 1, Len(s))
      /\ d = SubSeq(s, k + 1, n) /\ y \in process(x, d)
  <2>1. /\ k + m <= Len(s) /\ received'.all = SubSeq(s, 0 + 1, k + m)
        /\ todo' = SubSeq(s, k + m + 1, Len(s)) /\ d = SubSeq(s, k + 1, k + m) /\ y \in process(x, d)
    BY <1>1, <1>7 DEF Takes
  <2> QED BY <1>a, <2>1
<1>9. received'.first <= Len(received'.all)
  <2>a. PICK z \in Nat : z = 0
    OBVIOUS
  <2>1. z <= k /\ z <= n /\ k <= Len(s) /\ n <= Len(s)
    BY <1>6, <1>8, <2>a
  <2>2. Len(SubSeq(s, z + 1, k)) = k - z /\ Len(SubSeq(s, z + 1, n)) = n - z
    BY <2>1, SliceIs
  <2>3. Len(received.all) = k /\ Len(received'.all) = n
    BY <1>6, <1>8, <2>a, <2>2
  <2>4. received'.first = received.first
    <3>1. received.all # <<>>
      <4>1. Len(<<>>) = 0 /\ Len(received.all) # 0
        BY <1>6, <2>3
      <4> QED BY <4>1
    <3> QED BY <1>1, <3>1 DEF Takes
  <2>5. received.first <= Len(received.all) /\ received.first \in Nat
    BY DEF Shape, Inv
  <2> QED BY <1>a, <2>3, <2>4, <2>5
<1>b. PICK w \in Typed : /\ w = With(x, d) /\ w.inBuf = d /\ w.state = x.state /\ w.errCode = x.errCode
                         /\ w.body = x.body /\ w.length = x.length /\ w.method = x.method /\ Unrouted(w)
  <2>1. x.inBuf = <<>> /\ Unrouted(x)
    BY <1>5 DEF Midway
  <2> QED BY <2>1, WithIs
<1>10. AtBody(w)
  BY <1>b, <1>3, <1>4, <1>5 DEF AtBody, Midway
<1>11. p = Rest(w)
  <2>1. Started(w) = w /\ Headed(w) = w
    BY <1>b, <1>3 DEF Started, Headed
  <2> QED BY <1>1, <1>b, <2>1, ParseIs
<1>12. PICK z \in Typed :
           /\ parse(With(New, SubSeq(s, 1, n))) = Rest(z) /\ AtBody(z)
           /\ z.body = <<>> /\ z.inBuf = SubSeq(s, 6, n)
           /\ z.inBuf \in Seq(Piece) /\ Len(z.inBuf) = n - 5
  <2>1. 5 <= n
    BY <1>a, <1>6
  <2> QED BY <1>2, <1>3, <1>4, <1>8, <2>1, AtOnce
<1>13. /\ w.body \o w.inBuf = SubSeq(s, 6, n) /\ Len(w.body) = k - 5
  <2>a. PICK f \in Nat : f = 5
    OBVIOUS
  <2>1. f <= k /\ k + m <= Len(s) /\ k <= Len(s)
    BY <1>a, <1>6, <1>8, <2>a
  <2>2. /\ SubSeq(s, f + 1, k) \o SubSeq(SubSeq(s, k + 1, Len(s)), 1, m) = SubSeq(s, f + 1, k + m)
        /\ SubSeq(SubSeq(s, k + 1, Len(s)), 1, m) = SubSeq(s, k + 1, k + m)
    BY <2>1, Recv
  <2>3. Len(SubSeq(s, f + 1, k)) = k - f
    BY <2>1, SliceIs
  <2>4. f + 1 = 6
    BY <2>a
  <2> QED BY <1>a, <1>b, <1>6, <1>8, <2>a, <2>2, <2>3, <2>4
<1>c. PICK gotw, gotz, q : /\ gotw = Len(w.body) + Len(w.inBuf) /\ gotz = Len(z.body) + Len(z.inBuf)
                           /\ q = Rest(z)
  OBVIOUS
<1>14. gotw = n - 5 /\ gotz = n - 5
  BY <1>a, <1>b, <1>c, <1>3, <1>6, <1>12, <1>13
<1>15. /\ gotw < ask.length => p = Filled(w) /\ Midway(p)
       /\ gotw > ask.length => Refused(p) /\ p.errCode = 400
       /\ gotw = ask.length =>
            /\ p = IF ask.form = "none" THEN Done(w) ELSE handleBoundary(Done(w))
            /\ Refused(p) \/ Whole(p)
  <2>1. w.inBuf \in Seq(Piece)
    BY <1>b, <1>3
  <2>2. w.length \in Nat => Len(w.body) <= w.length
    BY <1>b, <1>5, <1>13, <1>6 DEF Midway
  <2> QED BY <1>2, <1>4, <1>10, <1>11, <1>c, <2>1, <2>2, BodyStep, ZenonT(40)
<1>16. /\ q \in Typed
       /\ gotz < ask.length => q = Filled(z)
       /\ gotz > ask.length => Refused(q) /\ q.errCode = 400
       /\ gotz = ask.length => q = IF ask.form = "none" THEN Done(z) ELSE handleBoundary(Done(z))
  <2>1. z.length \in Nat => Len(z.body) <= z.length
    BY <1>12
  <2> QED BY <1>2, <1>4, <1>12, <1>c, <2>1, BodyStep, ZenonT(40)
<1>17. Filled(w) = Filled(z) /\ Done(w) = Done(z)
  <2>1. <<>> \o z.inBuf = z.inBuf
    BY <1>12
  <2>2. w.body \o w.inBuf = z.body \o z.inBuf /\ w.inBuf \in Seq(Piece)
    BY <1>b, <1>3, <1>12, <1>13, <2>1
  <2> QED BY <1>10, <1>12, <2>2, SameFilled
<1>18. gotw <= ask.length => p = q
  BY <1>4, <1>14, <1>15, <1>16, <1>17
<1>19. \E e \in process(New, SubSeq(s, 1, n)) : e.state = y.state /\ e.errCode = y.errCode
  <2>1. q = parse(With(New, SubSeq(s, 1, n)))
    BY <1>12, <1>c
  <2>2. CASE p = q
    <3>1. parse(With(x, d)) = parse(With(New, SubSeq(s, 1, n)))
      BY <1>1, <2>1, <2>2
    <3>2. process(x, d) = process(New, SubSeq(s, 1, n))
      BY <3>1, ProcessIs
    <3> QED BY <1>8, <3>2
  <2>3. CASE gotw > ask.length
    <3>1. Refused(p) /\ p.errCode = 400 /\ Refused(q) /\ q.errCode = 400
      BY <1>14, <1>15, <1>16, <2>3
    <3>2. y.state = "RS_CLOSE" /\ y.errCode = 400
      BY <1>1, <3>1, States3
    <3>3. \E e \in process(New, SubSeq(s, 1, n)) : e.state = "RS_CLOSE" /\ e.errCode = q.errCode
      BY <1>16, <2>1, <3>1, ProcessClosed
    <3> QED BY <3>1, <3>2, <3>3
  <2>4. gotw <= ask.length \/ gotw > ask.length
    BY <1>4, <1>14
  <2> QED BY <1>18, <2>2, <2>3, <2>4
<1>20. CutAlike
  BY <1>3, <1>8, <1>19 DEF CutAlike
<1>21. ~(Midway(p) /\ Whole(p)) /\ ~(Midway(p) /\ Refused(p)) /\ ~(Whole(p) /\ Refused(p))
  BY States3
<1>d. p.done = <<>> /\ (~Whole(p) => Stores(ex'.done))
  BY <1>1, <1>3 DEF Stores
<1>22. CASE Refused(p)
  <2>1. ex'.state = "RS_CLOSE"
    BY <1>1, <1>3, <1>22, States3
  <2>2. Stores(ex'.done)
    BY <1>d, <1>21, <1>22
  <2> QED BY <1>9, <1>20, <2>1, <2>2 DEF Shape
<1>23. CASE Midway(p)
  <2>1. p = Filled(w)
    BY <1>4, <1>14, <1>15, <1>21, <1>23
  <2>2. p.body = w.body \o w.inBuf /\ p.method = w.method /\ p.length = w.length
    BY <1>b, <1>3, <2>1, FilledIs
  <2>3. p.body = SubSeq(s, 6, n) /\ p.method = ask.method /\ p.length = ask.length
    BY <1>b, <1>4, <1>13, <2>2
  <2>4. ex' = p /\ p.state = "RS_HEADERS_READ"
    BY <1>1, <1>3, <1>23, States3
  <2>5. \E r \in Nat : /\ 5 <= r /\ r <= Len(Text(ask'))
                       /\ received'.all = SubSeq(Text(ask'), 1, r)
                       /\ todo' = SubSeq(Text(ask'), r + 1, Len(Text(ask')))
                       /\ ex'.body = SubSeq(Text(ask'), 6, r)
    <3>1. 5 <= n
      BY <1>a, <1>6
    <3> QED BY <1>2, <1>3, <1>8, <2>3, <2>4, <3>1
  <2>6. /\ ask'.line = "ok" /\ ask'.fields = "ok" /\ BodyOk(ask')
        /\ ex'.method = ask'.method /\ ex'.length = ask'.length
    BY <1>2, <1>4, <2>3, <2>4
  <2>7. ex'.state # "RS_IDLE" /\ ex'.state # "RS_READY"
    BY <2>4
  <2>8. Stores(ex'.done)
    BY <1>d, <1>21, <1>23
  <2> QED BY <1>9, <1>20, <2>5, <2>6, <2>7, <2>8 DEF Shape
<1>24. CASE Whole(p)
  <2>1. gotw = ask.length
    BY <1>4, <1>14, <1>15, <1>21, <1>24
  <2>2. n = 5 + BodyOf(ask)
    BY <1>a, <1>4, <1>14, <2>1 DEF BodyOf, None
  <2>3. ex'.state \in {"RS_CLOSE", "RS_READY"}
    BY <1>1, <1>3, <1>24, States3
  <2>4. \E r \in Nat : /\ r = 5 + BodyOf(ask') /\ r <= Len(Text(ask'))
                       /\ received'.all = SubSeq(Text(ask'), 1, r)
                       /\ todo' = SubSeq(Text(ask'), r + 1, Len(Text(ask')))
    BY <1>2, <1>3, <1>8, <2>2
  <2>5. ask'.line = "ok" /\ ask'.fields = "ok" /\ (BodyOk(ask') \/ NoBodyOk(ask'))
    BY <1>2, <1>4
  <2>6. ex'.state # "RS_IDLE" /\ ex'.state # "RS_HEADERS_READ"
    BY <2>3
  <2>7. Stores(ex'.done)
    <3>1. Headlined(ask)
      BY <1>4 DEF Headlined, Lined
    <3>2. n = 5 + ask.length
      BY <1>4, <1>14, <2>1
    <3>3. 5 + ask.length <= Len(Text(ask))
      BY <1>3, <1>8, <3>2
    <3>4. w.body \o w.inBuf = SubSeq(Text(ask), 6, 5 + ask.length)
      BY <1>3, <1>13, <3>2
    <3>5. p = IF ask.form = "none" THEN Done(w) ELSE handleBoundary(Done(w))
      BY <1>15, <2>1
    <3>6. w.inBuf \in Seq(Piece)
      BY <1>b, <1>3
    <3>7. Stores(y.done)
      BY <1>1, <1>2, <1>4, <1>8, <1>d, <1>24, <3>1, <3>3, <3>4, <3>5, <3>6, BodyStored
    <3> QED BY <1>3, <3>7
  <2> QED BY <1>9, <1>20, <2>4, <2>5, <2>6, <2>7 DEF Shape
<1> QED BY <1>1, <1>22, <1>23, <1>24

(* More bytes before the answer of a request was sent.                     *)
LEMMA LateRecv ==
  ASSUME Textual, Inv, Shape, Receive, ex.state = "RS_READY"
  PROVE  Shape' /\ CutAlike /\ ex'.done = ex.done
<1>1. PICK i \in Nat, j \in Nat, m \in Nat, s \in Seq(Token), d \in Seq(Token), x \in Typed,
           y \in Typed, p \in Typed :
           /\ Takes(s, i, j, m, d, x, y)
           /\ p = parse(With(x, d))
           /\ Refused(p) => Closed(y) /\ y.errCode = p.errCode
           /\ x.state = "RS_READY" => Refused(p) /\ p.errCode = 400 /\ y.done = x.done
  BY OneRecv
<1>2. ask \in Request /\ ask' = ask
  BY Asked DEF Inv, Receive
<1>3. /\ x = ex /\ y = ex' /\ s = Text(ask) /\ m >= 1 /\ i <= j /\ j + m <= Len(s)
      /\ received.all = SubSeq(s, i + 1, j) /\ received'.all = SubSeq(s, i + 1, j + m)
      /\ todo = SubSeq(s, j + 1, Len(s))
      /\ received'.first = IF received.all = <<>> THEN m ELSE received.first
  BY <1>1 DEF Takes
<1>4. ex'.state = "RS_CLOSE" /\ ex'.errCode = 400
  BY <1>1, <1>3, States3
<1>5. ask.line = "ok" /\ Lined(ask)
  BY DEF Shape, Lined
<1>6. Len(received.all) = j - i /\ Len(received'.all) = j + m - i
  <2>1. j <= Len(s) /\ i <= j + m /\ j + m \in Nat
    BY <1>3
  <2>2. Len(SubSeq(s, i + 1, j)) = j - i
    BY <1>3, <2>1, SliceIs
  <2>3. Len(SubSeq(s, i + 1, j + m)) = j + m - i
    BY <1>3, <2>1, SliceIs
  <2> QED BY <1>3, <2>2, <2>3
<1>7. received.first \in Nat /\ received.first <= j - i
  BY <1>6 DEF Shape, Inv
<1>8. received'.first <= Len(received'.all)
  <2>1. CASE received.all = <<>>
    BY <1>3, <1>6, <2>1
  <2>2. CASE received.all # <<>>
    BY <1>3, <1>6, <1>7, <2>2
  <2> QED BY <2>1, <2>2
<1>9. CutAlike
  <2> SUFFICES ASSUME received'.first >= Len(HeadOf(ask))
               PROVE  \E e \in process(New, received'.all) : e.state = "RS_CLOSE" /\ e.errCode = 400
    BY <1>4 DEF CutAlike
  <2>1. CASE received.all = <<"start", "crlf">>
    <3>a. PICK h : h = Len(HeadOf(ask))
      OBVIOUS
    <3>1. h >= 3
      BY <1>2, <1>5, <3>a, HeadIs
    <3>2. Len(<<"start", "crlf">>) = 2
      OBVIOUS
    <3>3. received.all # <<>> /\ Len(received.all) = 2
      <4>1. Len(<<>>) = 0
        OBVIOUS
      <4> QED BY <2>1, <3>2, <4>1
    <3>4. received'.first = received.first /\ received.first <= 2
      BY <1>3, <1>6, <1>7, <3>3
    <3>5. h \in Int
      <4>1. [ask EXCEPT !.body = <<>>] \in Request
        <5>1. <<>> \in Seq(Piece)
          OBVIOUS
        <5> QED BY <1>2, <5>1, Zenon DEF Request
      <4>2. HeadOf(ask) \in Seq(Token)
        BY <4>1, TextIs DEF HeadOf
      <4> QED BY <3>a, <4>2
    <3>6. received'.first >= h
      BY <3>a
    <3> QED BY <1>7, <3>1, <3>4, <3>5, <3>6
  <2>2. CASE received.all # <<"start", "crlf">>
    <3>1. ask.fields = "ok" /\ (BodyOk(ask) \/ NoBodyOk(ask))
      BY <2>2 DEF Shape
    <3>2. PICK k \in Nat : /\ k = 5 + BodyOf(ask) /\ k <= Len(s)
                           /\ received.all = SubSeq(s, 1, k)
                           /\ todo = SubSeq(s, k + 1, Len(s))
      BY <1>3, <2>2 DEF Shape
    <3>3. j = k
      <4>1. j <= Len(s) /\ Len(s) <= Len(s)
        BY <1>3
      <4>2. Len(SubSeq(s, j + 1, Len(s))) = Len(s) - j
        BY <4>1, SliceIs
      <4>3. Len(SubSeq(s, k + 1, Len(s))) = Len(s) - k
        BY <3>2, SliceIs
      <4>4. Len(s) - j = Len(s) - k
        BY <1>3, <3>2, <4>2, <4>3
      <4> QED BY <4>4
    <3>4. i = 0
      <4>a. PICK z \in Nat : z = 0
        OBVIOUS
      <4>1. Len(SubSeq(s, z + 1, k)) = k - z
        <5>1. z <= k
          BY <3>2, <4>a
        <5> QED BY <3>2, <5>1, SliceIs
      <4>2. Len(received.all) = k
        BY <3>2, <4>a, <4>1
      <4> QED BY <1>6, <3>3, <4>2
    <3>a. PICK n \in Nat : n = k + m
      BY <3>2
    <3>5. n <= Len(s) /\ received'.all = SubSeq(s, 1, n) /\ 5 <= n
      <4>1. received'.all = SubSeq(s, 0 + 1, k + m)
        BY <1>3, <3>3, <3>4
      <4>2. PICK b : b = BodyOf(ask)
        OBVIOUS
      <4>3. b \in Nat
        BY <3>1, <4>2 DEF BodyOf, BodyOk, NoBodyOk
      <4>4. k = 5 + b
        BY <3>2, <4>2
      <4>5. 5 <= n
        BY <3>a, <4>3, <4>4
      <4>6. n <= Len(s)
        BY <1>3, <3>3, <3>a
      <4>7. received'.all = SubSeq(s, 1, n)
        BY <3>a, <4>1
      <4> QED BY <4>5, <4>6, <4>7
    <3>6. PICK z \in Typed :
           /\ parse(With(New, SubSeq(s, 1, n))) = Rest(z) /\ AtBody(z)
           /\ z.body = <<>> /\ z.inBuf = SubSeq(s, 6, n)
           /\ z.inBuf \in Seq(Piece) /\ Len(z.inBuf) = n - 5
      BY <1>2, <1>3, <1>5, <3>1, <3>5, AtOnce
    <3>b. PICK got, q : got = Len(z.body) + Len(z.inBuf) /\ q = Rest(z)
      OBVIOUS
    <3>7. z.length \in Nat => Len(z.body) <= z.length
      BY <3>6
    <3>8. /\ q \in Typed
          /\ BodyOk(ask) =>
               /\ got < ask.length => q = Filled(z)
               /\ got > ask.length => Refused(q) /\ q.errCode = 400
          /\ NoBodyOk(ask) =>
               /\ z.inBuf = <<>> => q = NoBody(z)
               /\ z.inBuf # <<>> => Refused(q) /\ q.errCode = 400
      <4>1. /\ q \in Typed
            /\ BodyOk(ask) =>
                 /\ got < ask.length => q = Filled(z)
                 /\ got > ask.length => Refused(q) /\ q.errCode = 400
        BY <1>2, <3>6, <3>7, <3>b, BodyStep, ZenonT(40)
      <4>2. NoBodyOk(ask) =>
              /\ z.inBuf = <<>> => q = NoBody(z)
              /\ z.inBuf # <<>> => Refused(q) /\ q.errCode = 400
        BY <1>2, <3>6, <3>7, <3>b, BodyStep, ZenonT(40)
      <4> QED BY <4>1, <4>2
    <3>9. Refused(q) /\ q.errCode = 400
      <4>1. CASE BodyOk(ask)
        <5>1. ask.length \in Nat /\ BodyOf(ask) = ask.length
          BY <4>1 DEF BodyOk, BodyOf, None
        <5>2. got = n - 5
          BY <3>6, <3>b
        <5>3. PICK l \in Nat : l = ask.length
          BY <5>1
        <5>4. k = 5 + l /\ m >= 1
          BY <1>3, <3>2, <5>1, <5>3
        <5>5. got > l
          BY <3>a, <5>2, <5>4
        <5> QED BY <3>8, <4>1, <5>3, <5>5
      <4>2. CASE NoBodyOk(ask)
        <5>1. BodyOf(ask) = 0
          BY <4>2 DEF NoBodyOk, BodyOf
        <5>2. Len(z.inBuf) # 0
          <6>1. k = 5
            BY <3>2, <5>1
          <6>2. Len(z.inBuf) = n - 5
            BY <3>6
          <6> QED BY <1>3, <3>a, <6>1, <6>2
        <5>3. z.inBuf # <<>>
          BY <5>2
        <5> QED BY <3>8, <4>2, <5>3
      <4> QED BY <3>1, <4>1, <4>2
    <3>10. q = parse(With(New, SubSeq(s, 1, n)))
      BY <3>6, <3>b
    <3>11. \E e \in process(New, SubSeq(s, 1, n)) : e.state = "RS_CLOSE" /\ e.errCode = q.errCode
      BY <3>8, <3>9, <3>10, ProcessClosed
    <3> QED BY <3>5, <3>9, <3>11
  <2> QED BY <2>1, <2>2
<1>10. ex'.done = ex.done
  BY <1>1, <1>3
<1> QED BY <1>4, <1>8, <1>9, <1>10 DEF Shape

-----------------------------------------------------------------------------
(* What the same bytes come to after a step that keeps the request.        *)

LEMMA SameStart == ASSUME ask' = ask PROVE \A x : parseStartLine(x)' = parseStartLine(x)
BY DEF parseStartLine

LEMMA SameHeaders == ASSUME ask' = ask PROVE \A x : parseHeaders(x)' = parseHeaders(x)
BY DEF parseHeaders

LEMMA SameBoundary == ASSUME ask' = ask PROVE \A x : handleBoundary(x)' = handleBoundary(x)
BY DEF handleBoundary

LEMMA SameTake == ASSUME ask' = ask PROVE \A x : TakeBody(x)' = TakeBody(x)
BY SameBoundary DEF TakeBody

LEMMA SameBody == ASSUME ask' = ask PROVE \A x : parseBody(x)' = parseBody(x)
BY SameTake DEF parseBody

LEMMA ParseThen == (\A y : parse(y) = Rest(Headed(Started(y))))'
BY DEF parse, Rest, Headed, Started, NoBody

LEMMA SameParse == ASSUME ask' = ask PROVE \A x : parse(x)' = parse(x)
<1> TAKE x
<1>1. \A y : Started(y)' = Started(y)
  BY SameStart DEF Started
<1>2. \A y : Headed(y)' = Headed(y)
  BY SameHeaders DEF Headed
<1>3. \A y : Rest(y)' = Rest(y)
  <2> TAKE y
  <2>1. parseBody(y)' = parseBody(y)
    BY SameBody
  <2> QED BY <2>1 DEF Rest
<1>a. PICK a : a = Started(x)
  OBVIOUS
<1>b. PICK b : b = Headed(a)
  OBVIOUS
<1>4. parse(x)' = Rest(b)'
  <2>1. Started(x)' = a /\ Headed(a)' = b
    BY <1>1, <1>2, <1>a, <1>b
  <2>2. (\A y : parse(y) = Rest(Headed(Started(y))))'
    BY ParseThen
  <2>3. (Started(x) = a /\ Headed(a) = b /\ parse(x) = Rest(Headed(Started(x))) => parse(x) = Rest(b))'
    <3>1. Started(x) = a /\ Headed(a) = b /\ parse(x) = Rest(Headed(Started(x))) => parse(x) = Rest(b)
      OBVIOUS
    <3> QED BY <2>1, <2>2
  <2> QED BY <2>1, <2>2, <2>3
<1> QED BY <1>3, <1>4, <1>a, <1>b, ParseIs

LEMMA SameValid == ASSUME ask' = ask PROVE \A x : validateRequest(x)' = validateRequest(x)
BY DEF validateRequest

LEMMA SameRoute == ASSUME ask' = ask PROVE \A x : route(x)' = route(x)
<1> TAKE x
<1>1. validateRequest(x)' = validateRequest(x)
  BY SameValid
<1> QED BY <1>1 DEF route

LEMMA SameProcess == ASSUME ask' = ask PROVE \A x, d : process(x, d)' = process(x, d)
BY SameParse, SameRoute, SMTT(30) DEF process

-----------------------------------------------------------------------------

(* A recv, whatever the exchange waits for.                                *)
LEMMA AnyRecv ==
  ASSUME Textual, Inv, Shape, Receive
  PROVE  Shape' /\ CutAlike /\ (Stores(ex'.done) \/ ex'.done = ex.done)
<1>1. ex.state \in {"RS_IDLE", "RS_HEADERS_READ", "RS_READY"}
  BY DEF Receive
<1> QED BY <1>1, FirstRecv, MoreRecv, LateRecv

LEMMA NewShape == received = Nothing /\ ex = New => Shape
<1>1. New.state = "RS_IDLE"
  BY DEF New
<1>2. Nothing.first <= Len(Nothing.all)
  <2>1. Nothing.first = 0 /\ Nothing.all = <<>>
    BY DEF Nothing
  <2>2. Len(<<>>) = 0
    OBVIOUS
  <2> QED BY <2>1, <2>2
<1> QED BY <1>1, <1>2 DEF Shape

LEMMA NewShapeThen == (received = Nothing /\ ex = New => Shape)'
BY NewShape, PTL

LEMMA ShapeNext == ASSUME Inv, Textual => Shape, [Next]_vars PROVE (Textual => Shape)'
<1>0. ASSUME ask' = ask PROVE Textual' <=> Textual
  BY <1>0 DEF Textual, Nuls
<1>1. CASE Receive
  BY <1>0, <1>1, AnyRecv DEF Receive
<1>2. CASE Clear_exchange
  BY <1>2, NewShapeThen DEF Clear_exchange, Nothing, New
<1>3. CASE NextRequest
  BY <1>3, NewShapeThen DEF NextRequest, Nothing, New
<1>4. CASE UNCHANGED vars
  <2>1. Shape => Shape'
    BY <1>4 DEF vars, Shape, Text, BodyOk, NoBodyOk, BodyOf
  <2> QED BY <1>0, <1>4, <2>1 DEF vars
<1> QED BY <1>1, <1>2, <1>3, <1>4 DEF Next

(* How far every request without NUL has been received.                    *)
LEMMA Shaped == Spec => [](Textual => Shape)
<1>1. Init => (Textual => Shape)
  BY NewShape DEF Init
<1>2. Inv /\ (Textual => Shape) /\ [Next]_vars => (Textual => Shape)'
  BY ShapeNext
<1> QED BY <1>1, <1>2, Invariant, PTL DEF Spec

(* A request is served when exactly it has been received, as much of a     *)
(* body as Content-Length announces and nothing more, or when a recv ended *)
(* with its start line (Parser.cpp 17-50, 191-205), however it is cut.     *)
THEOREM ServesWhole == Spec => []ServedWhole
<1>1. Inv /\ (Textual => Shape) => ServedWhole
  <2> SUFFICES ASSUME Inv, Shape, ex.state = "RS_READY", received.all # <<"start", "crlf">>
               PROVE  /\ IsPrefix(HeadOf(ask), received.all) /\ IsPrefix(received.all, Text(ask))
                      /\ Len(received.all) = Len(HeadOf(ask)) + BodyOf(ask)
    BY DEF ServedWhole, Received
  <2>1. ask \in Request
    BY Asked DEF Inv
  <2>2. PICK s \in Seq(Token) : s = Text(ask)
    BY <2>1, TextIs
  <2>3. /\ ask.line = "ok" /\ ask.fields = "ok" /\ (BodyOk(ask) \/ NoBodyOk(ask))
        /\ \E k \in Nat : k = 5 + BodyOf(ask) /\ k <= Len(s) /\ received.all = SubSeq(s, 1, k)
    BY <2>2 DEF Shape
  <2>4. PICK k \in Nat : k = 5 + BodyOf(ask) /\ k <= Len(s) /\ received.all = SubSeq(s, 1, k)
    BY <2>3
  <2>5. HeadOf(ask) = SubSeq(s, 1, 5) /\ Len(HeadOf(ask)) = 5
    <3>1. Headlined(ask)
      BY <2>3 DEF Headlined, Lined
    <3> QED BY <2>1, <2>2, <3>1, HeadIs
  <2>6. BodyOf(ask) \in Nat
    BY <2>3 DEF BodyOf, BodyOk, NoBodyOk
  <2>7. PICK f \in Nat : f = 5
    OBVIOUS
  <2>8. f <= k
    BY <2>4, <2>6, <2>7
  <2>9. Len(SubSeq(s, 1, k)) = k
    BY <2>4, Begins
  <2>10. SubSeq(s, 1, f) = SubSeq(SubSeq(s, 1, k), 1, f)
    BY <2>4, <2>8, Begins
  <2>11. IsPrefix(HeadOf(ask), received.all)
    BY <2>4, <2>5, <2>7, <2>8, <2>9, <2>10, Begins DEF IsPrefix
  <2>12. IsPrefix(received.all, s)
    BY <2>4, <2>9 DEF IsPrefix
  <2> QED BY <2>2, <2>4, <2>5, <2>9, <2>11, <2>12
<1> QED BY <1>1, Shaped, Invariant, PTL

(* A request of which all has been received is answered: whatever was cut  *)
(* where, process does not wait for more of it (Parser.cpp 34-43, 196-205).*)
THEOREM AnswersWhole == Spec => []AnsweredWhole
<1>1. Inv /\ (Textual => Shape) => AnsweredWhole
  <2> SUFFICES ASSUME Inv, Shape, received.all = Text(ask), Len(ask.body) = BodyOf(ask)
               PROVE  ex.state \in {"RS_READY", "RS_CLOSE"}
    BY DEF AnsweredWhole, Received
  <2>1. ask \in Request
    BY Asked DEF Inv
  <2>2. PICK s \in Seq(Token) : s = Text(ask)
    BY <2>1, TextIs
  <2>3. ex.state # "RS_IDLE"
    <3>1. Len(s) >= 2
      BY <2>1, <2>2, TextShape
    <3>2. Len(<<>>) = 0
      OBVIOUS
    <3>3. ex.state = "RS_IDLE" => received.all = <<>>
      BY DEF Shape, Nothing
    <3> QED BY <2>2, <3>1, <3>2, <3>3
  <2>4. ex.state # "RS_HEADERS_READ"
    <3> SUFFICES ASSUME ex.state = "RS_HEADERS_READ" PROVE FALSE
      OBVIOUS
    <3>1. /\ Headlined(ask) /\ ask.length \in Nat /\ ex.length = ask.length
      BY DEF Shape, Headlined, Lined, BodyOk
    <3>2. PICK k \in Nat : /\ 5 <= k /\ k <= Len(s)
                           /\ received.all = SubSeq(s, 1, k) /\ ex.body = SubSeq(s, 6, k)
      BY <2>2 DEF Shape
    <3>3. Len(s) = 5 + Len(ask.body)
      BY <2>1, <2>2, <3>1, TextShape
    <3>4. k = Len(s)
      <4>1. Len(SubSeq(s, 1, k)) = k
        BY <3>2, Begins
      <4> QED BY <2>2, <3>2, <4>1
    <3>5. Len(ex.body) = k - 5
      <4>a. PICK f \in Nat : f = 5
        OBVIOUS
      <4>1. f <= k
        BY <3>2, <4>a
      <4>2. Len(SubSeq(s, f + 1, k)) = k - f
        BY <3>2, <4>1, SliceIs
      <4>3. f + 1 = 6
        BY <4>a
      <4> QED BY <3>2, <4>a, <4>2, <4>3
    <3>6. BodyOf(ask) = ask.length
      BY <3>1 DEF BodyOf, None
    <3>7. Midway(ex)
      <4>1. New.state = "RS_IDLE"
        BY DEF New
      <4>2. Situation(ex)
        BY DEF Inv
      <4> QED BY <4>1, <4>2, States3 DEF Situation
    <3>8. Len(ex.body) < ex.length
      BY <3>7, States3
    <3>9. PICK b \in Nat, n \in Nat : b = Len(ask.body) /\ n = Len(s)
      BY <3>1, <3>6
    <3> QED BY <3>1, <3>3, <3>4, <3>5, <3>6, <3>8, <3>9
  <2>5. ex = New \/ Midway(ex) \/ Finished(ex) \/ Closed(ex)
    BY DEF Inv, Situation
  <2>6. New.state = "RS_IDLE"
    BY DEF New
  <2> QED BY <2>3, <2>4, <2>5, <2>6, States3
<1> QED BY <1>1, Shaped, Invariant, PTL

LEMMA NewCuts == ask \in Requests /\ received = Nothing => CutsDontMatter
<1> SUFFICES ASSUME ask \in Requests, received = Nothing PROVE CutsDontMatter
  OBVIOUS
<1>1. Len(HeadOf(ask)) >= 2
  BY Asked, HeadIs
<1>2. received.first = 0
  BY DEF Nothing
<1>3. PICK h : h = Len(HeadOf(ask))
  OBVIOUS
<1>4. h \in Int
  <2>1. <<>> \in Seq(Piece)
    OBVIOUS
  <2>2. [ask EXCEPT !.body = <<>>] \in Request
    BY <2>1, Asked, Zenon DEF Request
  <2>3. HeadOf(ask) \in Seq(Token)
    BY <2>2, TextIs DEF HeadOf
  <2> QED BY <1>3, <2>3
<1>5. ~(received.first >= Len(HeadOf(ask)))
  BY <1>1, <1>2, <1>3, <1>4
<1> QED BY <1>5 DEF CutsDontMatter

LEMMA NewCutsThen == (ask \in Requests /\ received = Nothing => CutsDontMatter)'
BY NewCuts, PTL

(* When the header section has come in one recv, the state and the error   *)
(* that are left are those the same bytes have when they come at once, for *)
(* every way to cut the body (Parser.cpp 146-220).                         *)
THEOREM CutsAlike == Spec => []CutsDontMatter
<1>1. Init => CutsDontMatter
  BY NewCuts DEF Init
<1>2. Inv /\ (Textual => Shape) /\ CutsDontMatter /\ [Next]_vars => CutsDontMatter'
  <2> SUFFICES ASSUME Inv, Textual => Shape, CutsDontMatter, [Next]_vars PROVE CutsDontMatter'
    OBVIOUS
  <2>0. ASSUME ask' = ask PROVE Textual' <=> Textual
    BY <2>0 DEF Textual, Nuls
  <2>1. CASE Receive /\ Textual
    <3>1. CutAlike
      BY <2>1, AnyRecv
    <3>2. c_str(received'.all) = received'.all
      BY <2>1, OneRecv DEF Takes
    <3>3. ask' = ask
      BY <2>1 DEF Receive
    <3>a. PICK a, b : a = received'.all /\ b = New
      OBVIOUS
    <3>4. process(b, a)' = process(b, a)
      BY <3>3, SameProcess
    <3> QED BY <3>1, <3>2, <3>3, <3>4, <3>a, ZenonT(40) DEF CutAlike, CutsDontMatter, Received, HeadOf, Text, New
  <2>5. CASE Receive /\ ~Textual
    BY <2>0, <2>5 DEF Receive, CutsDontMatter
  <2>2. CASE Clear_exchange
    BY <2>2, NewCutsThen DEF Clear_exchange, Nothing, Inv
  <2>3. CASE NextRequest
    BY <2>3, NewCutsThen DEF NextRequest, Nothing
  <2>4. CASE UNCHANGED vars
    <3>1. ask' = ask /\ received' = received /\ ex' = ex
      BY <2>4 DEF vars
    <3>a. PICK a, b : a = c_str(received.all) /\ b = New
      OBVIOUS
    <3>4. process(b, a)' = process(b, a)
      BY <3>1, SameProcess
    <3> QED BY <2>0, <3>1, <3>4, <3>a DEF CutsDontMatter, Received, HeadOf, Text, New
  <2> QED BY <2>1, <2>2, <2>3, <2>4, <2>5 DEF Next
<1> QED BY <1>1, <1>2, Shaped, Invariant, PTL DEF Spec

-----------------------------------------------------------------------------
(* What an exchange has done, and the request it is kept against.          *)
Kept == Textual => Stores(ex.done)

LEMMA SameStores == ASSUME ask' = ask PROVE \A x : Stores(x)' = Stores(x)
BY DEF Stores, Sent, BodyOk, Between

LEMMA NewStores == ex.done = <<>> => Kept
BY DEF Kept, Stores

LEMMA NewStoresThen == (ex.done = <<>> => Kept)'
BY NewStores, PTL

LEMMA KeptNext == ASSUME Inv, Textual => Shape, Kept, [Next]_vars PROVE Kept'
<1>0. New.done = <<>>
  BY NewIs DEF Unrouted
<1>5. ASSUME ask' = ask PROVE Textual' <=> Textual
  BY <1>5 DEF Textual, Nuls
<1>1. CASE Receive /\ Textual
  <2>1. ask' = ask /\ (Stores(ex'.done) \/ ex'.done = ex.done)
    BY <1>1, AnyRecv DEF Receive
  <2>a. PICK done : done = ex'.done
    OBVIOUS
  <2>2. Stores(done)
    BY <1>1, <2>1, <2>a DEF Kept
  <2>3. Stores(done)'
    BY <2>1, <2>2, SameStores
  <2> QED BY <2>3, <2>a DEF Kept
<1>6. CASE Receive /\ ~Textual
  BY <1>5, <1>6 DEF Receive, Kept
<1>2. CASE Clear_exchange
  BY <1>0, <1>2, NewStoresThen DEF Clear_exchange
<1>3. CASE NextRequest
  BY <1>0, <1>3, NewStoresThen DEF NextRequest
<1>4. CASE UNCHANGED vars
  <2>1. ask' = ask /\ ex' = ex
    BY <1>4 DEF vars
  <2>a. PICK done : done = ex.done
    OBVIOUS
  <2>2. Textual => Stores(done)'
    BY <2>1, <2>a, SameStores DEF Kept
  <2> QED BY <1>5, <2>1, <2>2, <2>a DEF Kept
<1> QED BY <1>1, <1>2, <1>3, <1>4, <1>6 DEF Next

(* What is uploaded is the body, as much of it as Content-Length announces *)
(* and within Max_client_body_size, whole and in its order, in whatever    *)
(* cuts it came; of a multipart body it is what stands between the first   *)
(* blank line and the next end mark, so that a file is stored with the     *)
(* CRLF that precedes the mark (Parser.cpp 184-255, Handler.cpp 263-264).  *)
THEOREM StoresAsSent == Spec => []StoredAsSent
<1>1. Init => Kept
  <2>1. New.done = <<>>
    BY NewIs DEF Unrouted
  <2> QED BY <2>1, NewStores DEF Init
<1>2. Inv /\ (Textual => Shape) /\ Kept /\ [Next]_vars => Kept'
  BY KeptNext
<1>3. Kept => StoredAsSent
  <2>a. PICK done : done = ex.done
    OBVIOUS
  <2> QED BY <2>a, StoresSo DEF Kept, StoredAsSent
<1> QED BY <1>1, <1>2, <1>3, Shaped, Invariant, PTL DEF Spec

-----------------------------------------------------------------------------
(* The exchange the event loop works with.                                 *)

LEMMA OnePiece ==
  ASSUME NEW x
  PROVE  /\ E!process(x, <<"bad">>) = E!Refused
         /\ x.state \in {"RS_IDLE", "RS_HEADERS_READ"} =>
              /\ E!process(x, <<"part">>) = E!Reading
              /\ \A p \in E!Page : E!process(x, <<p>>) = E!Served(p)
BY DEF E!process, E!Page

LEMMA SeenThen ==
  (/\ ex = New => Seen = E!NewExchange
   /\ Midway(ex) => Seen = E!Reading
   /\ Finished(ex) => \E p \in E!Page : Seen = E!Served(p)
   /\ Closed(ex) => Seen = E!Refused)'
BY SeenIs, PTL

LEMMA SomeRecv == ASSUME Inv, Receive PROVE received' # Nothing
<1>1. PICK n \in DOMAIN todo : received'.all = received.all \o SubSeq(todo, 1, n)
  <2>1. PICK n \in DOMAIN todo :
          received' = [first |-> IF received.all = <<>> THEN n ELSE received.first,
                       all |-> received.all \o SubSeq(todo, 1, n)]
    BY DEF Receive
  <2> QED BY <2>1
<1>2. PICK i \in Nat, k \in Nat :
        /\ i <= k /\ k <= Len(Text(ask))
        /\ received.all = SubSeq(Text(ask), i + 1, k)
        /\ todo = SubSeq(Text(ask), k + 1, Len(Text(ask)))
  BY DEF Inv, Place
<1>3. PICK s \in Seq(Token) : s = Text(ask)
  BY Asked, TextIs DEF Inv
<1>4. received.all \in Seq(Token) /\ todo \in Seq(Token)
  BY <1>2, <1>3, SliceIs
<1>5. PICK m \in Nat, z \in Nat : m = n /\ z = 0 /\ m >= 1 /\ m <= Len(todo)
  BY <1>4
<1>6. SubSeq(todo, z + 1, m) \in Seq(Token) /\ Len(SubSeq(todo, z + 1, m)) = m - z
  BY <1>4, <1>5, SliceIs
<1>7. z + 1 = 1 /\ m - z = m
  BY <1>5
<1>8. PICK t \in Seq(Token) : t = SubSeq(todo, 1, n) /\ Len(t) = m
  BY <1>5, <1>6, <1>7
<1>9. received'.all # <<>>
  BY <1>1, <1>4, <1>5, <1>8
<1> QED BY <1>9 DEF Nothing

(* A recv, as Exchange has it.                                             *)
LEMMA RecvSeen ==
  ASSUME Textual, Inv, Receive
  PROVE  \E piece \in E!Chunk : Seen' = E!process(Seen, <<piece>>)
<1>1. PICK i \in Nat, k \in Nat, m \in Nat, s \in Seq(Token), d \in Seq(Token), x \in Typed,
           y \in Typed, p \in Typed :
        /\ Takes(s, i, k, m, d, x, y)
        /\ Refused(p) \/ Midway(p) \/ Whole(p)
        /\ Midway(p) => y = p
        /\ Refused(p) => Closed(y)
        /\ Whole(p) => Closed(y) \/ Finished(y)
        /\ x.state = "RS_READY" => Refused(p)
  BY OneRecv
<1>3. x = ex /\ y = ex'
  BY <1>1 DEF Takes
<1>4. Midway(ex)' \/ Finished(ex)' \/ Closed(ex)'
  <2>1. Midway(y) \/ Finished(y) \/ Closed(y)
    BY <1>1
  <2> QED BY <1>3, <2>1 DEF Midway, Finished, Closed, Unrouted, Answered, Refused
<1>5. ex.state = "RS_READY" => Closed(ex)'
  <2>1. x.state = "RS_READY" => Closed(y)
    BY <1>1
  <2> QED BY <1>3, <2>1 DEF Closed, Refused
<1>6. "part" \in E!Chunk /\ "bad" \in E!Chunk /\ E!Page \subseteq E!Chunk
  BY DEF E!Chunk
<1>7. CASE Closed(ex)'
  <2>1. Seen' = E!process(Seen, <<"bad">>)
    BY <1>7, SeenThen, OnePiece
  <2> QED BY <1>6, <2>1
<1>8. CASE ~Closed(ex)'
  <2>1. ex.state \in {"RS_IDLE", "RS_HEADERS_READ"}
    BY <1>5, <1>8 DEF Receive
  <2>2. Seen.state \in {"RS_IDLE", "RS_HEADERS_READ"}
    BY <2>1 DEF Seen
  <2>3. CASE Midway(ex)'
    <3>1. Seen' = E!process(Seen, <<"part">>)
      BY <2>2, <2>3, SeenThen, OnePiece
    <3> QED BY <1>6, <3>1
  <2>4. CASE Finished(ex)'
    <3>1. PICK page \in E!Page : Seen' = E!Served(page)
      BY <2>4, SeenThen
    <3>2. Seen' = E!process(Seen, <<page>>)
      BY <2>2, <3>1, OnePiece
    <3> QED BY <1>6, <3>2
  <2> QED BY <1>4, <1>8, <2>3, <2>4
<1> QED BY <1>7, <1>8

(* What the event loop's model assumes of process is true of the Parser,   *)
(* the Router and the Handler, step by step: a recv reads on, serves or    *)
(* refuses, only refuses what comes after a response that is ready, and    *)
(* the exchange is new when the response was sent or the connection made.  *)
THEOREM ExchangeImplemented == Spec => ImplementsExchange
<1>1. Inv /\ [Next]_vars =>
        [IF received' = Nothing THEN Seen' = E!NewExchange
         ELSE Textual => \E piece \in E!Chunk : Seen' = E!process(Seen, <<piece>>)]_ex
  <2> SUFFICES ASSUME Inv, [Next]_vars
               PROVE  [IF received' = Nothing THEN Seen' = E!NewExchange
                       ELSE Textual => \E piece \in E!Chunk : Seen' = E!process(Seen, <<piece>>)]_ex
    OBVIOUS
  <2>1. CASE Receive
    <3>1. received' # Nothing
      BY <2>1, SomeRecv
    <3> QED BY <2>1, <3>1, RecvSeen
  <2>2. CASE Clear_exchange \/ NextRequest
    <3>1. received' = Nothing /\ ex' = New
      BY <2>2 DEF Clear_exchange, NextRequest
    <3>2. (ex = New)'
      BY <3>1 DEF New
    <3> QED BY <3>1, <3>2, SeenThen
  <2>3. CASE UNCHANGED vars
    BY <2>3 DEF vars
  <2> QED BY <2>1, <2>2, <2>3 DEF Next
<1> QED BY <1>1, Invariant, PTL DEF Spec, ImplementsExchange
=============================================================================
