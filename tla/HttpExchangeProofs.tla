------------------------- MODULE HttpExchangeProofs -------------------------
(***************************************************************************)
(* What HttpExchange::process leaves, however the bytes of a request are   *)
(* cut: for any requests, body limit and number of recv.                   *)
(***************************************************************************)
EXTENDS HttpExchangeProperties, FiniteSetTheorems, SequenceTheorems, WellFoundedInduction, TLAPS

(* Of an exchange that was not routed yet, or was refused before it was.   *)
Unrouted(x) ==
  x.outBuf = "empty" /\ x.url = "unset" /\ x.type = "unset" /\ x.code = 200 /\ x.done = <<>>

Refused(x)  == x.state = "RS_CLOSE" /\ x.errCode \in Errors
Accepted(x) == x.state # "RS_CLOSE" /\ x.errCode = 0

-----------------------------------------------------------------------------
(* Sequences.                                                              *)

LEMMA Least ==
  ASSUME NEW S, S \subseteq Nat, S # {}
  PROVE  Min(S) \in S /\ \A y \in S : Min(S) <= y
<1>1. IsWellFoundedOn(OpToRel(<, Nat), Nat)
  BY NatLessThanWellFounded
<1>2. PICK x \in S : \A y \in S : ~ (<<y, x>> \in OpToRel(<, Nat))
  BY <1>1, WFMin
<1>3. \A y \in S : ~(y < x)
  BY <1>2 DEF OpToRel
<1>4. \A y \in S : x <= y
  BY <1>3
<1> QED BY <1>4 DEF Min

LEMMA AfterIs ==
  ASSUME NEW S, NEW s \in Seq(S), NEW i \in Nat \ {0}, i <= Len(s) + 1
  PROVE  /\ After(s, i) \in Seq(S) /\ Len(After(s, i)) = Len(s) - i + 1
         /\ \A j \in 1..(Len(s) - i + 1) : After(s, i)[j] = s[j + i - 1]
BY DEF After

LEMMA Where ==
  ASSUME NEW S, NEW text \in Seq(S), NEW T, NEW what \in Seq(T), Len(what) > 0
  PROVE  /\ \A i \in Found(text, what) :
              /\ i \in Nat \ {0} /\ i + Len(what) - 1 <= Len(text)
              /\ \A j \in 1..Len(what) : text[i + j - 1] = what[j]
         /\ \A i \in 1..Len(text) :
              i + Len(what) - 1 <= Len(text) /\ (\A j \in 1..Len(what) : text[i + j - 1] = what[j])
                => i \in Found(text, what)
         /\ Found(text, what) # {} => Min(Found(text, what)) \in Found(text, what)
<1>1. ASSUME NEW i \in Found(text, what)
      PROVE  /\ i \in Nat \ {0} /\ i + Len(what) - 1 <= Len(text)
             /\ \A j \in 1..Len(what) : text[i + j - 1] = what[j]
  <2>1. /\ i \in 1..Len(text) /\ i + Len(what) - 1 <= Len(text)
        /\ SubSeq(text, i, i + Len(what) - 1) = what
    BY DEF Found
  <2>2. i \in Nat \ {0} /\ Len(what) \in Nat /\ Len(text) \in Nat
    BY <2>1
  <2>3. \A k \in i..(i + Len(what) - 1) : text[k] \in S
    BY <2>1, <2>2
  <2>4. \A j \in 1..Len(what) : SubSeq(text, i, i + Len(what) - 1)[j] = text[i + j - 1]
    BY <2>2, <2>3, SubSeqProperties
  <2> QED BY <2>1, <2>2, <2>4
<1>2. ASSUME NEW i \in 1..Len(text), i + Len(what) - 1 <= Len(text),
             \A j \in 1..Len(what) : text[i + j - 1] = what[j]
      PROVE  i \in Found(text, what)
  <2> DEFINE t == SubSeq(text, i, i + Len(what) - 1)
  <2>1. t \in Seq(S) /\ Len(t) = Len(what) /\ \A j \in 1..Len(what) : t[j] = text[i + j - 1]
    BY <1>2
  <2>2. t = what
    <3>1. t \in Seq(S \cup T) /\ what \in Seq(S \cup T)
      BY <2>1
    <3> QED BY <1>2, <2>1, <3>1, SeqEqual
  <2> QED BY <1>2, <2>2 DEF Found
<1>3. Found(text, what) \subseteq Nat
  BY <1>1
<1> QED BY <1>1, <1>2, <1>3, Least

LEMMA AllIn ==
  ASSUME NEW S, NEW s \in Seq(S), NEW T, \A j \in 1..Len(s) : s[j] \in T
  PROVE  s \in Seq(T)
<1>1. s = [j \in 1..Len(s) |-> s[j]] /\ Len(s) \in Nat
  OBVIOUS
<1> QED BY <1>1

LEMMA FirstOf ==
  ASSUME NEW text \in Seq(Token), NEW what \in Seq(Piece), Len(what) > 0,
         Found(text, what) # {}
  PROVE  \E i : /\ i = Min(Found(text, what)) /\ i \in Nat \ {0} /\ i + Len(what) - 1 <= Len(text)
                /\ \A j \in 1..Len(what) : text[i + j - 1] = what[j]
<1>2. Min(Found(text, what)) \in Found(text, what)
  BY Where, ZenonT(40)
<1>3. \A i \in Found(text, what) :
        /\ i \in Nat \ {0} /\ i + Len(what) - 1 <= Len(text)
        /\ \A j \in 1..Len(what) : text[i + j - 1] = what[j]
  BY Where, ZenonT(40)
<1> QED BY <1>2, <1>3

-----------------------------------------------------------------------------
(* What each step of process leaves.                                       *)

LEMMA NewIs == New \in Typed /\ Unrouted(New) /\ Accepted(New)
BY DEF New, Typed, Unrouted, Accepted, States, None, OutBufs, Methods, Lengths, Types, Urls, Codes,
       ErrCodes, Dones

LEMMA FailIs ==
  ASSUME NEW x \in Typed, NEW code \in Errors
  PROVE  /\ Fail(x, code) \in Typed /\ Refused(Fail(x, code)) /\ Fail(x, code).errCode = code
         /\ Unrouted(x) => Unrouted(Fail(x, code))
         /\ Fail(x, code).done = x.done
<1> DEFINE y == [x EXCEPT !.errCode = code, !.state = "RS_CLOSE"]
<1>1. y \in Typed
  <2>1. "RS_CLOSE" \in States /\ code \in ErrCodes
    BY DEF States, ErrCodes
  <2> QED BY <2>1, Zenon DEF Typed
<1>2. /\ y.state = "RS_CLOSE" /\ y.errCode = code /\ y.done = x.done /\ y.outBuf = x.outBuf
      /\ y.url = x.url /\ y.type = x.type /\ y.code = x.code
  BY DEF Typed
<1> QED BY <1>1, <1>2 DEF Fail, Refused, Unrouted

LEMMA LesserOf ==
  ASSUME NEW a \in Int, NEW b \in Int
  PROVE  /\ a <= b => Min({a, b}) = a
         /\ b <= a => Min({a, b}) = b
<1>1. ASSUME NEW c \in Int, NEW d \in Int, c <= d PROVE Min({c, d}) = c
  <2>1. c \in {c, d} /\ \A y \in {c, d} : c <= y
    BY <1>1
  <2>2. ASSUME NEW x \in {c, d}, \A y \in {c, d} : x <= y PROVE x = c
    BY <1>1, <2>2
  <2> QED BY <2>1, <2>2 DEF Min
<1>2. {a, b} = {b, a}
  OBVIOUS
<1> QED BY <1>1, <1>2

LEMMA LesserTaken ==
  ASSUME NEW li \in Nat, NEW lb \in Nat, NEW l \in Nat, lb <= l
  PROVE  \E n \in Nat :
           /\ n = Min({li, l - lb}) /\ n <= li
           /\ lb + li <= l <=> n = li
           /\ lb + n = l <=> lb + li >= l
<1>1. li \in Int /\ l - lb \in Int
  OBVIOUS
<1>2. CASE li <= l - lb
  <2>1. Min({li, l - lb}) = li
    BY <1>1, <1>2, LesserOf
  <2> QED BY <1>2, <2>1
<1>3. CASE l - lb < li
  <2>1. Min({li, l - lb}) = l - lb
    BY <1>1, <1>3, LesserOf
  <2> QED BY <1>3, <2>1
<1>4. li <= l - lb \/ l - lb < li
  OBVIOUS
<1> QED BY <1>2, <1>3, <1>4, Zenon

(* What TakeBody takes, of a body of which a part may be there already.    *)
Filled(x) == [x EXCEPT !.body = @ \o x.inBuf, !.inBuf = <<>>]
Done(x)   == [Filled(x) EXCEPT !.state = "RS_BODY_DONE"]

LEMMA FilledIs ==
  ASSUME NEW x \in Typed, x.inBuf \in Seq(Piece)
  PROVE  /\ Filled(x) \in Typed /\ Filled(x).body = x.body \o x.inBuf /\ Filled(x).inBuf = <<>>
         /\ Filled(x).state = x.state /\ Filled(x).errCode = x.errCode
         /\ Filled(x).method = x.method /\ Filled(x).length = x.length
         /\ Unrouted(x) => Unrouted(Filled(x))
<1>1. x.body \in Seq(Piece) /\ <<>> \in Seq(Token) /\ x.body \o x.inBuf \in Seq(Piece)
  BY DEF Typed
<1> DEFINE b == x.body \o x.inBuf
<1>2. Filled(x) = [x EXCEPT !.body = b, !.inBuf = <<>>]
  BY DEF Filled
<1>3. b \in Seq(Piece)
  BY <1>1
<1> HIDE DEF b
<1>4. [x EXCEPT !.body = b, !.inBuf = <<>>] \in Typed
  BY <1>1, <1>3, Zenon DEF Typed
<1>5. /\ [x EXCEPT !.body = b, !.inBuf = <<>>].body = b
      /\ \A y : y = [x EXCEPT !.body = b, !.inBuf = <<>>] =>
           /\ y.inBuf = <<>> /\ y.state = x.state /\ y.errCode = x.errCode /\ y.method = x.method
           /\ y.length = x.length /\ y.outBuf = x.outBuf /\ y.url = x.url /\ y.type = x.type
           /\ y.code = x.code /\ y.done = x.done
  BY DEF Typed
<1> QED BY <1>2, <1>4, <1>5, ZenonT(40) DEF b, Unrouted

LEMMA DoneIs ==
  ASSUME NEW x \in Typed, x.inBuf \in Seq(Piece)
  PROVE  /\ Done(x) \in Typed /\ Done(x).body = x.body \o x.inBuf /\ Done(x).inBuf = <<>>
         /\ Done(x).state = "RS_BODY_DONE" /\ Done(x).errCode = x.errCode
         /\ Done(x).method = x.method /\ Done(x).length = x.length
         /\ Unrouted(x) => Unrouted(Done(x))
<1> PICK y \in Typed : y = Filled(x)
  BY FilledIs
<1>1. Done(x) = [y EXCEPT !.state = "RS_BODY_DONE"]
  BY DEF Done
<1>2. [y EXCEPT !.state = "RS_BODY_DONE"] \in Typed
  <2>1. "RS_BODY_DONE" \in States
    BY DEF States
  <2> QED BY <2>1, Zenon DEF Typed
<1>3. \A z : z = [y EXCEPT !.state = "RS_BODY_DONE"] =>
           /\ z.inBuf = y.inBuf /\ z.state = "RS_BODY_DONE" /\ z.errCode = y.errCode
           /\ z.method = y.method /\ z.body = y.body
           /\ z.length = y.length /\ z.outBuf = y.outBuf /\ z.url = y.url /\ z.type = y.type
           /\ z.code = y.code /\ z.done = y.done
  BY DEF Typed
<1>4. Unrouted(x) => Unrouted(y)
  BY FilledIs
<1>5. Unrouted(x) => Unrouted(Done(x))
  BY <1>1, <1>3, <1>4 DEF Unrouted
<1> QED BY <1>1, <1>2, <1>3, <1>5, FilledIs, ZenonT(40)

LEMMA Cut ==
  ASSUME NEW S, NEW s \in Seq(S), NEW n \in Nat, n <= Len(s)
  PROVE  /\ SubSeq(s, 1, n) \in Seq(S) /\ Len(SubSeq(s, 1, n)) = n
         /\ After(s, n + 1) \in Seq(S) /\ Len(After(s, n + 1)) = Len(s) - n
         /\ n = Len(s) <=> After(s, n + 1) = <<>>
         /\ n = Len(s) => SubSeq(s, 1, n) = s
<1>1. SubSeq(s, 1, n) \in Seq(S) /\ Len(SubSeq(s, 1, n)) = n
  <2>1. \A i \in 1..n : s[i] \in S
    OBVIOUS
  <2>2. SubSeq(s, 1, n) \in Seq(S) /\ Len(SubSeq(s, 1, n)) = IF 1 <= n THEN n - 1 + 1 ELSE 0
    BY <2>1, SubSeqProperties
  <2>3. (IF 1 <= n THEN n - 1 + 1 ELSE 0) = n
    OBVIOUS
  <2> QED BY <2>2, <2>3
<1>2. After(s, n + 1) \in Seq(S) /\ Len(After(s, n + 1)) = Len(s) - n
  <2>1. n + 1 \in Nat \ {0} /\ n + 1 <= Len(s) + 1
    OBVIOUS
  <2>2. After(s, n + 1) \in Seq(S) /\ Len(After(s, n + 1)) = Len(s) - (n + 1) + 1
    BY <2>1, AfterIs
  <2> QED BY <2>2
<1>3. n = Len(s) <=> After(s, n + 1) = <<>>
  <2>1. n = Len(s) <=> Len(After(s, n + 1)) = 0
    BY <1>2
  <2>2. Len(After(s, n + 1)) = 0 <=> After(s, n + 1) = <<>>
    BY <1>2
  <2> QED BY <2>1, <2>2
<1>4. n = Len(s) => SubSeq(s, 1, n) = s
  BY SubSeqFull
<1> QED BY <1>1, <1>2, <1>3, <1>4

LEMMA Taken ==
  ASSUME NEW body \in Seq(Piece), NEW inBuf \in Seq(Piece), NEW l \in Nat, Len(body) <= l
  PROVE  \E n, b, r :
           /\ n = Min({Len(inBuf), l - Len(body)})
           /\ b = body \o SubSeq(inBuf, 1, n) /\ r = After(inBuf, n + 1)
           /\ b \in Seq(Piece) /\ r \in Seq(Piece)
           /\ Len(body) + Len(inBuf) <= l => b = body \o inBuf /\ r = <<>>
           /\ Len(b) = l <=> Len(body) + Len(inBuf) >= l
           /\ r = <<>> <=> Len(body) + Len(inBuf) <= l
<1>a. PICK lb \in Nat, li \in Nat : lb = Len(body) /\ li = Len(inBuf)
  OBVIOUS
<1>1. lb <= l
  BY <1>a
<1>b. PICK m \in Nat :
        /\ m = Min({li, l - lb}) /\ m <= li
        /\ lb + li <= l <=> m = li
        /\ lb + m = l <=> lb + li >= l
  BY <1>1, LesserTaken
<1>5. m <= Len(inBuf)
  BY <1>a, <1>b
<1>c. PICK t, r : t = SubSeq(inBuf, 1, m) /\ r = After(inBuf, m + 1)
  OBVIOUS
<1>6. /\ t \in Seq(Piece) /\ Len(t) = m /\ r \in Seq(Piece)
      /\ (m = li <=> r = <<>>)
      /\ (m = li => t = inBuf)
  BY <1>5, <1>a, <1>c, Cut
<1>d. PICK b : b = body \o t
  OBVIOUS
<1>7. b \in Seq(Piece) /\ Len(b) = lb + m
  BY <1>6, <1>a, <1>d, ConcatProperties
<1>10. lb + li <= l => b = body \o inBuf /\ r = <<>>
  BY <1>6, <1>b, <1>d
<1>11. Len(b) = l <=> lb + li >= l
  BY <1>7, <1>b
<1>12. r = <<>> <=> lb + li <= l
  BY <1>6, <1>b
<1>13. /\ m = Min({Len(inBuf), l - Len(body)})
       /\ b = body \o SubSeq(inBuf, 1, m) /\ r = After(inBuf, m + 1)
  BY <1>a, <1>b, <1>c, <1>d
<1>14. Len(body) + Len(inBuf) = lb + li
  BY <1>a
<1>15. /\ b \in Seq(Piece) /\ r \in Seq(Piece)
       /\ Len(body) + Len(inBuf) <= l => b = body \o inBuf /\ r = <<>>
       /\ Len(b) = l <=> Len(body) + Len(inBuf) >= l
       /\ r = <<>> <=> Len(body) + Len(inBuf) <= l
  BY <1>6, <1>7, <1>10, <1>11, <1>12, <1>14
<1> QED BY <1>13, <1>15, Zenon

LEMMA TakeBodyIs ==
  ASSUME NEW x \in Typed, x.inBuf \in Seq(Piece), x.length \in Nat, Len(x.body) <= x.length
  PROVE  LET got == Len(x.body) + Len(x.inBuf) IN
         /\ got < x.length => TakeBody(x) = Filled(x)
         /\ got > x.length => \E y \in Typed : /\ TakeBody(x) = Fail(y, 400)
                                               /\ Unrouted(x) => Unrouted(y)
         /\ got = x.length =>
              TakeBody(x) = IF ask.form = "none" THEN Done(x) ELSE handleBoundary(Done(x))
<1>a. PICK body \in Seq(Piece), inBuf \in Seq(Piece), l \in Nat :
        x.body = body /\ x.inBuf = inBuf /\ x.length = l
  BY DEF Typed
<1>1. Len(body) <= l
  BY <1>a
<1>2. PICK n, b, r :
        /\ n = Min({Len(inBuf), l - Len(body)})
        /\ b = body \o SubSeq(inBuf, 1, n) /\ r = After(inBuf, n + 1)
        /\ b \in Seq(Piece) /\ r \in Seq(Piece)
        /\ Len(body) + Len(inBuf) <= l => b = body \o inBuf /\ r = <<>>
        /\ Len(b) = l <=> Len(body) + Len(inBuf) >= l
        /\ r = <<>> <=> Len(body) + Len(inBuf) <= l
  BY <1>1, Taken
<1>3. r \in Seq(Token)
  BY <1>2 DEF Token
<1> PICK y : y = [x EXCEPT !.body = b, !.inBuf = r]
  OBVIOUS
<1>4. y \in Typed
  BY <1>2, <1>3, Zenon DEF Typed
<1>5. y.body = b /\ y.inBuf = r /\ y.length = l
  BY <1>a DEF Typed
<1>6. Unrouted(x) => Unrouted(y)
  BY DEF Typed, Unrouted
<1>7. TakeBody(x) =
        CASE ~Complete(y) -> y
          [] Complete(y) /\ Leftover(y) -> Fail(y, 400)
          [] OTHER -> LET done == [y EXCEPT !.state = "RS_BODY_DONE"] IN
                      IF ask.form = "none" THEN done ELSE handleBoundary(done)
  BY <1>a, <1>2 DEF TakeBody, Missing
<1>8. Complete(y) <=> Len(b) = l
  BY <1>5 DEF Complete
<1>9. Leftover(y) <=> r # <<>>
  BY <1>5 DEF Leftover
<1>10. b = body \o inBuf /\ r = <<>> => y = Filled(x)
  BY <1>a DEF Filled
<1>b. PICK got \in Int : got = Len(body) + Len(inBuf)
  OBVIOUS
<1>11. CASE got < l
  <2>1. ~(got >= l) /\ got <= l /\ ~(got > l) /\ got # l
    BY <1>11
  <2>2. ~Complete(y) /\ y = Filled(x)
    BY <1>b, <1>2, <1>8, <1>10, <2>1
  <2>3. TakeBody(x) = Filled(x)
    BY <1>7, <2>2
  <2> QED BY <1>a, <1>b, <1>11, <2>1, <2>3
<1>12. CASE got > l
  <2>1. got >= l /\ ~(got <= l) /\ ~(got < l) /\ got # l
    BY <1>12
  <2>2. Complete(y) /\ Leftover(y)
    BY <1>b, <1>2, <1>8, <1>9, <2>1
  <2>3. TakeBody(x) = Fail(y, 400)
    BY <1>7, <2>2
  <2> QED BY <1>a, <1>b, <1>4, <1>6, <2>1, <2>3
<1>13. CASE got = l
  <2>1. got >= l /\ got <= l /\ ~(got < l) /\ ~(got > l)
    BY <1>13
  <2>2. Complete(y) /\ ~Leftover(y) /\ y = Filled(x)
    BY <1>b, <1>2, <1>8, <1>9, <1>10, <2>1
  <2>3. TakeBody(x) = IF ask.form = "none" THEN Done(x) ELSE handleBoundary(Done(x))
    BY <1>7, <2>2 DEF Done
  <2> QED BY <1>a, <1>b, <1>13, <2>1, <2>3
<1> QED BY <1>a, <1>b, <1>11, <1>12, <1>13

-----------------------------------------------------------------------------
(* What parse leaves.                                                      *)

Served == {200, 201, 205, 302}

(* A body of which some is missing, a request to route, an answer to send. *)
Midway(x) ==
  /\ x.state = "RS_HEADERS_READ" /\ x.errCode = 0 /\ Unrouted(x) /\ x.inBuf = <<>>
  /\ x.length \in Nat /\ Len(x.body) < x.length
Whole(x) ==
  x.state \in {"RS_NO_BODY", "RS_BODY_DONE"} /\ x.errCode = 0 /\ x.inBuf = <<>> /\ x.code \in Served
Answered(x) ==
  x.state = "RS_READY" /\ x.errCode = 0 /\ x.inBuf = <<>> /\ x.code \in Served /\ x.url \in E!Page

Parsed(x) == Unrouted(x) /\ (Refused(x) \/ Midway(x) \/ Whole(x))

LEMMA BoundaryIs ==
  ASSUME NEW x \in Typed, x.state = "RS_BODY_DONE", x.errCode = 0, x.inBuf = <<>>, Unrouted(x)
  PROVE  handleBoundary(x) \in Typed /\ Parsed(handleBoundary(x))
<1> DEFINE buf    == After(x.body, PartStart(x))
           ended  == Found(buf, EndMark) # {}
           endPos == IF ended THEN find(buf, EndMark) ELSE Len(buf)
           erased == IF ended THEN endPos + Len(Boundary) + Len(CRLF) ELSE 3
           bad == \/ ask.form = "unbounded"
                  \/ Found(x.body, Boundary) = {} \/ Found(x.body, CRLF) = {}
                  \/ After(buf, erased + 1) # <<>>
           cut == SubSeq(buf, 1, endPos)
<1>1. handleBoundary(x) = IF bad THEN Fail(x, 400) ELSE [x EXCEPT !.body = cut]
  BY DEF handleBoundary
<1>2. Fail(x, 400) \in Typed /\ Parsed(Fail(x, 400))
  <2>1. 400 \in Errors
    BY DEF Errors
  <2> QED BY <2>1, FailIs DEF Parsed
<1>3. CASE Found(x.body, CRLF) # {}
  <2>1. x.body \in Seq(Piece)
    BY DEF Typed
  <2>2. CRLF \in Seq(Piece) /\ Len(CRLF) = 2
    BY DEF CRLF, Piece
  <2>3. EndMark \in Seq(Piece) /\ Len(EndMark) = 3
    BY DEF EndMark, Boundary, Piece
  <2>a. PICK i \in Nat \ {0} : i = Min(Found(x.body, CRLF)) /\ i + 2 - 1 <= Len(x.body)
    <3>1. x.body \in Seq(Token) /\ Len(CRLF) > 0
      BY <2>1, <2>2 DEF Token
    <3>2. PICK i : i = Min(Found(x.body, CRLF)) /\ i \in Nat \ {0} /\ i + Len(CRLF) - 1 <= Len(x.body)
      BY <1>3, <2>2, <3>1, FirstOf, Zenon
    <3> QED BY <2>2, <3>2
  <2>4. i + 1 <= Len(x.body)
    BY <2>a
  <2>5. PartStart(x) = i + 2
    BY <2>a, <2>2, <2>4 DEF PartStart, find
  <2>6. buf \in Seq(Piece)
    <3>1. i + 2 \in Nat \ {0} /\ i + 2 <= Len(x.body) + 1
      BY <2>4
    <3> QED BY <2>1, <2>5, <3>1, AfterIs
  <2> HIDE DEF buf
  <2>7. endPos \in Nat /\ endPos <= Len(buf)
    <3>1. CASE ended
      <4>a. PICK e \in Nat \ {0} : e = Min(Found(buf, EndMark)) /\ e + 3 - 1 <= Len(buf)
        <5>1. buf \in Seq(Token) /\ Len(EndMark) > 0
          BY <2>6, <2>3 DEF Token
        <5>2. PICK e : e = Min(Found(buf, EndMark)) /\ e \in Nat \ {0} /\ e + Len(EndMark) - 1 <= Len(buf)
          BY <3>1, <2>3, <5>1, FirstOf, Zenon
        <5> QED BY <2>3, <5>2
      <4>3. endPos = e - 1
        BY <3>1, <4>a DEF find
      <4>4. Len(buf) \in Nat
        BY <2>6
      <4>5. e - 1 \in Nat /\ e - 1 <= Len(buf)
        BY <4>a, <4>4
      <4> QED BY <4>3, <4>5
    <3>2. CASE ~ended
      BY <3>2, <2>6
    <3> QED BY <3>1, <3>2
  <2> HIDE DEF endPos
  <2>8. cut \in Seq(Piece)
    BY <2>6, <2>7, Cut
  <2> HIDE DEF cut
  <2>9. [x EXCEPT !.body = cut] \in Typed
    BY <2>8, Zenon DEF Typed
  <2>10. Parsed([x EXCEPT !.body = cut])
    <3>1. \A y : y = [x EXCEPT !.body = cut] =>
            /\ y.inBuf = <<>> /\ y.state = "RS_BODY_DONE" /\ y.errCode = 0 /\ y.outBuf = x.outBuf
            /\ y.url = x.url /\ y.type = x.type /\ y.code = x.code /\ y.done = x.done
      BY DEF Typed
    <3> QED BY <3>1 DEF Parsed, Whole, Unrouted, Served
  <2> HIDE DEF bad
  <2> QED BY <1>1, <1>2, <2>9, <2>10
<1>4. CASE Found(x.body, CRLF) = {}
  BY <1>1, <1>2, <1>4
<1> QED BY <1>3, <1>4

LEMMA BoundaryState ==
  ASSUME NEW x \in Typed, x.state = "RS_BODY_DONE"
  PROVE  handleBoundary(x).state # "RS_HEADERS_READ"
<1>1. Fail(x, 400).state = "RS_CLOSE"
  BY DEF Fail, Typed
<1>2. \A b : [x EXCEPT !.body = b].state = "RS_BODY_DONE"
  BY DEF Typed
<1>3. handleBoundary(x) = Fail(x, 400) \/ \E b : handleBoundary(x) = [x EXCEPT !.body = b]
  BY DEF handleBoundary
<1> QED BY <1>1, <1>2, <1>3

LEMMA ParseBodyIs ==
  ASSUME NEW x \in Typed, x.inBuf \in Seq(Piece), x.state = "RS_HEADERS_READ", x.errCode = 0,
         Unrouted(x), x.length \in Nat => Len(x.body) <= x.length
  PROVE  parseBody(x) \in Typed /\ Parsed(parseBody(x))
<1>1. ASSUME NEW code \in {400, 413, 501}, NEW y \in Typed, Unrouted(y)
      PROVE  Fail(y, code) \in Typed /\ Parsed(Fail(y, code))
  <2>1. code \in Errors
    BY DEF Errors
  <2> QED BY <1>1, <2>1, FailIs DEF Parsed
<1>2. CASE parseBody(x) = TakeBody(x) /\ x.length \in Nat
  <2>1. Len(x.body) <= x.length
    BY <1>2
  <2>a. PICK got \in Int, l \in Nat : got = Len(x.body) + Len(x.inBuf) /\ l = x.length
    BY <1>2 DEF Typed
  <2>2. CASE got < l
    <3>1. TakeBody(x) = Filled(x)
      BY <1>2, <2>1, <2>2, <2>a, TakeBodyIs
    <3>2. Filled(x) \in Typed /\ Unrouted(Filled(x))
      BY FilledIs
    <3>3. Len(x.body \o x.inBuf) = got
      BY <2>a DEF Typed
    <3>4. Midway(Filled(x))
      BY <1>2, <2>2, <2>a, <3>2, <3>3, FilledIs DEF Midway
    <3> QED BY <1>2, <3>1, <3>2, <3>4 DEF Parsed
  <2>3. CASE got > l
    <3>1. PICK y \in Typed : TakeBody(x) = Fail(y, 400) /\ (Unrouted(x) => Unrouted(y))
      BY <1>2, <2>1, <2>3, <2>a, TakeBodyIs, ZenonT(40)
    <3> QED BY <1>1, <1>2, <3>1
  <2>4. CASE got = l
    <3>1. TakeBody(x) = IF ask.form = "none" THEN Done(x) ELSE handleBoundary(Done(x))
      BY <1>2, <2>1, <2>4, <2>a, TakeBodyIs
    <3>2. /\ Done(x) \in Typed /\ Done(x).state = "RS_BODY_DONE" /\ Done(x).errCode = 0
          /\ Done(x).inBuf = <<>> /\ Unrouted(Done(x))
      BY DoneIs
    <3>3. Parsed(Done(x))
      BY <3>2 DEF Parsed, Whole, Unrouted, Served
    <3>4. handleBoundary(Done(x)) \in Typed /\ Parsed(handleBoundary(Done(x)))
      BY <3>2, BoundaryIs
    <3> QED BY <1>2, <3>1, <3>2, <3>3, <3>4
  <2>5. got < l \/ got > l \/ got = l
    OBVIOUS
  <2> QED BY <2>2, <2>3, <2>4, <2>5
<1>3. CASE \E code \in {400, 413, 501} : parseBody(x) = Fail(x, code)
  BY <1>1, <1>3
<1>4. x.length \in Lengths
  BY DEF Typed
<1>5. \/ parseBody(x) = TakeBody(x) /\ x.length \in Nat
      \/ \E code \in {400, 413, 501} : parseBody(x) = Fail(x, code)
  <2>1. x.length # None /\ x.length # Junk => x.length \in Nat
    BY <1>4 DEF Lengths
  <2>2. \/ parseBody(x) = Fail(x, 501) \/ parseBody(x) = Fail(x, 400) \/ parseBody(x) = Fail(x, 413)
        \/ parseBody(x) = TakeBody(x) /\ x.length # None /\ x.length # Junk
    <3> DEFINE none == x.length = None
               bad  == ask.te = "Transfer-Encoding" \/ x.length \in {Junk, 0}
               long == x.length >= MAX_BODY /\ ask.te # "Transfer-Encoding"
    <3>1. parseBody(x) = CASE none -> Fail(x, 501) [] ~none /\ bad -> Fail(x, 400)
                           [] long -> Fail(x, 413) [] OTHER -> TakeBody(x)
      BY DEF parseBody
    <3> QED BY <3>1, Zenon
  <2> QED BY <2>1, <2>2
<1> QED BY <1>2, <1>3, <1>5

(* A start line takes its two tokens at least, the header section at least *)
(* two more.                                                               *)
LEMMA StartIs ==
  ASSUME ask \in Request, NEW x \in Typed, x.state = "RS_IDLE", x.errCode = 0, Unrouted(x),
         Found(x.inBuf, <<"crlf">>) # {}
  PROVE  \E y \in Typed :
           /\ parseStartLine(x) = y /\ Unrouted(y)
           /\ \/ /\ Refused(y)
                 /\ \/ ask.line = "short" \/ x.inBuf[1] # "start"
                    \/ Min(Found(x.inBuf, <<"crlf">>)) = 1
              \/ /\ y.state = "RS_START_LINE_READ" /\ y.errCode = 0 /\ y.body = x.body
                 /\ y.method = ask.method /\ y.length = x.length
                 /\ ask.line # "short" /\ x.inBuf[1] = "start"
                 /\ \E pos \in Nat : /\ pos = Min(Found(x.inBuf, <<"crlf">>))
                                     /\ pos >= 2 /\ pos <= Len(x.inBuf)
                                     /\ y.inBuf = After(x.inBuf, pos + 1)
<1>1. x.inBuf \in Seq(Token)
  BY DEF Typed
<1>2. <<"crlf">> \in Seq(Piece) /\ Len(<<"crlf">>) = 1
  BY DEF Piece
<1>3. PICK pos : /\ pos = Min(Found(x.inBuf, <<"crlf">>)) /\ pos \in Nat \ {0}
                 /\ pos + Len(<<"crlf">>) - 1 <= Len(x.inBuf)
  <2>1. Len(<<"crlf">>) > 0
    BY <1>2
  <2> QED BY <1>1, <1>2, <2>1, FirstOf, Zenon
<1>4. pos \in Nat /\ 1 <= pos /\ pos <= Len(x.inBuf)
  BY <1>1, <1>2, <1>3
<1>a. PICK r : r = After(x.inBuf, pos + 1)
  OBVIOUS
<1>5. r \in Seq(Token)
  <2>1. pos + 1 \in Nat \ {0} /\ pos + 1 <= Len(x.inBuf) + 1
    BY <1>1, <1>4
  <2> QED BY <1>1, <1>a, <2>1, AfterIs
<1>b. PICK rest : rest = [x EXCEPT !.inBuf = r]
  OBVIOUS
<1>6. rest \in Typed
  BY <1>5, <1>b, Zenon DEF Typed
<1>7. /\ rest.inBuf = r /\ rest.state = "RS_IDLE" /\ rest.errCode = 0 /\ rest.body = x.body
      /\ rest.length = x.length
  BY <1>b DEF Typed
<1>8. Unrouted(rest)
  BY <1>b DEF Typed, Unrouted
<1>9. parseStartLine(x) =
        IF pos = 1 THEN Fail(x, 400)
        ELSE IF ask.line = "short" \/ x.inBuf[1] # "start" THEN Fail(rest, 400)
        ELSE [rest EXCEPT !.state = "RS_START_LINE_READ", !.method = ask.method]
  BY <1>3, <1>a, <1>b DEF parseStartLine
<1>10. 400 \in Errors
  BY DEF Errors
<1>11. CASE pos = 1
  <2>1. parseStartLine(x) = Fail(x, 400)
    BY <1>9, <1>11
  <2> QED BY <1>3, <1>10, <1>11, <2>1, FailIs
<1>12. CASE pos # 1 /\ (ask.line = "short" \/ x.inBuf[1] # "start")
  <2>1. parseStartLine(x) = Fail(rest, 400)
    BY <1>9, <1>12
  <2> QED BY <1>6, <1>8, <1>10, <1>12, <2>1, FailIs
<1>13. CASE pos # 1 /\ ~(ask.line = "short" \/ x.inBuf[1] # "start")
  <2>a. PICK y : y = [rest EXCEPT !.state = "RS_START_LINE_READ", !.method = ask.method]
    OBVIOUS
  <2>1. parseStartLine(x) = y
    BY <1>9, <1>13, <2>a
  <2>2. y \in Typed
    <3>1. "RS_START_LINE_READ" \in States /\ ask.method \in Methods
      BY DEF States, Methods, Request
    <3> QED BY <1>6, <2>a, <3>1, Zenon DEF Typed
  <2>3. /\ y.state = "RS_START_LINE_READ" /\ y.errCode = 0 /\ y.body = x.body
        /\ y.method = ask.method /\ y.length = x.length /\ y.inBuf = r
    BY <1>6, <1>7, <2>a DEF Typed
  <2>4. Unrouted(y)
    BY <1>6, <1>8, <2>a DEF Typed, Unrouted
  <2>5. pos >= 2
    BY <1>4, <1>13
  <2> QED BY <1>3, <1>4, <1>a, <1>13, <2>1, <2>2, <2>3, <2>4, <2>5
<1> QED BY <1>11, <1>12, <1>13

LEMMA HeadersAre ==
  ASSUME ask \in Request, NEW x \in Typed, x.state = "RS_START_LINE_READ", x.errCode = 0, Unrouted(x),
         Found(x.inBuf, CRLF) # {}
  PROVE  \E y \in Typed :
           /\ parseHeaders(x) = y /\ Unrouted(y)
           /\ \/ Refused(y) /\ ask.fields # "ok"
              \/ /\ y.state = "RS_HEADERS_READ" /\ y.errCode = 0 /\ y.body = x.body
                 /\ y.method = x.method /\ y.length = ask.length /\ ask.fields = "ok"
                 /\ \E pos \in Nat : /\ pos = Min(Found(x.inBuf, CRLF))
                                     /\ pos >= 1 /\ pos + 1 <= Len(x.inBuf)
                                     /\ y.inBuf = After(x.inBuf, pos + 2)
<1>1. x.inBuf \in Seq(Token)
  BY DEF Typed
<1>2. CRLF \in Seq(Piece) /\ Len(CRLF) = 2
  BY DEF CRLF, Piece
<1>3. PICK pos : /\ pos = Min(Found(x.inBuf, CRLF)) /\ pos \in Nat \ {0}
                 /\ pos + Len(CRLF) - 1 <= Len(x.inBuf)
  <2>1. Len(CRLF) > 0
    BY <1>2
  <2> QED BY <1>1, <1>2, <2>1, FirstOf, Zenon
<1>4. pos \in Nat /\ 1 <= pos /\ pos + 1 <= Len(x.inBuf)
  BY <1>1, <1>2, <1>3
<1>a. PICK r : r = After(x.inBuf, pos + 2)
  OBVIOUS
<1>5. r \in Seq(Token)
  <2>1. pos + 2 \in Nat \ {0} /\ pos + 2 <= Len(x.inBuf) + 1
    BY <1>1, <1>4
  <2> QED BY <1>1, <1>a, <2>1, AfterIs
<1>b. PICK rest : rest = [x EXCEPT !.inBuf = r]
  OBVIOUS
<1>6. rest \in Typed
  BY <1>5, <1>b, Zenon DEF Typed
<1>7. /\ rest.inBuf = r /\ rest.errCode = 0 /\ rest.body = x.body /\ rest.method = x.method
  BY <1>b DEF Typed
<1>8. Unrouted(rest)
  BY <1>b DEF Typed, Unrouted
<1>9. parseHeaders(x) =
        CASE ask.fields = "431" -> Fail(rest, 431)
          [] ask.fields \in {"400", "hostless", "absent"} -> Fail(rest, 400)
          [] OTHER -> [rest EXCEPT !.state = "RS_HEADERS_READ", !.length = ask.length]
  BY <1>3, <1>a, <1>b DEF parseHeaders, CRLF
<1>10. 400 \in Errors /\ 431 \in Errors
  BY DEF Errors
<1>11. CASE ask.fields = "431"
  <2>1. parseHeaders(x) = Fail(rest, 431)
    BY <1>9, <1>11
  <2> QED BY <1>6, <1>8, <1>10, <1>11, <2>1, FailIs
<1>12. CASE ask.fields \in {"400", "hostless", "absent"}
  <2>1. parseHeaders(x) = Fail(rest, 400)
    BY <1>9, <1>12
  <2> QED BY <1>6, <1>8, <1>10, <1>12, <2>1, FailIs
<1>13. CASE ask.fields = "ok"
  <2>a. PICK y : y = [rest EXCEPT !.state = "RS_HEADERS_READ", !.length = ask.length]
    OBVIOUS
  <2>1. parseHeaders(x) = y
    BY <1>9, <1>13, <2>a
  <2>2. y \in Typed
    <3>1. "RS_HEADERS_READ" \in States /\ ask.length \in Lengths
      BY DEF States, Lengths, Request
    <3> QED BY <1>6, <2>a, <3>1, Zenon DEF Typed
  <2>3. /\ y.state = "RS_HEADERS_READ" /\ y.errCode = 0 /\ y.body = x.body
        /\ y.method = x.method /\ y.length = ask.length /\ y.inBuf = r
    BY <1>6, <1>7, <2>a DEF Typed
  <2>4. Unrouted(y)
    BY <1>6, <1>8, <2>a DEF Typed, Unrouted
  <2> QED BY <1>3, <1>4, <1>a, <1>13, <2>1, <2>2, <2>3, <2>4
<1>14. ask.fields \in {"ok", "hostless", "400", "431", "absent"}
  BY DEF Request
<1> QED BY <1>11, <1>12, <1>13, <1>14

NoBody(x) == [x EXCEPT !.state = "RS_NO_BODY"]

LEMMA NoBodyIs ==
  ASSUME NEW x \in Typed
  PROVE  /\ NoBody(x) \in Typed /\ NoBody(x).state = "RS_NO_BODY"
         /\ NoBody(x).inBuf = x.inBuf /\ NoBody(x).errCode = x.errCode /\ NoBody(x).body = x.body
         /\ NoBody(x).method = x.method /\ NoBody(x).length = x.length /\ NoBody(x).code = x.code
         /\ NoBody(x).done = x.done
         /\ Unrouted(x) => Unrouted(NoBody(x))
<1>1. NoBody(x) \in Typed
  <2>1. "RS_NO_BODY" \in States
    BY DEF States
  <2> QED BY <2>1, Zenon DEF Typed, NoBody
<1>2. \A y : y = [x EXCEPT !.state = "RS_NO_BODY"] =>
        /\ y.state = "RS_NO_BODY" /\ y.inBuf = x.inBuf /\ y.errCode = x.errCode /\ y.body = x.body
        /\ y.method = x.method /\ y.length = x.length /\ y.code = x.code /\ y.done = x.done
        /\ y.outBuf = x.outBuf /\ y.url = x.url /\ y.type = x.type
  BY DEF Typed
<1> QED BY <1>1, <1>2 DEF NoBody, Unrouted

(* What parse does of an exchange past its header section, or before it.   *)
Rest(x) ==
  LET bodied == IF x.state = "RS_HEADERS_READ"
                     /\ (x.length # None \/ ask.te = "Transfert-Encoding")
                  THEN parseBody(x) ELSE NoBody(x)
  IN  CASE x.errCode # 0 -> x
        [] x.errCode = 0 /\ bodied.state = "RS_NO_BODY" /\ Leftover(bodied) -> Fail(bodied, 400)
        [] OTHER -> bodied

Started(x) == IF x.state = "RS_IDLE" /\ Found(x.inBuf, <<"crlf">>) # {} THEN parseStartLine(x) ELSE x
Headed(x) ==
  IF x.state = "RS_START_LINE_READ" /\ Found(x.inBuf, <<"crlf", "crlf">>) # {} THEN parseHeaders(x) ELSE x

LEMMA ParseIs == \A x : parse(x) = Rest(Headed(Started(x)))
BY DEF parse, Rest, Headed, Started, NoBody

(* Without a body to read, what is left in _inBuf is refused.              *)
LEMMA RestNoBody ==
  ASSUME NEW x \in Typed, x.errCode = 0,
         ~(x.state = "RS_HEADERS_READ" /\ (x.length # None \/ ask.te = "Transfert-Encoding"))
  PROVE  /\ x.inBuf = <<>> => Rest(x) = NoBody(x)
         /\ x.inBuf # <<>> => Rest(x) = Fail(NoBody(x), 400)
<1>1. NoBody(x).state = "RS_NO_BODY" /\ NoBody(x).inBuf = x.inBuf
  BY NoBodyIs
<1>2. Rest(x) = CASE x.errCode # 0 -> x
                  [] x.errCode = 0 /\ NoBody(x).state = "RS_NO_BODY" /\ Leftover(NoBody(x))
                       -> Fail(NoBody(x), 400)
                  [] OTHER -> NoBody(x)
  BY DEF Rest
<1> QED BY <1>1, <1>2 DEF Leftover

LEMMA RestBody ==
  ASSUME NEW x \in Typed, x.errCode = 0,
         x.state = "RS_HEADERS_READ", x.length # None \/ ask.te = "Transfert-Encoding",
         x.inBuf \in Seq(Piece), Unrouted(x), x.length \in Nat => Len(x.body) <= x.length
  PROVE  Rest(x) = parseBody(x)
<1>1. Parsed(parseBody(x))
  BY ParseBodyIs
<1>2. parseBody(x).state = "RS_NO_BODY" => ~Leftover(parseBody(x))
  BY <1>1 DEF Parsed, Refused, Midway, Whole, Leftover
<1>3. Rest(x) = CASE x.errCode # 0 -> x
                  [] x.errCode = 0 /\ parseBody(x).state = "RS_NO_BODY" /\ Leftover(parseBody(x))
                       -> Fail(parseBody(x), 400)
                  [] OTHER -> parseBody(x)
  BY DEF Rest
<1> QED BY <1>2, <1>3

LEMMA RefusedNoBody ==
  ASSUME NEW x \in Typed, Unrouted(x)
  PROVE  Fail(NoBody(x), 400) \in Typed /\ Refused(Fail(NoBody(x), 400)) /\ Unrouted(Fail(NoBody(x), 400))
<1>1. 400 \in Errors
  BY DEF Errors
<1>2. NoBody(x) \in Typed /\ Unrouted(NoBody(x))
  BY NoBodyIs
<1> QED BY <1>1, <1>2, FailIs

(* The header section was read, up to the token at 'from'.                 *)
AtBody(x) ==
  /\ x.state = "RS_HEADERS_READ" /\ x.errCode = 0 /\ Unrouted(x)
  /\ x.method = ask.method /\ x.length = ask.length

LEMMA FirstParse ==
  ASSUME ask \in Request, NEW x \in Typed, x.state = "RS_IDLE", x.errCode = 0, Unrouted(x),
         x.body = <<>>, x.length = None
  PROVE  \/ parse(x) \in Typed /\ Refused(parse(x)) /\ Unrouted(parse(x))
         \/ x.inBuf = <<>> /\ parse(x) = NoBody(x)
         \/ \E pos \in Nat, y \in Typed :
              /\ pos = Min(Found(x.inBuf, <<"crlf">>)) /\ pos >= 2 /\ pos <= Len(x.inBuf)
              /\ x.inBuf[1] = "start" /\ ask.line # "short"
              /\ y.method = ask.method /\ y.body = <<>> /\ y.errCode = 0 /\ Unrouted(y)
              /\ \/ /\ y.state = "RS_START_LINE_READ" /\ y.length = None
                    /\ y.inBuf = <<>> /\ After(x.inBuf, pos + 1) = <<>>
                    /\ parse(x) = NoBody(y)
                 \/ /\ AtBody(y) /\ parse(x) = Rest(y) /\ ask.fields = "ok"
                    /\ \E endPos \in Nat :
                         LET rest == After(x.inBuf, pos + 1) IN
                         /\ Found(rest, CRLF) # {}
                         /\ endPos = Min(Found(rest, CRLF)) /\ endPos >= 1 /\ endPos + 1 <= Len(rest)
                         /\ y.inBuf = After(rest, endPos + 2)
<1>1. parse(x) = Rest(Headed(Started(x)))
  BY ParseIs
<1>2. CASE Found(x.inBuf, <<"crlf">>) = {}
  <2>1. Started(x) = x
    BY <1>2 DEF Started
  <2>2. Headed(x) = x
    BY DEF Headed
  <2>3. x.inBuf = <<>> => Rest(x) = NoBody(x)
    BY RestNoBody
  <2>4. x.inBuf # <<>> => Rest(x) = Fail(NoBody(x), 400)
    BY RestNoBody
  <2> QED BY <1>1, <2>1, <2>2, <2>3, <2>4, RefusedNoBody
<1>3. CASE Found(x.inBuf, <<"crlf">>) # {}
  <2>1. PICK s \in Typed :
           /\ parseStartLine(x) = s /\ Unrouted(s)
           /\ \/ Refused(s)
              \/ /\ s.state = "RS_START_LINE_READ" /\ s.errCode = 0 /\ s.body = x.body
                 /\ s.method = ask.method /\ s.length = x.length
                 /\ ask.line # "short" /\ x.inBuf[1] = "start"
                 /\ \E pos \in Nat : /\ pos = Min(Found(x.inBuf, <<"crlf">>))
                                     /\ pos >= 2 /\ pos <= Len(x.inBuf)
                                     /\ s.inBuf = After(x.inBuf, pos + 1)
    BY <1>3, StartIs
  <2>2. Started(x) = s
    BY <1>3, <2>1 DEF Started
  <2>3. CASE Refused(s)
    <3>1. Headed(s) = s
      BY <2>3 DEF Headed, Refused
    <3>2. s.errCode # 0
      BY <2>3 DEF Refused, Errors
    <3>3. Rest(s) = s
      BY <3>2 DEF Rest
    <3> QED BY <1>1, <2>1, <2>2, <2>3, <3>1, <3>3
  <2>4. CASE ~Refused(s)
    <3>1. PICK pos \in Nat : /\ pos = Min(Found(x.inBuf, <<"crlf">>))
                             /\ pos >= 2 /\ pos <= Len(x.inBuf)
                             /\ s.inBuf = After(x.inBuf, pos + 1)
      BY <2>1, <2>4
    <3>2. /\ s.state = "RS_START_LINE_READ" /\ s.errCode = 0 /\ s.body = <<>> /\ s.method = ask.method
          /\ s.length = None /\ ask.line # "short" /\ x.inBuf[1] = "start" /\ Unrouted(s)
      BY <2>1, <2>4
    <3>3. CASE Found(s.inBuf, CRLF) = {}
      <4>1. Headed(s) = s
        BY <3>3 DEF Headed, CRLF
      <4>2. s.inBuf = <<>> => Rest(s) = NoBody(s)
        BY <3>2, RestNoBody
      <4>3. s.inBuf # <<>> => Rest(s) = Fail(NoBody(s), 400)
        BY <3>2, RestNoBody
      <4>4. CASE s.inBuf = <<>>
        BY <1>1, <2>2, <3>1, <3>2, <4>1, <4>2, <4>4
      <4> QED BY <1>1, <2>1, <2>2, <4>1, <4>3, <4>4, RefusedNoBody
    <3>4. CASE Found(s.inBuf, CRLF) # {}
      <4>1. PICK y \in Typed :
              /\ parseHeaders(s) = y /\ Unrouted(y)
              /\ \/ Refused(y)
                 \/ /\ y.state = "RS_HEADERS_READ" /\ y.errCode = 0 /\ y.body = s.body
                    /\ y.method = s.method /\ y.length = ask.length /\ ask.fields = "ok"
                    /\ \E end \in Nat : /\ end = Min(Found(s.inBuf, CRLF))
                                        /\ end >= 1 /\ end + 1 <= Len(s.inBuf)
                                        /\ y.inBuf = After(s.inBuf, end + 2)
        BY <3>2, <3>4, HeadersAre
      <4>2. Headed(s) = y
        BY <3>2, <3>4, <4>1 DEF Headed, CRLF
      <4>3. CASE Refused(y)
        <5>1. y.errCode # 0
          BY <4>3 DEF Refused, Errors
        <5>2. Rest(y) = y
          BY <5>1 DEF Rest
        <5> QED BY <1>1, <2>2, <4>1, <4>2, <4>3, <5>2
      <4>4. CASE ~Refused(y)
        <5>1. AtBody(y) /\ y.body = <<>> /\ ask.fields = "ok"
          BY <3>2, <4>1, <4>4 DEF AtBody
        <5>2. parse(x) = Rest(y)
          BY <1>1, <2>2, <4>2
        <5>3. PICK end \in Nat : /\ end = Min(Found(s.inBuf, CRLF))
                                 /\ end >= 1 /\ end + 1 <= Len(s.inBuf)
                                 /\ y.inBuf = After(s.inBuf, end + 2)
          BY <4>1, <4>4
        <5> QED BY <3>1, <3>2, <3>4, <4>1, <4>4, <5>1, <5>2, <5>3
      <4> QED BY <4>3, <4>4
    <3> QED BY <3>3, <3>4
  <2> QED BY <2>3, <2>4
<1> QED BY <1>2, <1>3

(* Nothing but the body comes after the fifth token of a request.          *)
LEMMA BodyAfter ==
  ASSUME NEW d \in Seq(Token), \A j \in DOMAIN d : j >= 5 => d[j] \in Piece,
         NEW pos \in Nat, pos >= 2, pos <= Len(d), NEW rest, rest = After(d, pos + 1),
         NEW end \in Nat, end >= 1, end + 1 <= Len(rest)
  PROVE  After(rest, end + 2) \in Seq(Piece)
<1>1. pos + 1 \in Nat \ {0} /\ pos + 1 <= Len(d) + 1
  OBVIOUS
<1>2. /\ rest \in Seq(Token) /\ Len(rest) = Len(d) - (pos + 1) + 1
      /\ \A j \in 1..(Len(d) - (pos + 1) + 1) : rest[j] = d[j + (pos + 1) - 1]
  BY <1>1, AfterIs
<1>3. end + 2 \in Nat \ {0} /\ end + 2 <= Len(rest) + 1
  BY <1>2
<1>a. PICK r : r = After(rest, end + 2)
  OBVIOUS
<1>4. /\ r \in Seq(Token) /\ Len(r) = Len(rest) - (end + 2) + 1
      /\ \A j \in 1..(Len(rest) - (end + 2) + 1) : r[j] = rest[j + (end + 2) - 1]
  BY <1>2, <1>3, <1>a, AfterIs, ZenonT(40)
<1>5. \A j \in 1..Len(r) : r[j] \in Piece
  <2> TAKE j \in 1..Len(r)
  <2>1. r[j] = rest[j + end + 1] /\ j + end + 1 \in 1..Len(rest)
    BY <1>2, <1>4
  <2>2. rest[j + end + 1] = d[j + end + 1 + pos] /\ j + end + 1 + pos \in 1..Len(d)
    BY <1>2, <2>1
  <2>3. j + end + 1 + pos >= 5
    BY <1>4
  <2> QED BY <2>1, <2>2, <2>3
<1>6. r \in Seq(Piece)
  BY <1>4, <1>5, AllIn
<1> QED BY <1>6, <1>a

(* parse of an exchange that is new, in the middle of a body, or answered. *)
LEMMA FirstParsed ==
  ASSUME ask \in Request, NEW x \in Typed, x.state = "RS_IDLE", x.errCode = 0, Unrouted(x),
         x.body = <<>>, x.length = None, \A j \in DOMAIN x.inBuf : j >= 5 => x.inBuf[j] \in Piece
  PROVE  parse(x) \in Typed /\ Parsed(parse(x))
<1>1. CASE parse(x) \in Typed /\ Refused(parse(x)) /\ Unrouted(parse(x))
  BY <1>1 DEF Parsed
<1>2. ASSUME NEW y \in Typed, y.inBuf = <<>>, y.errCode = 0, Unrouted(y)
      PROVE  NoBody(y) \in Typed /\ Parsed(NoBody(y))
  <2>1. NoBody(y).code \in Served
    BY <1>2, NoBodyIs DEF Unrouted, Served
  <2> QED BY <1>2, <2>1, NoBodyIs DEF Parsed, Whole
<1>3. CASE x.inBuf = <<>> /\ parse(x) = NoBody(x)
  BY <1>2, <1>3
<1>4. CASE \E pos \in Nat, y \in Typed :
              /\ pos = Min(Found(x.inBuf, <<"crlf">>)) /\ pos >= 2 /\ pos <= Len(x.inBuf)
              /\ x.inBuf[1] = "start" /\ ask.line # "short"
              /\ y.method = ask.method /\ y.body = <<>> /\ y.errCode = 0 /\ Unrouted(y)
              /\ \/ /\ y.state = "RS_START_LINE_READ" /\ y.length = None
                    /\ y.inBuf = <<>> /\ After(x.inBuf, pos + 1) = <<>>
                    /\ parse(x) = NoBody(y)
                 \/ /\ AtBody(y) /\ parse(x) = Rest(y) /\ ask.fields = "ok"
                    /\ \E endPos \in Nat :
                         LET rest == After(x.inBuf, pos + 1) IN
                         /\ Found(rest, CRLF) # {}
                         /\ endPos = Min(Found(rest, CRLF)) /\ endPos >= 1 /\ endPos + 1 <= Len(rest)
                         /\ y.inBuf = After(rest, endPos + 2)
  <2>1. PICK pos \in Nat, y \in Typed :
              /\ pos >= 2 /\ pos <= Len(x.inBuf)
              /\ y.body = <<>> /\ y.errCode = 0 /\ Unrouted(y)
              /\ \/ y.inBuf = <<>> /\ parse(x) = NoBody(y)
                 \/ /\ AtBody(y) /\ parse(x) = Rest(y)
                    /\ \E endPos \in Nat :
                         LET rest == After(x.inBuf, pos + 1) IN
                         /\ endPos >= 1 /\ endPos + 1 <= Len(rest)
                         /\ y.inBuf = After(rest, endPos + 2)
    BY <1>4
  <2>2. CASE y.inBuf = <<>> /\ parse(x) = NoBody(y)
    BY <1>2, <2>1, <2>2
  <2>3. CASE ~(y.inBuf = <<>> /\ parse(x) = NoBody(y))
    <3>1. AtBody(y) /\ parse(x) = Rest(y)
      BY <2>1, <2>3
    <3>2. y.inBuf \in Seq(Piece)
      <4> DEFINE rest == After(x.inBuf, pos + 1)
      <4>1. PICK endPos \in Nat : /\ endPos >= 1 /\ endPos + 1 <= Len(rest)
                                 /\ y.inBuf = After(rest, endPos + 2)
        BY <2>1, <2>3
      <4>2. x.inBuf \in Seq(Token)
        BY DEF Typed
      <4> QED BY <2>1, <4>1, <4>2, BodyAfter
    <3>3. CASE y.length # None \/ ask.te = "Transfert-Encoding"
      <4>1. y.length \in Nat => Len(y.body) <= y.length
        BY <2>1
      <4>2. y.state = "RS_HEADERS_READ" /\ y.errCode = 0 /\ Unrouted(y)
        BY <3>1 DEF AtBody
      <4>3. Rest(y) = parseBody(y)
        BY <3>2, <3>3, <4>1, <4>2, RestBody
      <4>4. parseBody(y) \in Typed /\ Parsed(parseBody(y))
        BY <3>2, <4>1, <4>2, ParseBodyIs
      <4> QED BY <3>1, <4>3, <4>4
    <3>4. CASE ~(y.length # None \/ ask.te = "Transfert-Encoding")
      <4>1. y.inBuf = <<>> => Rest(y) = NoBody(y)
        BY <2>1, <3>4, RestNoBody
      <4>2. y.inBuf # <<>> => Rest(y) = Fail(NoBody(y), 400)
        BY <2>1, <3>4, RestNoBody
      <4>3. CASE y.inBuf = <<>>
        BY <1>2, <2>1, <3>1, <4>1, <4>3
      <4>4. CASE y.inBuf # <<>>
        BY <2>1, <3>1, <4>2, <4>4, RefusedNoBody DEF Parsed
      <4> QED BY <4>3, <4>4
    <3> QED BY <3>3, <3>4
  <2> QED BY <2>2, <2>3
<1> QED BY <1>1, <1>3, <1>4, FirstParse

LEMMA BodyParsed ==
  ASSUME NEW x \in Typed, x.inBuf \in Seq(Piece), x.state = "RS_HEADERS_READ", x.errCode = 0,
         Unrouted(x), x.length \in Nat, Len(x.body) <= x.length
  PROVE  /\ parse(x) = parseBody(x)
         /\ parse(x) \in Typed /\ Parsed(parse(x))
<1>1. Started(x) = x /\ Headed(x) = x
  BY DEF Started, Headed
<1>2. x.length # None
  BY DEF None
<1>3. Rest(x) = parseBody(x)
  BY <1>2, RestBody
<1>4. parseBody(x) \in Typed /\ Parsed(parseBody(x))
  BY ParseBodyIs
<1> QED BY <1>1, <1>3, <1>4, ParseIs

LEMMA ReadyParsed ==
  ASSUME NEW x \in Typed, x.state = "RS_READY", x.errCode = 0
  PROVE  parse(x) = IF x.inBuf = <<>> THEN NoBody(x) ELSE Fail(NoBody(x), 400)
<1>1. Started(x) = x /\ Headed(x) = x
  BY DEF Started, Headed
<1> QED BY <1>1, RestNoBody, ParseIs

-----------------------------------------------------------------------------
(* What the router and the handler leave.                                  *)

Kinds == {"REDIRECTION", "DIRECTORY", "REG_FILE", "CGI"}

Routed(x) ==
  /\ x.state = "RS_ROUTING_DONE" /\ x.errCode = 0 /\ x.inBuf = <<>> /\ x.code \in Served
  /\ x.method \in {"GET", "POST", "DELETE"}
  /\ x.type \in Kinds /\ x.url \in E!Page

Set(x, state) == [x EXCEPT !.state = state]

LEMMA SetIs ==
  ASSUME NEW x \in Typed, NEW state \in States
  PROVE  /\ Set(x, state) \in Typed /\ Set(x, state).state = state
         /\ Set(x, state).errCode = x.errCode /\ Set(x, state).inBuf = x.inBuf
         /\ Set(x, state).code = x.code /\ Set(x, state).method = x.method
         /\ Set(x, state).type = x.type /\ Set(x, state).url = x.url /\ Set(x, state).done = x.done
         /\ Set(x, state).body = x.body
<1>1. [x EXCEPT !.state = state] \in Typed
  BY Zenon DEF Typed
<1>2. \A y : y = [x EXCEPT !.state = state] =>
        /\ y.state = state /\ y.errCode = x.errCode /\ y.inBuf = x.inBuf /\ y.code = x.code
        /\ y.method = x.method /\ y.type = x.type /\ y.url = x.url /\ y.done = x.done
        /\ y.body = x.body
  BY DEF Typed
<1> QED BY <1>1, <1>2 DEF Set

LEMMA ValidIs ==
  ASSUME NEW x \in Typed
  PROVE  \/ \E code \in Errors : validateRequest(x) = Fail(x, code)
         \/ /\ validateRequest(x) = Set(x, "RS_HEADERS_DONE") /\ x.method \in {"GET", "POST", "DELETE"}
            /\ x.method = "POST" => x.length # None
<1> DEFINE a == x.method \in {"OTHER", ""}
           b == ask.version = "junk"
           c == ask.version = "other"
           d == x.method = "POST" /\ x.length = None
<1>1. validateRequest(x) =
        CASE a -> Fail(x, 405) [] b -> Fail(x, 400) [] c -> Fail(x, 505) [] d -> Fail(x, 400)
          [] OTHER -> Set(x, "RS_HEADERS_DONE")
  BY DEF validateRequest, Set
<1> HIDE DEF b, c, d
<1>2. \/ validateRequest(x) = Fail(x, 405) \/ validateRequest(x) = Fail(x, 400)
      \/ validateRequest(x) = Fail(x, 505)
      \/ validateRequest(x) = Set(x, "RS_HEADERS_DONE") /\ ~a /\ ~d
  BY <1>1, Zenon
<1>3. x.method \in Methods
  BY DEF Typed
<1>4. 400 \in Errors /\ 405 \in Errors /\ 505 \in Errors
  BY DEF Errors
<1>5. ~a => x.method \in {"GET", "POST", "DELETE"}
  BY <1>3 DEF Methods
<1>6. ~d => (x.method = "POST" => x.length # None)
  BY DEF d
<1> HIDE DEF a
<1> QED BY <1>2, <1>4, <1>5, <1>6

As(x, type, url) == [x EXCEPT !.type = type, !.url = url]

LEMMA TypeIs ==
  ASSUME NEW x \in Typed
  PROVE  \A y \in defineRequestType(x) :
           \/ \E code \in Errors : y = Fail(x, code)
           \/ \E type \in Kinds, url \in E!Page :
                y = As(x, type, url)
BY DEF defineRequestType, Errors, E!Page, As, Kinds

LEMMA AsIs ==
  ASSUME NEW x \in Typed, NEW type \in Kinds,
         NEW url \in E!Page
  PROVE  LET y == As(x, type, url) IN
         /\ y \in Typed /\ y.type = type /\ y.url = url /\ y.state = x.state
         /\ y.errCode = x.errCode /\ y.inBuf = x.inBuf /\ y.code = x.code
         /\ y.method = x.method /\ y.done = x.done /\ y.body = x.body
<1>1. As(x, type, url) \in Typed
  <2>1. type \in Types /\ url \in Urls
    BY DEF Types, Urls, Kinds
  <2> QED BY <2>1, Zenon DEF Typed, As
<1> QED BY <1>1 DEF Typed, As

LEMMA FailKeeps ==
  ASSUME NEW x \in Typed, NEW code \in Errors
  PROVE  /\ Fail(x, code) \in Typed /\ Refused(Fail(x, code)) /\ Fail(x, code).errCode = code
         /\ Fail(x, code).done = x.done
BY FailIs

LEMMA RouteIs ==
  ASSUME NEW x \in Typed, Whole(x)
  PROVE  \A r \in route(x) :
           /\ r \in Typed /\ r.done = x.done
           /\ \/ Refused(r)
              \/ /\ Routed(r) /\ r.method = x.method /\ r.body = x.body
                 /\ x.method = "POST" => x.length # None
<1> TAKE r \in route(x)
<1>1. CASE \E code \in Errors : validateRequest(x) = Fail(x, code)
  <2>1. PICK code \in Errors : validateRequest(x) = Fail(x, code)
    BY <1>1
  <2>2. Fail(x, code).state = "RS_CLOSE"
    BY FailIs DEF Refused
  <2>3. r = Fail(x, code)
    BY <2>1, <2>2 DEF route
  <2> QED BY <2>3, FailKeeps
<1>2. CASE /\ validateRequest(x) = Set(x, "RS_HEADERS_DONE") /\ x.method \in {"GET", "POST", "DELETE"}
           /\ x.method = "POST" => x.length # None
  <2>1. "RS_HEADERS_DONE" \in States /\ "RS_ROUTING_DONE" \in States
    BY DEF States
  <2>2. PICK v \in Typed : v = Set(x, "RS_HEADERS_DONE")
    BY <2>1, SetIs
  <2>3. /\ v.state = "RS_HEADERS_DONE" /\ v.errCode = 0 /\ v.inBuf = <<>> /\ v.code = x.code
        /\ v.method = x.method /\ v.done = x.done /\ v.body = x.body
    BY <2>1, <2>2, SetIs DEF Whole
  <2>4. PICK y \in defineRequestType(v) : r = IF y.state = "RS_CLOSE" THEN y ELSE Set(y, "RS_ROUTING_DONE")
    BY <1>2, <2>2, <2>3 DEF route, Set
  <2>5. CASE \E code \in Errors : y = Fail(v, code)
    <3>1. PICK code \in Errors : y = Fail(v, code)
      BY <2>5
    <3>2. y.state = "RS_CLOSE" /\ Refused(y) /\ y \in Typed /\ y.done = x.done
      BY <3>1, <2>3, FailKeeps DEF Refused
    <3> QED BY <2>4, <3>2
  <2>6. CASE \E type \in Kinds, url \in E!Page :
                y = As(v, type, url)
    <3>1. PICK type \in Kinds, url \in E!Page :
                y = As(v, type, url)
      BY <2>6
    <3>2. /\ y \in Typed /\ y.type = type /\ y.url = url /\ y.state = v.state
          /\ y.errCode = v.errCode /\ y.inBuf = v.inBuf /\ y.code = v.code
          /\ y.method = v.method /\ y.done = v.done /\ y.body = v.body
      BY <3>1, AsIs
    <3>3. r = Set(y, "RS_ROUTING_DONE")
      BY <2>3, <2>4, <3>2
    <3>4. /\ r \in Typed /\ r.state = "RS_ROUTING_DONE" /\ r.errCode = 0 /\ r.inBuf = <<>>
          /\ r.code = x.code /\ r.method = x.method /\ r.type = type /\ r.url = url
          /\ r.done = x.done /\ r.body = x.body
      BY <2>1, <2>3, <3>2, <3>3, SetIs
    <3> QED BY <1>2, <3>4 DEF Whole, Routed
  <2> QED BY <2>4, <2>5, <2>6, TypeIs
<1> QED BY <1>1, <1>2, ValidIs

(* What may be done for a request, of which 'done' was done already.       *)
Words(x) ==
  {<<"run">>, <<"delete">>} \cup (IF x.method = "POST" THEN {<<"upload">> \o x.body} ELSE {})

LEMMA WordsAre == ASSUME NEW x \in Typed PROVE Words(x) \subseteq Seq(Word)
<1>1. x.body \in Seq(Word)
  <2>1. x.body \in Seq(Piece) /\ Piece \subseteq Word
    BY DEF Typed, Word
  <2> QED BY <2>1
<1>2. <<"upload">> \in Seq(Word) /\ <<"run">> \in Seq(Word) /\ <<"delete">> \in Seq(Word)
  BY DEF Word
<1>3. <<"upload">> \o x.body \in Seq(Word)
  BY <1>1, <1>2, ConcatProperties
<1> QED BY <1>2, <1>3 DEF Words

Settled(h, done, words) ==
  /\ h \in Typed /\ (Refused(h) \/ Answered(h))
  /\ h.done = done \/ \E w \in words : h.done = Append(done, w)

LEMMA ReadyIs ==
  ASSUME NEW x \in Typed, x.errCode = 0, x.inBuf = <<>>, x.url \in E!Page, NEW code \in Served
  PROVE  /\ Ready(x, code) \in Typed /\ Answered(Ready(x, code)) /\ Ready(x, code).done = x.done
<1>1. code \in Codes /\ "RS_READY" \in States
  BY DEF Codes, Served, States
<1>2. [x EXCEPT !.code = code, !.state = "RS_READY"] \in Typed
  BY <1>1, Zenon DEF Typed
<1>3. \A y : y = [x EXCEPT !.code = code, !.state = "RS_READY"] =>
        /\ y.code = code /\ y.state = "RS_READY" /\ y.errCode = 0 /\ y.inBuf = <<>>
        /\ y.url = x.url /\ y.done = x.done
  BY DEF Typed
<1> QED BY <1>2, <1>3 DEF Ready, Answered

LEMMA DidIs ==
  ASSUME NEW x \in Typed, NEW w \in Seq(Word)
  PROVE  /\ Did(x, w) \in Typed /\ Did(x, w).done = Append(x.done, w)
         /\ Did(x, w).errCode = x.errCode /\ Did(x, w).inBuf = x.inBuf /\ Did(x, w).url = x.url
         /\ Did(x, w).code = x.code /\ Did(x, w).state = x.state
<1>1. PICK d \in Dones : d = Append(x.done, w)
  <2>1. x.done \in Seq(Seq(Word))
    BY DEF Dones, Typed
  <2>2. Append(x.done, w) \in Seq(Seq(Word))
    BY <2>1
  <2> QED BY <2>2 DEF Dones
<1>2. Did(x, w) = [x EXCEPT !.done = d]
  BY <1>1 DEF Did
<1>3. [x EXCEPT !.done = d] \in Typed
  BY Zenon DEF Typed
<1>4. \A y : y = [x EXCEPT !.done = d] =>
        /\ y.done = d /\ y.errCode = x.errCode /\ y.inBuf = x.inBuf /\ y.url = x.url
        /\ y.code = x.code /\ y.state = x.state
  BY DEF Typed
<1> QED BY <1>1, <1>2, <1>3, <1>4

At(x, page) == [x EXCEPT !.url = page]

LEMMA AtIs ==
  ASSUME NEW x \in Typed, NEW page \in E!Page
  PROVE  /\ At(x, page) \in Typed /\ At(x, page).url = page /\ At(x, page).done = x.done
         /\ At(x, page).errCode = x.errCode /\ At(x, page).inBuf = x.inBuf
         /\ At(x, page).code = x.code /\ At(x, page).state = x.state
<1>1. [x EXCEPT !.url = page] \in Typed
  <2>1. page \in Urls
    BY DEF Urls
  <2> QED BY <2>1, Zenon DEF Typed
<1>2. \A y : y = [x EXCEPT !.url = page] =>
        /\ y.url = page /\ y.done = x.done /\ y.errCode = x.errCode /\ y.inBuf = x.inBuf
        /\ y.code = x.code /\ y.state = x.state
  BY DEF Typed
<1> QED BY <1>1, <1>2 DEF At

LEMMA SettledIs ==
  ASSUME NEW x \in Typed, x.errCode = 0, x.inBuf = <<>>, x.url \in E!Page, NEW done, NEW words,
         x.done = done \/ \E w \in words : x.done = Append(done, w)
  PROVE  /\ \A code \in Served : Settled(Ready(x, code), done, words)
         /\ \A code \in Errors : Settled(Fail(x, code), done, words)
<1>1. ASSUME NEW code \in Served PROVE Settled(Ready(x, code), done, words)
  BY ReadyIs DEF Settled
<1>2. ASSUME NEW code \in Errors PROVE Settled(Fail(x, code), done, words)
  BY FailKeeps DEF Settled
<1> QED BY <1>1, <1>2

LEMMA HandleIs ==
  ASSUME NEW x \in Typed, Routed(x)
  PROVE  \A h \in handle(x) : Settled(h, x.done, Words(x))
<1>a. PICK words : words = Words(x)
  OBVIOUS
<1> SUFFICES \A h \in handle(x) : Settled(h, x.done, words)
  BY <1>a
<1>0. words \subseteq Seq(Word)
  BY <1>a, WordsAre
<1>w. /\ <<"run">> \in words /\ <<"delete">> \in words
      /\ x.method = "POST" => <<"upload">> \o x.body \in words
  BY <1>a DEF Words
<1>1. x.errCode = 0 /\ x.inBuf = <<>> /\ x.url \in E!Page /\ x.code \in Served
  BY DEF Routed
<1>2. /\ \A code \in Served : Settled(Ready(x, code), x.done, words)
      /\ \A code \in Errors : Settled(Fail(x, code), x.done, words)
  BY <1>1, SettledIs
<1>3. ASSUME NEW w \in words, NEW y \in Typed, y.errCode = 0, y.inBuf = <<>>, y.url \in E!Page,
             y.done = x.done
      PROVE  /\ \A code \in Served : Settled(Ready(Did(y, w), code), x.done, words)
             /\ \A code \in Errors : Settled(Fail(Did(y, w), code), x.done, words)
  <2>1. /\ Did(y, w) \in Typed /\ Did(y, w).errCode = 0 /\ Did(y, w).inBuf = <<>>
        /\ Did(y, w).url \in E!Page /\ Did(y, w).done = Append(x.done, w)
    BY <1>0, <1>3, DidIs
  <2> QED BY <2>1, SettledIs
<1>4. /\ {400, 403, 404, 405, 413, 500} \subseteq Errors
      /\ {201, 205, 302} \subseteq Served
  BY DEF Errors, Served
<1>5. CASE x.type = "REDIRECTION"
  <2>1. handle(x) = {Ready(x, 302)}
    BY <1>5 DEF handle
  <2> QED BY <1>2, <1>4, <2>1
<1>6. CASE x.type # "REDIRECTION" /\ x.method = "GET"
  <2>1. handle(x) = handleGet(x)
    BY <1>6 DEF handle
  <2>2. CASE x.type = "CGI"
    <3>1. PICK w \in words : w = <<"run">>
      BY <1>w
    <3>2. handle(x) = {Ready(Did(x, w), x.code), Fail(Did(x, w), 500)}
      <4>1. handleGet(x) = handleCgi(x)
        BY <2>2 DEF handleGet
      <4> QED BY <2>1, <3>1, <4>1 DEF handleCgi
    <3>3. 500 \in Errors
      BY <1>4
    <3>4. Settled(Ready(Did(x, w), x.code), x.done, words) /\ Settled(Fail(Did(x, w), 500), x.done, words)
      BY <1>1, <1>3, <3>3
    <3> QED BY <3>2, <3>4
  <2>3. CASE x.type = "REG_FILE"
    <3>1. handle(x) = {Ready(x, x.code), Fail(x, 403)}
      BY <2>1, <2>3 DEF handleGet
    <3> QED BY <1>1, <1>2, <1>4, <3>1
  <2>4. CASE x.type = "DIRECTORY"
    <3>1. handle(x) = {Fail(x, 403), Ready(x, x.code)} \cup {Ready(At(x, p), x.code) : p \in E!Page}
      BY <2>1, <2>4 DEF handleGet, At
    <3>2. ASSUME NEW p \in E!Page PROVE Settled(Ready(At(x, p), x.code), x.done, words)
      <4>1. /\ At(x, p) \in Typed /\ At(x, p).url \in E!Page /\ At(x, p).errCode = 0
            /\ At(x, p).inBuf = <<>> /\ At(x, p).done = x.done
        BY <1>1, AtIs
      <4> QED BY <1>1, <4>1, SettledIs
    <3> QED BY <1>1, <1>2, <1>4, <3>1, <3>2
  <2> QED BY <1>6, <2>2, <2>3, <2>4 DEF Routed, Kinds
<1>7. CASE x.type # "REDIRECTION" /\ x.method = "POST"
  <2>1. PICK w \in words : w = <<"upload">> \o Contents(x)
    BY <1>w, <1>7 DEF Contents
  <2>2. handle(x) = {Fail(x, code) : code \in {403, 405, 500}} \cup {Ready(Did(x, w), 201)}
    <3>1. handle(x) = handlePost(x)
      BY <1>7 DEF handle
    <3> QED BY <2>1, <3>1 DEF handlePost
  <2>3. \A code \in {403, 405, 500} : Settled(Fail(x, code), x.done, words)
    BY <1>2, <1>4
  <2>4. Settled(Ready(Did(x, w), 201), x.done, words)
    BY <1>1, <1>3, <1>4
  <2> QED BY <2>2, <2>3, <2>4
<1>8. CASE x.type # "REDIRECTION" /\ x.method = "DELETE"
  <2>1. handle(x) = handleDelete(x)
    BY <1>8 DEF handle
  <2>2. CASE x.type = "CGI"
    <3>1. handle(x) = {Fail(x, 405)}
      BY <2>1, <2>2 DEF handleDelete
    <3> QED BY <1>2, <1>4, <3>1
  <2>3. CASE x.type # "CGI"
    <3>1. PICK y, w : y = At(x, "gone") /\ w = <<"delete">>
      OBVIOUS
    <3>2. handle(x) = {Fail(x, 403), Fail(x, 500), Fail(Did(y, w), 500), Ready(Did(y, w), 205)}
      BY <2>1, <2>3, <3>1 DEF handleDelete, At
    <3>3. /\ y \in Typed /\ y.url \in E!Page /\ y.errCode = 0 /\ y.inBuf = <<>>
          /\ y.done = x.done
      <4>1. "gone" \in E!Page
        BY DEF E!Page
      <4> QED BY <1>1, <3>1, <4>1, AtIs
    <3>4. w \in words
      BY <1>w, <3>1
    <3>5. 500 \in Errors /\ 205 \in Served
      BY <1>4
    <3>6. Settled(Fail(Did(y, w), 500), x.done, words) /\ Settled(Ready(Did(y, w), 205), x.done, words)
      BY <1>3, <3>3, <3>4, <3>5
    <3> QED BY <1>2, <1>4, <3>2, <3>6
  <2> QED BY <2>2, <2>3
<1> QED BY <1>5, <1>6, <1>7, <1>8 DEF Routed

-----------------------------------------------------------------------------
(* What process leaves.                                                    *)

Closed(x)   == Refused(x) /\ x.outBuf = "error" /\ x.code = x.errCode
Finished(x) == Answered(x) /\ x.outBuf = "page"

LEMMA AnswerIs ==
  ASSUME NEW h \in Typed
  PROVE  /\ Refused(h) => /\ buildAnswer(h) \in Typed /\ Closed(buildAnswer(h))
                          /\ buildAnswer(h).done = h.done /\ buildAnswer(h).errCode = h.errCode
         /\ Answered(h) => /\ buildAnswer(h) \in Typed /\ Finished(buildAnswer(h))
                           /\ buildAnswer(h).done = h.done
         /\ Midway(h) => buildAnswer(h) = h
<1>1. ASSUME Refused(h)
      PROVE  /\ buildAnswer(h) \in Typed /\ Closed(buildAnswer(h))
             /\ buildAnswer(h).done = h.done /\ buildAnswer(h).errCode = h.errCode
  <2>a. PICK code : code = h.errCode
    OBVIOUS
  <2>1. buildAnswer(h) = [h EXCEPT !.outBuf = "error", !.code = code]
    BY <1>1, <2>a DEF buildAnswer, Refused
  <2>2. "error" \in OutBufs /\ code \in Codes
    BY <1>1, <2>a DEF OutBufs, Codes, Refused
  <2>3. [h EXCEPT !.outBuf = "error", !.code = code] \in Typed
    BY <2>2, Zenon DEF Typed
  <2>4. \A y : y = [h EXCEPT !.outBuf = "error", !.code = code] =>
          /\ y.outBuf = "error" /\ y.code = code /\ y.state = h.state /\ y.errCode = h.errCode
          /\ y.done = h.done
    BY DEF Typed
  <2> QED BY <1>1, <2>a, <2>1, <2>3, <2>4 DEF Closed, Refused
<1>2. ASSUME Answered(h)
      PROVE  /\ buildAnswer(h) \in Typed /\ Finished(buildAnswer(h))
             /\ buildAnswer(h).done = h.done
  <2>1. buildAnswer(h) = [h EXCEPT !.outBuf = "page"]
    BY <1>2 DEF buildAnswer, Answered
  <2>2. "page" \in OutBufs
    BY DEF OutBufs
  <2>3. [h EXCEPT !.outBuf = "page"] \in Typed
    BY <2>2, Zenon DEF Typed
  <2>4. \A y : y = [h EXCEPT !.outBuf = "page"] =>
          /\ y.outBuf = "page" /\ y.code = h.code /\ y.state = h.state /\ y.errCode = h.errCode
          /\ y.done = h.done /\ y.inBuf = h.inBuf /\ y.url = h.url
    BY DEF Typed
  <2> QED BY <1>2, <2>1, <2>3, <2>4 DEF Finished, Answered
<1>3. Midway(h) => buildAnswer(h) = h
  BY DEF Midway, buildAnswer
<1> QED BY <1>1, <1>2, <1>3

With(x, data) == [x EXCEPT !.inBuf = @ \o data]
Routes(p)  == IF p.state \in {"RS_BODY_DONE", "RS_NO_BODY"} THEN route(p) ELSE {p}
Handles(r) == IF r.state = "RS_ROUTING_DONE" THEN handle(r) ELSE {r}

LEMMA ProcessIs ==
  \A x, data : process(x, data) =
    {buildAnswer(h) : h \in UNION {Handles(r) : r \in Routes(parse(With(x, data)))}}
BY DEF process, Routes, Handles, With

LEMMA ProcessRefused ==
  ASSUME NEW x, NEW data, NEW p \in Typed, p = parse(With(x, data)), Refused(p)
  PROVE  \A e \in process(x, data) :
           e \in Typed /\ Closed(e) /\ e.done = p.done /\ e.errCode = p.errCode
<1>1. Routes(p) = {p} /\ Handles(p) = {p}
  BY DEF Routes, Handles, Refused
<1>2. UNION {Handles(r) : r \in Routes(p)} = {p}
  BY <1>1
<1>3. process(x, data) = {buildAnswer(h) : h \in {p}}
  BY <1>2, ProcessIs
<1> QED BY <1>3, AnswerIs

LEMMA ProcessMidway ==
  ASSUME NEW x, NEW data, NEW p \in Typed, p = parse(With(x, data)), Midway(p)
  PROVE  process(x, data) = {p}
<1>1. Routes(p) = {p} /\ Handles(p) = {p}
  BY DEF Routes, Handles, Midway
<1>2. UNION {Handles(r) : r \in Routes(p)} = {p}
  BY <1>1
<1>3. process(x, data) = {buildAnswer(h) : h \in {p}}
  BY <1>2, ProcessIs
<1> QED BY <1>3, AnswerIs

LEMMA ProcessWhole ==
  ASSUME NEW x, NEW data, NEW p \in Typed, p = parse(With(x, data)), Whole(p)
  PROVE  \A e \in process(x, data) :
           /\ e \in Typed /\ (Closed(e) \/ Finished(e))
           /\ \/ e.done = p.done
              \/ /\ \E w \in Words(p) : e.done = Append(p.done, w)
                 /\ p.method = "POST" => p.length # None
<1> TAKE e \in process(x, data)
<1>1. PICK h : e = buildAnswer(h) /\ h \in UNION {Handles(r) : r \in Routes(p)}
  BY ProcessIs
<1>2. PICK r : r \in Routes(p) /\ h \in Handles(r)
  BY <1>1
<1>3. r \in route(p)
  BY <1>2 DEF Routes, Whole
<1>4. /\ r \in Typed /\ r.done = p.done /\ (Refused(r) \/ Routed(r))
      /\ Refused(r) \/ (Words(r) = Words(p) /\ (p.method = "POST" => p.length # None))
  BY <1>3, RouteIs DEF Words
<1>5. /\ Settled(h, p.done, Words(p))
      /\ h.done = p.done \/ (p.method = "POST" => p.length # None)
  <2>1. CASE Refused(r)
    <3>1. h = r
      BY <1>2, <2>1 DEF Handles, Refused
    <3> QED BY <1>4, <2>1, <3>1 DEF Settled
  <2>2. CASE Routed(r)
    <3>1. h \in handle(r)
      BY <1>2, <2>2 DEF Handles, Routed
    <3>2. ~Refused(r)
      BY <2>2 DEF Routed, Refused
    <3>3. Settled(h, r.done, Words(r))
      BY <1>4, <2>2, <3>1, HandleIs
    <3> QED BY <1>4, <3>2, <3>3
  <2> QED BY <1>4, <2>1, <2>2
<1> QED BY <1>1, <1>5, AnswerIs DEF Settled

-----------------------------------------------------------------------------
(* The bytes of a request, taken one recv after another.                   *)

(* The tokens of a text from the (k+1)-th on.                              *)
LEMMA SliceIs ==
  ASSUME NEW S, NEW s \in Seq(S), NEW i \in Nat, NEW k \in Nat, i <= k, k <= Len(s)
  PROVE  /\ SubSeq(s, i + 1, k) \in Seq(S) /\ Len(SubSeq(s, i + 1, k)) = k - i
         /\ \A j \in 1..(k - i) : SubSeq(s, i + 1, k)[j] = s[i + j]
<1>1. \A j \in (i + 1)..k : s[j] \in S
  OBVIOUS
<1>2. /\ SubSeq(s, i + 1, k) \in Seq(S)
      /\ Len(SubSeq(s, i + 1, k)) = IF i + 1 <= k THEN k - (i + 1) + 1 ELSE 0
      /\ \A j \in 1..(k - (i + 1) + 1) : SubSeq(s, i + 1, k)[j] = s[(i + 1) + j - 1]
  BY <1>1, SubSeqProperties
<1>3. (IF i + 1 <= k THEN k - (i + 1) + 1 ELSE 0) = k - i
  OBVIOUS
<1>4. \A j \in 1..(k - i) : SubSeq(s, i + 1, k)[j] = s[i + j]
  <2> TAKE j \in 1..(k - i)
  <2>1. j \in 1..(k - (i + 1) + 1) /\ (i + 1) + j - 1 = i + j
    OBVIOUS
  <2> QED BY <1>2, <2>1
<1> QED BY <1>2, <1>3, <1>4

LEMMA Recv ==
  ASSUME NEW S, NEW s \in Seq(S), NEW i \in Nat, NEW k \in Nat, NEW n \in Nat,
         i <= k, k + n <= Len(s)
  PROVE  /\ SubSeq(s, i + 1, k) \o SubSeq(SubSeq(s, k + 1, Len(s)), 1, n) = SubSeq(s, i + 1, k + n)
         /\ SubSeq(SubSeq(s, k + 1, Len(s)), 1, n) = SubSeq(s, k + 1, k + n)
         /\ After(SubSeq(s, k + 1, Len(s)), n + 1) = SubSeq(s, k + n + 1, Len(s))
<1> PICK got, left : got = SubSeq(s, i + 1, k) /\ left = SubSeq(s, k + 1, Len(s))
  OBVIOUS
<1>1. /\ got \in Seq(S) /\ Len(got) = k - i
      /\ \A j \in 1..(k - i) : got[j] = s[i + j]
  BY SliceIs
<1>2. /\ left \in Seq(S) /\ Len(left) = Len(s) - k
      /\ \A j \in 1..(Len(s) - k) : left[j] = s[k + j]
  BY SliceIs
<1>a. PICK t, u : t = SubSeq(left, 1, n) /\ u = SubSeq(s, k + 1, k + n)
  OBVIOUS
<1>3. t \in Seq(S) /\ Len(t) = n /\ \A j \in 1..n : t[j] = s[k + j]
  <2>1. n <= Len(left)
    BY <1>2
  <2>2. t \in Seq(S) /\ Len(t) = n
    BY <1>a, <1>2, <2>1, Cut
  <2>3. \A j \in 1..n : left[j] \in S
    BY <1>2, <2>1
  <2>4. \A j \in 1..(n - 1 + 1) : SubSeq(left, 1, n)[j] = left[1 + j - 1]
    BY <2>3, SubSeqProperties
  <2>5. \A j \in 1..n : t[j] = left[j]
    BY <1>a, <2>4, SMTT(30)
  <2>6. \A j \in 1..n : left[j] = s[k + j]
    BY <1>2, <2>1
  <2> QED BY <2>2, <2>5, <2>6
<1>4. u \in Seq(S) /\ Len(u) = n /\ \A j \in 1..n : u[j] = s[k + j]
  BY <1>a, SliceIs
<1>5. t = u
  BY <1>3, <1>4, SeqEqual
<1>6. got \o t = SubSeq(s, i + 1, k + n)
  <2>1. i + 1 \in 1..(Len(s) + 1) /\ k \in ((i + 1) - 1)..Len(s) /\ k + n \in k..Len(s)
    OBVIOUS
  <2>2. SubSeq(s, i + 1, k) \o SubSeq(s, k + 1, k + n) = SubSeq(s, i + 1, k + n)
    BY <2>1, ConcatAdjacentSubSeq
  <2> QED BY <1>a, <1>5, <2>2
<1>7. After(left, n + 1) = SubSeq(s, k + n + 1, Len(s))
  <2>a. PICK v, w : v = After(left, n + 1) /\ w = SubSeq(s, k + n + 1, Len(s))
    OBVIOUS
  <2>1. /\ w \in Seq(S) /\ Len(w) = Len(s) - (k + n)
        /\ \A j \in 1..(Len(s) - (k + n)) : w[j] = s[k + n + j]
    BY <2>a, SliceIs
  <2>2. n + 1 \in Nat \ {0} /\ n + 1 <= Len(left) + 1
    BY <1>2
  <2>3. /\ v \in Seq(S) /\ Len(v) = Len(left) - (n + 1) + 1
        /\ \A j \in 1..(Len(left) - (n + 1) + 1) : v[j] = left[j + (n + 1) - 1]
    BY <2>a, <1>2, <2>2, AfterIs
  <2>4. Len(v) = Len(s) - (k + n)
    BY <1>2, <2>3
  <2>5. \A j \in 1..(Len(s) - (k + n)) : v[j] = w[j]
    <3> TAKE j \in 1..(Len(s) - (k + n))
    <3>1. v[j] = left[j + n]
      BY <1>2, <2>3
    <3>2. left[j + n] = s[k + (j + n)]
      BY <1>2
    <3> QED BY <2>1, <3>1, <3>2
  <2> QED BY <2>a, <2>1, <2>3, <2>4, <2>5, SeqEqual
<1> QED BY <1>a, <1>4, <1>5, <1>6, <1>7

(* A head, a start line and header lines that end where the body starts.   *)
LEMMA TextIs ==
  ASSUME NEW g \in Request
  PROVE  /\ Text(g) \in Seq(Token)
         /\ \A j \in DOMAIN Text(g) : j >= 5 => Text(g)[j] \in Piece
         /\ (\A j \in DOMAIN g.body : g.body[j] # "nul") =>
              \A j \in DOMAIN Text(g) : Text(g)[j] # "nul"
<1> PICK b \in Seq(Piece) : b = g.body
  BY DEF Request
<1>1. b \in Seq(Token)
  BY DEF Token
<1>2. CASE g.line = "empty" /\ g.fields = "absent"
  <2>1. Text(g) = <<>> \o <<"crlf">> \o <<>> \o <<"crlf">> \o b
    BY <1>2 DEF Text
  <2>2. /\ <<>> \o <<"crlf">> \o <<>> \o <<"crlf">> \o b \in Seq(Token)
        /\ \A j \in DOMAIN (<<>> \o <<"crlf">> \o <<>> \o <<"crlf">> \o b) :
             j >= 5 => (<<>> \o <<"crlf">> \o <<>> \o <<"crlf">> \o b)[j] \in Piece
    BY <1>1 DEF Token, Piece
  <2>3. (\A j \in DOMAIN b : b[j] # "nul") =>
          \A j \in DOMAIN (<<>> \o <<"crlf">> \o <<>> \o <<"crlf">> \o b) :
            (<<>> \o <<"crlf">> \o <<>> \o <<"crlf">> \o b)[j] # "nul"
    OBVIOUS
  <2> QED BY <2>1, <2>2, <2>3
<1>3. CASE g.line # "empty" /\ g.fields = "absent"
  <2>1. Text(g) = <<"start">> \o <<"crlf">> \o <<>> \o <<"crlf">> \o b
    BY <1>3 DEF Text
  <2>2. /\ <<"start">> \o <<"crlf">> \o <<>> \o <<"crlf">> \o b \in Seq(Token)
        /\ \A j \in DOMAIN (<<"start">> \o <<"crlf">> \o <<>> \o <<"crlf">> \o b) :
             j >= 5 => (<<"start">> \o <<"crlf">> \o <<>> \o <<"crlf">> \o b)[j] \in Piece
    BY <1>1 DEF Token, Piece
  <2>3. (\A j \in DOMAIN b : b[j] # "nul") =>
          \A j \in DOMAIN (<<"start">> \o <<"crlf">> \o <<>> \o <<"crlf">> \o b) :
            (<<"start">> \o <<"crlf">> \o <<>> \o <<"crlf">> \o b)[j] # "nul"
    OBVIOUS
  <2> QED BY <2>1, <2>2, <2>3
<1>4. CASE g.line = "empty" /\ g.fields # "absent"
  <2>1. Text(g) = <<>> \o <<"crlf">> \o <<"fields", "crlf">> \o <<"crlf">> \o b
    BY <1>4 DEF Text
  <2>2. /\ <<>> \o <<"crlf">> \o <<"fields", "crlf">> \o <<"crlf">> \o b \in Seq(Token)
        /\ \A j \in DOMAIN (<<>> \o <<"crlf">> \o <<"fields", "crlf">> \o <<"crlf">> \o b) :
             j >= 5 => (<<>> \o <<"crlf">> \o <<"fields", "crlf">> \o <<"crlf">> \o b)[j] \in Piece
    BY <1>1 DEF Token, Piece
  <2>3. (\A j \in DOMAIN b : b[j] # "nul") =>
          \A j \in DOMAIN (<<>> \o <<"crlf">> \o <<"fields", "crlf">> \o <<"crlf">> \o b) :
            (<<>> \o <<"crlf">> \o <<"fields", "crlf">> \o <<"crlf">> \o b)[j] # "nul"
    OBVIOUS
  <2> QED BY <2>1, <2>2, <2>3
<1>5. CASE g.line # "empty" /\ g.fields # "absent"
  <2>1. Text(g) = <<"start">> \o <<"crlf">> \o <<"fields", "crlf">> \o <<"crlf">> \o b
    BY <1>5 DEF Text
  <2>2. /\ <<"start">> \o <<"crlf">> \o <<"fields", "crlf">> \o <<"crlf">> \o b \in Seq(Token)
        /\ \A j \in DOMAIN (<<"start">> \o <<"crlf">> \o <<"fields", "crlf">> \o <<"crlf">> \o b) :
             j >= 5 =>
               (<<"start">> \o <<"crlf">> \o <<"fields", "crlf">> \o <<"crlf">> \o b)[j] \in Piece
    BY <1>1 DEF Token, Piece
  <2>3. (\A j \in DOMAIN b : b[j] # "nul") =>
          \A j \in DOMAIN (<<"start">> \o <<"crlf">> \o <<"fields", "crlf">> \o <<"crlf">> \o b) :
            (<<"start">> \o <<"crlf">> \o <<"fields", "crlf">> \o <<"crlf">> \o b)[j] # "nul"
    OBVIOUS
  <2> QED BY <2>1, <2>2, <2>3
<1> QED BY <1>2, <1>3, <1>4, <1>5

(* c_str cuts a text short, or leaves it.                                  *)
LEMMA CStr ==
  ASSUME NEW t \in Seq(Token)
  PROVE  /\ c_str(t) \in Seq(Token) /\ Len(c_str(t)) <= Len(t)
         /\ \A j \in 1..Len(c_str(t)) : c_str(t)[j] = t[j]
         /\ (\A j \in 1..Len(t) : t[j] # "nul") => c_str(t) = t
<1>a. PICK nul : nul = <<"nul">>
  OBVIOUS
<1>1. nul \in Seq(Piece) /\ Len(nul) = 1 /\ nul[1] = "nul"
  BY <1>a DEF Piece
<1>2. CASE Found(t, nul) = {}
  <2>1. c_str(t) = t
    BY <1>a, <1>2 DEF c_str
  <2> QED BY <2>1
<1>3. CASE Found(t, nul) # {}
  <2>1. PICK i : /\ i = Min(Found(t, nul)) /\ i \in Nat \ {0}
                 /\ i + Len(nul) - 1 <= Len(t)
                 /\ \A j \in 1..Len(nul) : t[i + j - 1] = nul[j]
    <3>1. Len(nul) > 0
      BY <1>1
    <3> QED BY <1>1, <1>3, <3>1, FirstOf, ZenonT(40)
  <2>2. i \in Nat \ {0} /\ i <= Len(t)
    BY <1>1, <2>1
  <2>3. t[i] = "nul"
    <3>1. 1 \in 1..Len(nul) /\ i + 1 - 1 = i
      BY <1>1, <2>2
    <3> QED BY <1>1, <2>1, <3>1
  <2>4. c_str(t) = SubSeq(t, 1, i - 1)
    BY <1>a, <1>3, <2>1 DEF c_str
  <2>5. PICK n \in Nat : n = i - 1
    BY <2>2
  <2>6. n <= Len(t)
    BY <2>2, <2>5
  <2>7. SubSeq(t, 1, n) \in Seq(Token) /\ Len(SubSeq(t, 1, n)) = n
    BY <2>6, Cut
  <2>8. \A j \in 1..n : SubSeq(t, 1, n)[j] = t[j]
    BY <2>6
  <2> QED BY <2>2, <2>3, <2>4, <2>5, <2>6, <2>7, <2>8
<1> QED BY <1>2, <1>3

LEMMA FirstMidway ==
  ASSUME ask \in Request, NEW x \in Typed, x.state = "RS_IDLE", x.errCode = 0, Unrouted(x),
         x.body = <<>>, x.length = None, Midway(parse(x))
  PROVE  Len(x.inBuf) >= 4
<1>1. ~Refused(parse(x)) /\ parse(x).state # "RS_NO_BODY"
  BY DEF Refused, Midway
<1>2. \A y \in Typed : NoBody(y).state = "RS_NO_BODY"
  BY NoBodyIs
<1>3. PICK pos \in Nat, endPos \in Nat :
        /\ pos >= 2 /\ pos <= Len(x.inBuf)
        /\ endPos >= 1 /\ endPos + 1 <= Len(After(x.inBuf, pos + 1))
  BY <1>1, <1>2, FirstParse
<1>4. x.inBuf \in Seq(Token)
  BY DEF Typed
<1>5. pos + 1 \in Nat \ {0} /\ pos + 1 <= Len(x.inBuf) + 1
  BY <1>3, <1>4
<1>6. Len(After(x.inBuf, pos + 1)) = Len(x.inBuf) - (pos + 1) + 1
  BY <1>3, <1>4, <1>5, AfterIs, ZenonT(40)
<1> QED BY <1>3, <1>4, <1>6

-----------------------------------------------------------------------------
(* The inductive invariant: what was received is a part of the request,    *)
(* what is to come is the rest of it, and past the header section that is  *)
(* nothing but a body; the exchange is in one of four situations.          *)

Place ==
  \E i, k \in Nat :
    /\ i <= k /\ k <= Len(Text(ask))
    /\ received.all = SubSeq(Text(ask), i + 1, k) /\ todo = SubSeq(Text(ask), k + 1, Len(Text(ask)))
    /\ ex.state = "RS_HEADERS_READ" => k >= 4

Situation(x) == x = New \/ Midway(x) \/ Finished(x) \/ Closed(x)

Inv ==
  /\ ask \in Requests /\ received.first \in Nat /\ received = [first |-> received.first, all |-> received.all]
  /\ ex \in Typed /\ Situation(ex) /\ Place

LEMMA WithIs ==
  ASSUME NEW x \in Typed, x.inBuf = <<>>, NEW d \in Seq(Token)
  PROVE  /\ With(x, d) \in Typed /\ With(x, d).inBuf = d
         /\ With(x, d).state = x.state /\ With(x, d).errCode = x.errCode /\ With(x, d).body = x.body
         /\ With(x, d).length = x.length /\ With(x, d).code = x.code /\ With(x, d).done = x.done
         /\ With(x, d).method = x.method
         /\ Unrouted(x) => Unrouted(With(x, d))
<1>1. With(x, d) = [x EXCEPT !.inBuf = d]
  <2>1. <<>> \o d = d
    BY ConcatEmptySeq
  <2> QED BY <2>1 DEF With
<1>2. [x EXCEPT !.inBuf = d] \in Typed
  BY Zenon DEF Typed
<1>3. \A y : y = [x EXCEPT !.inBuf = d] =>
        /\ y.inBuf = d /\ y.state = x.state /\ y.errCode = x.errCode /\ y.body = x.body
        /\ y.length = x.length /\ y.outBuf = x.outBuf /\ y.url = x.url /\ y.type = x.type
        /\ y.code = x.code /\ y.done = x.done /\ y.method = x.method
  BY DEF Typed
<1> QED BY <1>1, <1>2, <1>3 DEF Unrouted

(* What process makes of each situation, and of what it parsed.            *)
LEMMA ProcessSettles ==
  ASSUME NEW x, NEW d, NEW p \in Typed, p = parse(With(x, d)), Refused(p) \/ Midway(p) \/ Whole(p),
         NEW e \in process(x, d)
  PROVE  /\ e \in Typed /\ Situation(e)
         /\ e.state = "RS_HEADERS_READ" => Midway(p) /\ e = p
         /\ Midway(p) => e = p
         /\ Refused(p) => Closed(e) /\ e.done = p.done /\ e.errCode = p.errCode
         /\ Whole(p) => /\ Closed(e) \/ Finished(e)
                        /\ \/ e.done = p.done
                           \/ /\ \E w \in Words(p) : e.done = Append(p.done, w)
                              /\ p.method = "POST" => p.length # None
<1>1. CASE Refused(p)
  <2>1. e \in Typed /\ Closed(e) /\ e.done = p.done /\ e.errCode = p.errCode
    BY <1>1, ProcessRefused
  <2>2. ~Midway(p) /\ ~Whole(p)
    BY <1>1 DEF Refused, Midway, Whole
  <2> QED BY <1>1, <2>1, <2>2 DEF Situation, Closed, Refused
<1>2. CASE Midway(p)
  <2>1. e = p
    BY <1>2, ProcessMidway
  <2>2. ~Refused(p) /\ ~Whole(p)
    BY <1>2 DEF Refused, Midway, Whole
  <2> QED BY <1>2, <2>1, <2>2 DEF Situation
<1>3. CASE Whole(p)
  <2>1. /\ e \in Typed /\ (Closed(e) \/ Finished(e))
        /\ \/ e.done = p.done
           \/ /\ \E w \in Words(p) : e.done = Append(p.done, w)
              /\ p.method = "POST" => p.length # None
    BY <1>3, ProcessWhole
  <2>2. ~Refused(p) /\ ~Midway(p)
    BY <1>3 DEF Refused, Midway, Whole
  <2> QED BY <1>3, <2>1, <2>2 DEF Situation, Closed, Refused, Finished, Answered
<1> QED BY <1>1, <1>2, <1>3

LEMMA Parses ==
  ASSUME ask \in Request, NEW x \in Typed, Situation(x), x.state # "RS_CLOSE", NEW d \in Seq(Token),
         \A j \in DOMAIN d : j >= 5 => d[j] \in Piece, x.state = "RS_HEADERS_READ" => d \in Seq(Piece)
  PROVE  LET p == parse(With(x, d)) IN
         /\ p \in Typed /\ (Refused(p) \/ Midway(p) \/ Whole(p))
         /\ Midway(p) => x.state = "RS_HEADERS_READ" \/ Len(d) >= 4
         /\ x.state # "RS_READY" => Unrouted(p) /\ x.done = <<>>
         /\ x.state = "RS_READY" /\ d # <<>> => Refused(p) /\ p.errCode = 400 /\ p.done = x.done
         /\ x.state = "RS_READY" => p.done = x.done
<1>a. PICK w : w = With(x, d)
  OBVIOUS
<1>1. CASE x = New
  <2>1. /\ x.state = "RS_IDLE" /\ x.errCode = 0 /\ x.body = <<>> /\ x.length = None /\ Unrouted(x)
        /\ x.inBuf = <<>>
    BY <1>1 DEF New, Unrouted
  <2>2. /\ w \in Typed /\ w.inBuf = d /\ w.state = "RS_IDLE" /\ w.errCode = 0 /\ w.body = <<>>
        /\ w.length = None /\ Unrouted(w)
    BY <1>a, <2>1, WithIs
  <2>3. parse(w) \in Typed /\ Parsed(parse(w))
    BY <2>2, FirstParsed
  <2>4. Midway(parse(w)) => Len(d) >= 4
    BY <2>2, FirstMidway
  <2> QED BY <1>a, <2>1, <2>3, <2>4 DEF Parsed, Unrouted
<1>2. CASE Midway(x)
  <2>1. x.inBuf = <<>> /\ x.state = "RS_HEADERS_READ" /\ x.errCode = 0 /\ Unrouted(x)
        /\ x.length \in Nat
    BY <1>2 DEF Midway
  <2>2. /\ w \in Typed /\ w.inBuf = d /\ w.state = "RS_HEADERS_READ" /\ w.errCode = 0 /\ w.body = x.body
        /\ w.length = x.length /\ Unrouted(w)
    BY <1>a, <2>1, WithIs
  <2>3. d \in Seq(Piece) /\ w.length \in Nat /\ Len(w.body) <= w.length
    <3>1. d \in Seq(Piece) /\ w.length \in Nat
      BY <2>1, <2>2
    <3>2. x.body \in Seq(Piece) /\ Len(x.body) < x.length
      BY <1>2 DEF Midway, Typed
    <3> QED BY <2>1, <2>2, <3>1, <3>2
  <2>4. parse(w) \in Typed /\ Parsed(parse(w))
    BY <2>2, <2>3, BodyParsed
  <2> QED BY <1>a, <2>1, <2>4 DEF Parsed, Unrouted
<1>3. CASE Finished(x)
  <2>1. x.inBuf = <<>> /\ x.state = "RS_READY" /\ x.errCode = 0 /\ x.code \in Served
    BY <1>3 DEF Finished, Answered
  <2>2. /\ w \in Typed /\ w.inBuf = d /\ w.state = "RS_READY" /\ w.errCode = 0 /\ w.code = x.code
        /\ w.done = x.done
    BY <1>a, <2>1, WithIs
  <2>3. parse(w) = IF d = <<>> THEN NoBody(w) ELSE Fail(NoBody(w), 400)
    BY <2>2, ReadyParsed
  <2>4. 400 \in Errors
    BY DEF Errors
  <2>5. NoBody(w) \in Typed /\ (d = <<>> => Whole(NoBody(w))) /\ NoBody(w).done = x.done
    BY <2>1, <2>2, NoBodyIs DEF Whole
  <2>6. /\ Fail(NoBody(w), 400) \in Typed /\ Refused(Fail(NoBody(w), 400))
        /\ Fail(NoBody(w), 400).errCode = 400 /\ Fail(NoBody(w), 400).done = x.done
    BY <2>4, <2>5, FailKeeps
  <2>7. CASE d = <<>>
    BY <1>a, <2>1, <2>3, <2>5, <2>7 DEF Midway, Whole
  <2>8. CASE d # <<>>
    BY <1>a, <2>1, <2>3, <2>6, <2>8 DEF Midway, Refused
  <2> QED BY <2>7, <2>8
<1>4. CASE Closed(x)
  BY <1>4 DEF Closed, Refused
<1> QED BY <1>1, <1>2, <1>3, <1>4 DEF Situation

(* What one recv brings.                                                   *)
LEMMA Received1 ==
  ASSUME ask \in Request,
         NEW i \in Nat, NEW k \in Nat, NEW n \in Nat, i <= k, k + n <= Len(Text(ask)),
         todo = SubSeq(Text(ask), k + 1, Len(Text(ask))), ex.state = "RS_HEADERS_READ" => k >= 4
  PROVE  LET d == c_str(SubSeq(todo, 1, n)) IN
         /\ d \in Seq(Token) /\ Len(d) <= n
         /\ \A j \in DOMAIN d : j >= 5 => d[j] \in Piece
         /\ ex.state = "RS_HEADERS_READ" => d \in Seq(Piece)
<1>a. PICK s, t : s = Text(ask) /\ t = SubSeq(todo, 1, n)
  OBVIOUS
<1>b. PICK d : d = c_str(SubSeq(todo, 1, n))
  OBVIOUS
<1>1. s \in Seq(Token) /\ \A j \in 1..Len(s) : j >= 5 => s[j] \in Piece
  BY <1>a, TextIs
<1>2. t = SubSeq(s, k + 1, k + n)
  BY <1>1, <1>a, Recv
<1>3. t \in Seq(Token) /\ Len(t) = n /\ \A j \in 1..n : t[j] = s[k + j]
  BY <1>1, <1>2, <1>a, SliceIs
<1>4. d \in Seq(Token) /\ Len(d) <= n /\ \A j \in 1..Len(d) : d[j] = t[j]
  <2>1. d = c_str(t)
    BY <1>a, <1>b
  <2>2. c_str(t) \in Seq(Token) /\ Len(c_str(t)) <= Len(t) /\ \A j \in 1..Len(c_str(t)) : c_str(t)[j] = t[j]
    BY <1>3, CStr
  <2> QED BY <1>3, <2>1, <2>2
<1>5. \A j \in 1..Len(d) : d[j] = s[k + j] /\ k + j \in 1..Len(s) /\ j \in 1..n
  BY <1>1, <1>3, <1>4, <1>a
<1>6. ASSUME NEW j \in 1..Len(d), j >= 5 \/ k >= 4 PROVE d[j] \in Piece
  <2>1. d[j] = s[k + j] /\ k + j \in 1..Len(s)
    BY <1>5
  <2>2. k + j >= 5
    BY <1>4, <1>6
  <2> QED BY <1>1, <2>1, <2>2
<1>7. ASSUME k >= 4 PROVE d \in Seq(Piece)
  <2>1. \A j \in 1..Len(d) : d[j] \in Piece
    BY <1>6, <1>7
  <2> QED BY <1>4, <2>1, AllIn
<1> QED BY <1>b, <1>4, <1>6, <1>7

LEMMA Asked == ASSUME ask \in Requests PROVE ask \in Request
BY RequestsAssumption

LEMMA InvInit == Init => Inv
<1> SUFFICES ASSUME Init PROVE Inv
  OBVIOUS
<1>1. ask \in Requests /\ todo = Text(ask) /\ received = Nothing /\ ex = New
  BY DEF Init
<1>2. ask \in Request
  BY <1>1, Asked
<1>3. Place
  <2>1. Text(ask) \in Seq(Token)
    BY <1>2, TextIs
  <2>2. todo = SubSeq(Text(ask), 0 + 1, Len(Text(ask)))
    BY <1>1, <2>1, SubSeqFull
  <2>3. received.all = SubSeq(Text(ask), 0 + 1, 0)
    BY <1>1, SubSeqEmpty DEF Nothing
  <2>4. 0 \in Nat /\ 0 <= 0 /\ 0 <= Len(Text(ask))
    BY <2>1
  <2>5. ex.state # "RS_HEADERS_READ"
    BY <1>1 DEF New
  <2> QED BY <2>2, <2>3, <2>4, <2>5 DEF Place
<1>4. received.first \in Nat /\ received = [first |-> received.first, all |-> received.all]
  BY <1>1 DEF Nothing
<1> QED BY <1>1, <1>3, <1>4, NewIs DEF Inv, Situation

LEMMA InvReceive == Inv /\ Receive => Inv'
<1> SUFFICES ASSUME Inv, Receive PROVE Inv'
  OBVIOUS
<1>1. ask \in Requests /\ ask \in Request /\ ask' = ask /\ ex \in Typed /\ Situation(ex) /\ received.first \in Nat
  BY Asked DEF Inv, Receive
<1>2. PICK n \in DOMAIN todo :
        /\ received' = [first |-> IF received.all = <<>> THEN n ELSE received.first,
                        all |-> received.all \o SubSeq(todo, 1, n)]
        /\ todo' = After(todo, n + 1)
        /\ ex' \in process(ex, c_str(SubSeq(todo, 1, n)))
  BY DEF Receive
<1>3. PICK i \in Nat, k \in Nat :
        /\ i <= k /\ k <= Len(Text(ask))
        /\ received.all = SubSeq(Text(ask), i + 1, k)
        /\ todo = SubSeq(Text(ask), k + 1, Len(Text(ask)))
        /\ ex.state = "RS_HEADERS_READ" => k >= 4
  BY DEF Inv, Place
<1>a. PICK s \in Seq(Token) : s = Text(ask)
  BY <1>1, TextIs
<1>4. s \in Seq(Token)
  OBVIOUS
<1>5. n \in Nat /\ n >= 1 /\ k + n <= Len(s)
  <2>1. todo \in Seq(Token) /\ Len(todo) = Len(s) - k
    BY <1>3, <1>4, <1>a, SliceIs
  <2>2. n \in 1..Len(todo)
    BY <2>1
  <2> QED BY <1>3, <1>4, <1>a, <2>1, <2>2
<1>6. /\ received'.all = SubSeq(s, i + 1, k + n) /\ todo' = SubSeq(s, k + n + 1, Len(s))
  <2>1. PICK got, left : got = received.all /\ left = todo
    OBVIOUS
  <2>2. got = SubSeq(s, i + 1, k) /\ left = SubSeq(s, k + 1, Len(s))
    BY <1>3, <1>a, <2>1
  <2>3. /\ got \o SubSeq(left, 1, n) = SubSeq(s, i + 1, k + n)
        /\ After(left, n + 1) = SubSeq(s, k + n + 1, Len(s))
    <3>1. i <= k
      BY <1>3
    <3>2. k + n <= Len(s) /\ n \in Nat
      BY <1>5
    <3>3. SubSeq(s, i + 1, k) \o SubSeq(SubSeq(s, k + 1, Len(s)), 1, n) = SubSeq(s, i + 1, k + n)
      BY <3>1, <3>2, Recv, SMTT(30)
    <3>4. After(SubSeq(s, k + 1, Len(s)), n + 1) = SubSeq(s, k + n + 1, Len(s))
      BY <3>1, <3>2, Recv
    <3> QED BY <2>2, <3>3, <3>4
  <2>4. received'.all = got \o SubSeq(left, 1, n) /\ todo' = After(left, n + 1)
    BY <1>2, <2>1
  <2> QED BY <2>3, <2>4
<1>b. PICK d : d = c_str(SubSeq(todo, 1, n))
  OBVIOUS
<1>7. /\ d \in Seq(Token) /\ Len(d) <= n
      /\ \A j \in DOMAIN d : j >= 5 => d[j] \in Piece
      /\ ex.state = "RS_HEADERS_READ" => d \in Seq(Piece)
  <2>1. k + n <= Len(Text(ask))
    BY <1>5, <1>a
  <2>2. d = c_str(SubSeq(todo, 1, n)) /\ n \in Nat
    BY <1>5, <1>b
  <2> QED BY <1>1, <1>3, <2>1, <2>2, Received1
<1>8. ex.state # "RS_CLOSE"
  BY DEF Receive
<1>c. PICK x, y : x = ex /\ y = ex'
  OBVIOUS
<1>9. PICK p : p = parse(With(x, d))
  OBVIOUS
<1>10. /\ p \in Typed /\ (Refused(p) \/ Midway(p) \/ Whole(p))
       /\ Midway(p) => x.state = "RS_HEADERS_READ" \/ Len(d) >= 4
  BY <1>1, <1>7, <1>8, <1>9, <1>c, Parses
<1>11. y \in process(x, d)
  BY <1>2, <1>b, <1>c
<1>12. y \in Typed /\ Situation(y) /\ (y.state = "RS_HEADERS_READ" => Midway(p))
  BY <1>9, <1>10, <1>11, ProcessSettles
<1>13. y.state = "RS_HEADERS_READ" => k + n >= 4
  BY <1>3, <1>5, <1>7, <1>10, <1>12, <1>c
<1>14. Place'
  <2>1. i \in Nat /\ k + n \in Nat /\ i <= k + n /\ k + n <= Len(Text(ask)')
    BY <1>1, <1>3, <1>5, <1>a
  <2>2. /\ received'.all = SubSeq(Text(ask'), i + 1, k + n)
        /\ todo' = SubSeq(Text(ask'), k + n + 1, Len(Text(ask')))
        /\ ex'.state = "RS_HEADERS_READ" => k + n >= 4
    BY <1>1, <1>6, <1>13, <1>a, <1>c
  <2> QED BY <1>1, <2>1, <2>2 DEF Place
<1>15. received'.first \in Nat /\ received' = [first |-> received'.first, all |-> received'.all]
  BY <1>1, <1>2, <1>5
<1>16. Situation(ex)'
  BY <1>12, <1>c DEF Situation, Midway, Finished, Closed, Answered, Refused, Unrouted
<1> QED BY <1>1, <1>12, <1>14, <1>15, <1>16, <1>c DEF Inv

LEMMA InvNext == Inv /\ [Next]_vars => Inv'
<1> SUFFICES ASSUME Inv, [Next]_vars PROVE Inv'
  OBVIOUS
<1>1. CASE Receive
  BY <1>1, InvReceive
<1>2. CASE Clear_exchange
  <2>1. ex' = New /\ received' = Nothing /\ ask' = ask /\ todo' = todo
    BY <1>2 DEF Clear_exchange
  <2>2. PICK k \in Nat : k <= Len(Text(ask)) /\ todo = SubSeq(Text(ask), k + 1, Len(Text(ask)))
    BY DEF Inv, Place
  <2>3. received'.all = SubSeq(Text(ask), k + 1, k)
    <3>1. k < k + 1 /\ k \in Int /\ k + 1 \in Int
      OBVIOUS
    <3> QED BY <2>1, <3>1, SubSeqEmpty DEF Nothing
  <2>4. Place'
    <3>1. New.state = "RS_IDLE"
      BY DEF New
    <3>2. k <= k /\ ex'.state # "RS_HEADERS_READ"
      BY <2>1, <3>1
    <3> QED BY <2>1, <2>2, <2>3, <3>2 DEF Place
  <2>5. received'.first \in Nat /\ received' = [first |-> received'.first, all |-> received'.all]
    BY <2>1 DEF Nothing
  <2>6. Situation(ex)'
    BY <2>1 DEF Situation, New
  <2> QED BY <2>1, <2>4, <2>5, <2>6, NewIs DEF Inv
<1>3. CASE NextRequest
  <2>1. ask' \in Requests /\ todo' = Text(ask') /\ received' = Nothing /\ ex' = New
    BY <1>3 DEF NextRequest
  <2>2. Init'
    BY <2>1 DEF Init, New, Nothing
  <2> QED BY <2>2, InvInit, PTL
<1>4. CASE UNCHANGED vars
  BY <1>4 DEF vars, Inv, Place, Situation, Midway, Finished, Closed, Answered, Refused, Unrouted, New
<1> QED BY <1>1, <1>2, <1>3, <1>4 DEF Next

(* For any requests, limits and locations: between two recvs an exchange   *)
(* is where its Situation and its Place say (HttpExchange.cpp 33-62).      *)
THEOREM Invariant == Spec => []Inv
<1> QED BY InvInit, InvNext, PTL DEF Spec

(* Every variable has values of its kind, whatever is sent and however it  *)
(* is cut (HttpExchange.hpp 14-21, HttpRequest.hpp 12-30).                 *)
THEOREM TypeCorrect == Spec => []TypeOK
<1>1. Inv => TypeOK
  <2> SUFFICES ASSUME Inv PROVE TypeOK
    OBVIOUS
  <2>1. ask \in Requests /\ ex \in Typed
    BY DEF Inv
  <2>2. todo \in Seq(Token) /\ received.all \in Seq(Token)
    <3>1. PICK i \in Nat, k \in Nat :
            /\ i <= k /\ k <= Len(Text(ask))
            /\ received.all = SubSeq(Text(ask), i + 1, k)
            /\ todo = SubSeq(Text(ask), k + 1, Len(Text(ask)))
      BY DEF Inv, Place
    <3>2. PICK s \in Seq(Token) : s = Text(ask)
      BY <2>1, Asked, TextIs
    <3>3. SubSeq(s, i + 1, k) \in Seq(Token)
      BY <3>1, <3>2, SliceIs
    <3>4. SubSeq(s, k + 1, Len(s)) \in Seq(Token)
      BY <3>1, <3>2, SliceIs
    <3> QED BY <3>1, <3>2, <3>3, <3>4
  <2>3. received \in [first : Nat, all : Seq(Token)]
    <3>1. received.first \in Nat /\ received = [first |-> received.first, all |-> received.all]
      BY DEF Inv
    <3> QED BY <2>2, <3>1
  <2> QED BY <2>1, <2>2, <2>3 DEF TypeOK
<1> QED BY <1>1, Invariant, PTL

(* What the loop sees of each situation of an exchange.                    *)
LEMMA SeenIs ==
  /\ ex = New => Seen = E!NewExchange
  /\ Midway(ex) => Seen = E!Reading
  /\ Finished(ex) => \E p \in E!Page : Seen = E!Served(p)
  /\ Closed(ex) => Seen = E!Refused
<1>1. ASSUME ex = New PROVE Seen = E!NewExchange
  BY <1>1 DEF Seen, New, E!NewExchange
<1>2. ASSUME Midway(ex) PROVE Seen = E!Reading
  BY <1>2 DEF Seen, Midway, Unrouted, E!Reading
<1>3. ASSUME Finished(ex) PROVE ex.url \in E!Page /\ Seen = E!Served(ex.url)
  BY <1>3 DEF Seen, Finished, Answered, E!Served
<1>4. ASSUME Closed(ex) PROVE Seen = E!Refused
  BY <1>4 DEF Seen, Closed, Refused, E!Refused
<1> QED BY <1>1, <1>2, <1>3, <1>4

(* The event loop never sees an exchange between two states: what process  *)
(* leaves is new, in the middle of a body with nothing to send, ready with *)
(* a page and a status below 400, or closed with an error and its status   *)
(* (HttpExchange.cpp 33-62), for any bytes in any cut, NUL included.       *)
THEOREM LoopSees == Spec => []SeenByLoop
<1>1. Inv => SeenByLoop
  <2> SUFFICES ASSUME Inv PROVE SeenByLoop
    OBVIOUS
  <2>1. ex \in Typed /\ Situation(ex)
    BY DEF Inv
  <2>2. CASE ex = New
    BY <2>2, SeenIs DEF SeenByLoop, New
  <2>3. CASE Midway(ex)
    BY <2>3, SeenIs DEF SeenByLoop, Midway, E!Outcomes
  <2>4. CASE Finished(ex)
    <3>1. ex.state = "RS_READY" /\ ex.errCode = 0 /\ ex.code \in Served
      BY <2>4 DEF Finished, Answered
    <3>2. Seen \in E!Outcomes
      BY <2>4, SeenIs DEF E!Outcomes
    <3>3. ex.code < 400
      BY <3>1 DEF Served
    <3> QED BY <3>1, <3>2, <3>3 DEF SeenByLoop
  <2>5. CASE Closed(ex)
    <3>1. ex.state = "RS_CLOSE" /\ ex.errCode # 0 /\ ex.code = ex.errCode
      BY <2>5 DEF Closed, Refused, Errors
    <3>2. Seen \in E!Outcomes
      BY <2>5, SeenIs DEF E!Outcomes
    <3> QED BY <3>1, <3>2 DEF SeenByLoop
  <2> QED BY <2>1, <2>2, <2>3, <2>4, <2>5 DEF Situation
<1> QED BY <1>1, Invariant, PTL

-----------------------------------------------------------------------------
(* Without a NUL among the bytes, recv and c_str lose nothing.             *)

LEMMA Uncut ==
  ASSUME Textual, ask \in Requests, NEW k \in Nat, NEW n \in Nat, k + n <= Len(Text(ask))
  PROVE  c_str(SubSeq(Text(ask), k + 1, k + n)) = SubSeq(Text(ask), k + 1, k + n)
<1>1. PICK s \in Seq(Token) : s = Text(ask) /\ \A j \in 1..Len(s) : s[j] # "nul"
  <2>1. ask \in Request /\ \A j \in DOMAIN ask.body : ask.body[j] # "nul"
    BY Asked DEF Textual, Nuls
  <2> QED BY <2>1, TextIs
<1>2. PICK t : t = SubSeq(s, k + 1, k + n)
  OBVIOUS
<1>3. t \in Seq(Token) /\ Len(t) = n /\ \A j \in 1..n : t[j] = s[k + j]
  <2>a. PICK l \in Nat : l = k + n
    OBVIOUS
  <2>1. k <= l /\ l <= Len(s) /\ l - k = n
    BY <1>1, <2>a
  <2>2. t = SubSeq(s, k + 1, l)
    BY <1>2, <2>a
  <2>3. t \in Seq(Token) /\ Len(t) = l - k /\ \A j \in 1..(l - k) : t[j] = s[k + j]
    BY <2>1, <2>2, SliceIs
  <2> QED BY <2>1, <2>3
<1>4. \A j \in 1..Len(t) : t[j] # "nul"
  <2> TAKE j \in 1..Len(t)
  <2>1. t[j] = s[k + j] /\ k + j \in 1..Len(s)
    BY <1>1, <1>3
  <2> QED BY <1>1, <2>1
<1>5. c_str(t) = t
  BY <1>3, <1>4, CStr
<1> QED BY <1>1, <1>2, <1>5

(* What a recv brings then.                                                *)
LEMMA Brought ==
  ASSUME Textual, Inv, NEW n \in DOMAIN todo
  PROVE  \E i, k, m \in Nat, s \in Seq(Token) :
           /\ n = m /\ m >= 1 /\ i <= k /\ k + m <= Len(s) /\ s = Text(ask)
           /\ received.all = SubSeq(s, i + 1, k) /\ todo = SubSeq(s, k + 1, Len(s))
           /\ received.all \o SubSeq(todo, 1, n) = SubSeq(s, i + 1, k + m)
           /\ c_str(SubSeq(todo, 1, n)) = SubSeq(s, k + 1, k + m)
           /\ ex.state = "RS_HEADERS_READ" => k >= 4
<1>1. PICK i \in Nat, k \in Nat :
        /\ i <= k /\ k <= Len(Text(ask))
        /\ received.all = SubSeq(Text(ask), i + 1, k)
        /\ todo = SubSeq(Text(ask), k + 1, Len(Text(ask)))
        /\ ex.state = "RS_HEADERS_READ" => k >= 4
  BY DEF Inv, Place
<1>2. PICK s \in Seq(Token) : s = Text(ask)
  BY Asked, TextIs DEF Inv
<1>3. todo \in Seq(Token) /\ Len(todo) = Len(s) - k
  BY <1>1, <1>2, SliceIs
<1>4. PICK m \in Nat : n = m
  BY <1>3
<1>5. m >= 1 /\ k + m <= Len(s)
  BY <1>1, <1>2, <1>3, <1>4
<1>6. i <= k /\ k <= Len(s)
  BY <1>1, <1>2
<1>7. SubSeq(s, i + 1, k) \o SubSeq(SubSeq(s, k + 1, Len(s)), 1, m) = SubSeq(s, i + 1, k + m)
  BY <1>5, <1>6, Recv
<1>8. SubSeq(SubSeq(s, k + 1, Len(s)), 1, m) = SubSeq(s, k + 1, k + m)
  BY <1>5, <1>6, Recv
<1>9. c_str(SubSeq(s, k + 1, k + m)) = SubSeq(s, k + 1, k + m)
  BY <1>2, <1>5, Uncut DEF Inv
<1>10. received.all = SubSeq(s, i + 1, k) /\ todo = SubSeq(s, k + 1, Len(s))
  BY <1>1, <1>2
<1>11. /\ received.all \o SubSeq(todo, 1, n) = SubSeq(s, i + 1, k + m)
       /\ c_str(SubSeq(todo, 1, n)) = SubSeq(s, k + 1, k + m)
  BY <1>4, <1>7, <1>8, <1>9, <1>10
<1> QED BY <1>1, <1>2, <1>4, <1>5, <1>6, <1>10, <1>11

-----------------------------------------------------------------------------
(* A request is handled once, and once more for a NUL.                     *)

LEMMA NulsGrow ==
  ASSUME NEW r \in Seq(Token), NEW t \in Seq(Token)
  PROVE  /\ Cardinality(Nuls(r)) \in Nat /\ Cardinality(Nuls(r \o t)) \in Nat
         /\ Cardinality(Nuls(r)) <= Cardinality(Nuls(r \o t))
         /\ Nuls(t) # {} => Cardinality(Nuls(r)) + 1 <= Cardinality(Nuls(r \o t))
<1>1. PICK c \in Seq(Token) : c = r \o t
  BY ConcatProperties
<1>2. /\ Len(c) = Len(r) + Len(t)
      /\ \A i \in 1..Len(r) : c[i] = r[i]
      /\ \A i \in 1..Len(t) : c[Len(r) + i] = t[i]
  BY <1>1, ConcatProperties
<1>a. \A u \in Seq(Token) : Nuls(u) = {i \in 1..Len(u) : u[i] = "nul"}
  <2> TAKE u \in Seq(Token)
  <2>1. DOMAIN u = 1..Len(u)
    OBVIOUS
  <2> QED BY <2>1 DEF Nuls
<1>3. \A u \in Seq(Token) : IsFiniteSet(Nuls(u)) /\ Nuls(u) \subseteq 1..Len(u)
  <2> TAKE u \in Seq(Token)
  <2>1. Len(u) \in Nat /\ DOMAIN u = 1..Len(u)
    OBVIOUS
  <2>2. Nuls(u) \subseteq 1..Len(u)
    BY <2>1 DEF Nuls
  <2>3. IsFiniteSet(1..Len(u))
    BY <2>1, FS_Interval
  <2> QED BY <2>2, <2>3, FS_Subset
<1>4. PICK A, B : A = Nuls(r) /\ B = Nuls(c)
  OBVIOUS
<1>5. IsFiniteSet(A) /\ IsFiniteSet(B) /\ A \subseteq 1..Len(r)
  BY <1>3, <1>4
<1>6. A \subseteq B
  <2>1. Len(r) \in Nat /\ Len(t) \in Nat
    OBVIOUS
  <2>2. 1..Len(r) \subseteq 1..Len(c)
    BY <1>2, <2>1
  <2>3. A = {i \in 1..Len(r) : r[i] = "nul"} /\ B = {i \in 1..Len(c) : c[i] = "nul"}
    BY <1>1, <1>4, <1>a
  <2> QED BY <1>2, <2>2, <2>3
<1>7. Cardinality(A) \in Nat /\ Cardinality(B) \in Nat /\ Cardinality(A) <= Cardinality(B)
  BY <1>5, <1>6, FS_Subset, FS_CardinalityType
<1>8. ASSUME Nuls(t) # {} PROVE Cardinality(A) + 1 <= Cardinality(B)
  <2>1. PICK j \in 1..Len(t) : t[j] = "nul"
    BY <1>8 DEF Nuls
  <2>2. PICK a \in Nat : a = Len(r) + j
    OBVIOUS
  <2>3. a \in B
    <3>1. a \in 1..Len(c) /\ c[a] = "nul"
      BY <1>2, <2>1, <2>2
    <3> QED BY <1>4, <3>1 DEF Nuls
  <2>4. a \notin A
    BY <1>5, <2>2
  <2>5. Cardinality(A \cup {a}) = Cardinality(A) + 1
    BY <1>5, <2>4, FS_AddElement
  <2>6. A \cup {a} \subseteq B
    BY <1>6, <2>3
  <2>7. Cardinality(A \cup {a}) <= Cardinality(B)
    BY <1>5, <2>6, FS_Subset
  <2> QED BY <2>5, <2>7
<1> QED BY <1>1, <1>4, <1>7, <1>8

LEMMA OnceReceive == ASSUME Inv, HandledOnce, Receive PROVE HandledOnce'
<1>1. PICK n \in DOMAIN todo :
        /\ received' = [first |-> IF received.all = <<>> THEN n ELSE received.first,
                        all |-> received.all \o SubSeq(todo, 1, n)]
        /\ ex' \in process(ex, c_str(SubSeq(todo, 1, n)))
  BY DEF Receive
<1>2. PICK i \in Nat, k \in Nat :
        /\ i <= k /\ k <= Len(Text(ask))
        /\ received.all = SubSeq(Text(ask), i + 1, k)
        /\ todo = SubSeq(Text(ask), k + 1, Len(Text(ask)))
        /\ ex.state = "RS_HEADERS_READ" => k >= 4
  BY DEF Inv, Place
<1>3. ask \in Requests /\ ask \in Request /\ ex \in Typed /\ Situation(ex) /\ ex.state # "RS_CLOSE"
  BY Asked DEF Inv, Receive
<1>4. PICK s \in Seq(Token) : s = Text(ask)
  BY <1>3, TextIs
<1>5. PICK m \in Nat : m = n /\ m >= 1 /\ k + m <= Len(s) /\ m <= Len(todo)
  <2>1. todo \in Seq(Token) /\ Len(todo) = Len(s) - k
    BY <1>2, <1>4, SliceIs
  <2>2. n \in 1..Len(todo)
    BY <2>1
  <2> QED BY <1>2, <1>4, <2>1, <2>2
<1>6. PICK r \in Seq(Token), t \in Seq(Token) :
        r = received.all /\ t = SubSeq(todo, 1, m) /\ Len(t) = m
  <2>1. received.all \in Seq(Token) /\ todo \in Seq(Token)
    BY <1>2, <1>4, SliceIs
  <2>a. PICK z \in Nat : z = 0
    OBVIOUS
  <2>b. SubSeq(todo, z + 1, m) \in Seq(Token) /\ Len(SubSeq(todo, z + 1, m)) = m - z
    BY <1>5, <2>1, <2>a, SliceIs
  <2>c. z + 1 = 1 /\ m - z = m
    BY <2>a
  <2>2. SubSeq(todo, 1, m) \in Seq(Token) /\ Len(SubSeq(todo, 1, m)) = m
    BY <2>b, <2>c
  <2> QED BY <2>1, <2>2
<1>7. PICK x, y, d, p : x = ex /\ y = ex' /\ d = c_str(t) /\ p = parse(With(x, d))
  OBVIOUS
<1>8. /\ d \in Seq(Token)
      /\ \A j \in DOMAIN d : j >= 5 => d[j] \in Piece
      /\ ex.state = "RS_HEADERS_READ" => d \in Seq(Piece)
  <2>1. k + m <= Len(Text(ask)) /\ d = c_str(SubSeq(todo, 1, m))
    BY <1>4, <1>5, <1>6, <1>7
  <2> QED BY <1>2, <1>3, <2>1, Received1
<1>9. /\ p \in Typed /\ (Refused(p) \/ Midway(p) \/ Whole(p))
      /\ x.state # "RS_READY" => Unrouted(p)
      /\ x.state = "RS_READY" /\ d # <<>> => Refused(p)
      /\ x.state = "RS_READY" => p.done = x.done
  BY <1>3, <1>7, <1>8, Parses
<1>10. /\ Midway(p) => y = p
       /\ Refused(p) => y.done = p.done
       /\ Whole(p) => y.done = p.done \/ \E w \in Seq(Word) : y.done = Append(p.done, w)
  <2>1. y \in process(x, d)
    BY <1>1, <1>5, <1>6, <1>7
  <2>2. Words(p) \subseteq Seq(Word)
    BY <1>9, WordsAre
  <2> QED BY <1>7, <1>9, <2>1, <2>2, ProcessSettles, SMTT(30)
<1>11. PICK a, b \in Nat :
         /\ a = Cardinality(Nuls(r)) /\ b = Cardinality(Nuls(r \o t)) /\ a <= b
         /\ Nuls(t) # {} => a + 1 <= b
  BY NulsGrow
<1>12. received'.all = r \o t
  BY <1>1, <1>5, <1>6
<1>13. Len(x.done) <= 1 + a /\ (Len(y.done) <= 1 + b => HandledOnce')
  BY <1>6, <1>7, <1>11, <1>12 DEF HandledOnce, Received, Nuls
<1>14. x.done \in Seq(Seq(Word)) /\ p.done \in Seq(Seq(Word))
  BY <1>3, <1>7, <1>9 DEF Typed, Dones
<1>15. \A w \in Seq(Word) : Len(Append(p.done, w)) = Len(p.done) + 1
  BY <1>14, AppendProperties
<1>a. PICK e \in Nat, f \in Nat : e = Len(x.done) /\ f = Len(p.done)
  BY <1>14
<1>16. Len(y.done) \in {Len(p.done), Len(p.done) + 1}
  BY <1>9, <1>10, <1>15
<1>17. CASE x.state = "RS_READY" /\ d # <<>>
  <2>1. y.done = x.done
    BY <1>9, <1>10, <1>17
  <2> QED BY <1>11, <1>13, <1>14, <2>1
<1>18. CASE x.state = "RS_READY" /\ d = <<>>
  <2>1. Nuls(t) # {}
    <3>1. Nuls(t) = {} => d = t
      <4>1. DOMAIN t = 1..Len(t)
        OBVIOUS
      <4>2. Nuls(t) = {} => \A j \in 1..Len(t) : t[j] # "nul"
        BY <4>1 DEF Nuls
      <4> QED BY <1>7, <4>2, CStr
    <3>2. t # <<>>
      BY <1>5, <1>6
    <3> QED BY <1>18, <3>1, <3>2
  <2>2. Len(y.done) <= Len(x.done) + 1
    BY <1>9, <1>16, <1>18, <1>a
  <2>3. e + 1 <= 1 + b
    BY <1>11, <1>13, <1>a, <2>1
  <2>4. Len(y.done) \in Nat
    BY <1>16, <1>a
  <2> QED BY <1>13, <1>a, <2>2, <2>3, <2>4
<1>19. CASE x.state # "RS_READY"
  <2>1. p.done = <<>>
    BY <1>9, <1>19 DEF Unrouted
  <2>2. Len(<<>>) = 0
    OBVIOUS
  <2>a. PICK q : q = p.done
    OBVIOUS
  <2>b. f = 0
    BY <1>a, <2>1, <2>2, <2>a
  <2>c. PICK l : l = Len(y.done)
    OBVIOUS
  <2>3. l \in {f, f + 1}
    BY <1>16, <1>a, <2>c
  <2>4. l <= 1 + b
    BY <1>11, <2>3, <2>b
  <2> QED BY <1>13, <2>4, <2>c
<1> QED BY <1>17, <1>18, <1>19

(* Whatever comes after a request before its answer is sent, nothing is    *)
(* uploaded, deleted or run again but for a recv that starts with a NUL:   *)
(* in any requests and any cuts, what was done for one exchange is at most *)
(* one thing and one more for every NUL received (Server.cpp 177,          *)
(* HttpExchange.cpp 38, Parser.cpp 41-49).                                 *)
THEOREM OnlyOnce == Spec => []HandledOnce
<1>1. ex = New /\ received = Nothing => HandledOnce
  <2> SUFFICES ASSUME ex = New, received = Nothing PROVE HandledOnce
    OBVIOUS
  <2>1. New.done = <<>>
    BY NewIs DEF Unrouted
  <2>2. Nuls(received.all) = {}
    BY DEF Nothing, Nuls
  <2>3. Cardinality({}) = 0
    BY FS_EmptySet
  <2> QED BY <2>1, <2>2, <2>3 DEF HandledOnce, Received
<1>2. (ex = New /\ received = Nothing => HandledOnce)'
  BY <1>1, PTL
<1>3. Inv /\ HandledOnce /\ [Next]_vars => HandledOnce'
  <2> SUFFICES ASSUME Inv, HandledOnce, [Next]_vars PROVE HandledOnce'
    OBVIOUS
  <2>1. CASE Receive
    BY <2>1, OnceReceive
  <2>2. CASE Clear_exchange
    BY <1>2, <2>2 DEF Clear_exchange, New, Nothing
  <2>3. CASE NextRequest
    BY <1>2, <2>3 DEF NextRequest, New, Nothing
  <2>4. CASE UNCHANGED vars
    BY <2>4 DEF vars, HandledOnce, Received, Nuls
  <2> QED BY <2>1, <2>2, <2>3, <2>4 DEF Next
<1>4. Init => HandledOnce
  BY <1>1 DEF Init
<1> QED BY <1>3, <1>4, Invariant, PTL DEF Spec
=============================================================================
