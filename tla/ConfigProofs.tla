---------------------------- MODULE ConfigProofs ----------------------------
(***************************************************************************)
(* Proofs about Config, for any lines and any sizes.                       *)
(***************************************************************************)
EXTENDS ConfigProperties, SequenceTheorems, WellFoundedInduction, TLAPS

(* Min and the longest are there when there is something to choose from.   *)
LEMMA Least ==
  ASSUME NEW S, S \subseteq Nat, S # {}
  PROVE  \E x \in S : \A y \in S : x <= y
<1>1. IsWellFoundedOn(OpToRel(<, Nat), Nat)
  BY NatLessThanWellFounded
<1>2. PICK x \in S : \A y \in S : ~ (<<y, x>> \in OpToRel(<, Nat))
  BY <1>1, WFMin
<1>3. \A y \in S : ~(y < x)
  BY <1>2 DEF OpToRel
<1> QED BY <1>3

LEMMA MinIsLeast ==
  ASSUME NEW S, S \subseteq Nat, S # {}
  PROVE  Min(S) \in S /\ \A y \in S : Min(S) <= y
BY Least DEF Min

LEMMA Longest ==
  ASSUME NEW S, S # {}, NEW n \in Nat, \A x \in S : Len(x) \in Nat /\ Len(x) <= n
  PROVE  \E x \in S : \A y \in S : Len(y) <= Len(x)
<1> DEFINE T == {n - Len(x) : x \in S}
<1>1. T \subseteq Nat /\ T # {}
  OBVIOUS
<1>2. PICK t \in T : \A u \in T : t <= u
  <2> HIDE DEF T
  <2> QED BY <1>1, Least
<1>3. PICK x \in S : t = n - Len(x)
  OBVIOUS
<1>4. ASSUME NEW y \in S PROVE Len(y) <= Len(x)
  <2>1. n - Len(x) <= n - Len(y)
    BY <1>2, <1>3
  <2> QED BY <2>1
<1> QED BY <1>4

-----------------------------------------------------------------------------
(* What is cut out of a line is a sequence of words, too.                  *)
LEMMA SlashIsWord == "/" \in Word
BY DEF Word, Sign

LEMMA LineType == \A line \in Lines : line \in Seq(Word)
<1>1. \A line \in Lines : line \in Seq(STRING)
  BY Zenon, ConfigAssumption
<1>2. Seq(STRING) \subseteq Seq(Word)
  BY DEF Word
<1> QED BY <1>1, <1>2

LEMMA Cut ==
  ASSUME NEW s \in Seq(Word), NEW m \in Nat \ {0}, NEW n \in Int, n <= Len(s)
  PROVE  SubSeq(s, m, n) \in Seq(Word)
<1>1. \A i \in m..n : s[i] \in Word
  OBVIOUS
<1> QED BY <1>1, SubSeqProperties

(* A place in a line is one of its numbers, and the least of some is too.  *)
LEMMA First ==
  ASSUME NEW n \in Nat, NEW S, S \subseteq 1..n, S # {}
  PROVE  Min(S) \in 1..n /\ Min(S) \in S
<1>1. S \subseteq Nat
  OBVIOUS
<1> QED BY <1>1, MinIsLeast

LEMMA FirstOrEnd ==
  ASSUME NEW n \in Nat, NEW from \in Nat \ {0}, NEW S, S \subseteq from..n
  PROVE  /\ Min(S \cup {n + 1}) \in Nat \ {0}
         /\ Min(S \cup {n + 1}) <= n + 1
<1> DEFINE T == S \cup {n + 1}
<1>1. T # {} /\ n + 1 \in T /\ T \subseteq Nat /\ 0 \notin T
  OBVIOUS
<1>2. Min(T) \in T /\ Min(T) <= n + 1
  <2> HIDE DEF T
  <2> QED BY <1>1, MinIsLeast
<1> QED BY <1>1, <1>2

LEMMA FindType ==
  ASSUME NEW line \in Seq(Word), NEW word, Mentions(line, word)
  PROVE  find(line, word) \in 1..Len(line)
<1>1. Places(line, {word}) \subseteq 1..Len(line) /\ Len(line) \in Nat
  BY DEF Places
<1>2. Places(line, {word}) # {}
  BY DEF Mentions
<1> QED BY <1>1, <1>2, First DEF find

LEMMA SubstrType ==
  ASSUME NEW line \in Seq(Word), NEW from \in Nat \ {0}
  PROVE  substr(line, from) \in Seq(Word)
<1> DEFINE at == Skip_white_spaces(line, from)
<1>1. Len(line) \in Nat
  OBVIOUS
<1>2. \A W : {i \in from..Len(line) : line[i] \notin W} \subseteq from..Len(line)
  OBVIOUS
<1>3. \A W : Min({i \in from..Len(line) : line[i] \notin W} \cup {Len(line) + 1}) \in Nat \ {0}
  BY <1>1, <1>2, FirstOrEnd
<1>4. at \in Nat \ {0}
  BY Zenon, <1>3 DEF Skip_white_spaces
<1> HIDE DEF at
<1>5. SubSeq(line, at, Len(line)) \in Seq(Word)
  BY <1>1, <1>4, Cut
<1> QED BY Zenon, <1>5 DEF substr, at

(* A token, whatever the blank it ends with.                               *)
LEMMA TokenOf ==
  ASSUME NEW text \in Seq(Word), NEW blank, \E i \in DOMAIN text : text[i] # blank,
         NEW first, first = Min({i \in DOMAIN text : text[i] # blank}),
         NEW last, last = Min({i \in first..Len(text) : text[i] = blank} \cup {Len(text) + 1})
  PROVE  SubSeq(text, first, last - 1) \in Seq(Word)
<1>1. /\ Len(text) \in Nat /\ {i \in DOMAIN text : text[i] # blank} \subseteq 1..Len(text)
      /\ {i \in DOMAIN text : text[i] # blank} # {}
  OBVIOUS
<1>2. first \in 1..Len(text)
  BY <1>1, First
<1>3. first \in Nat \ {0}
  BY <1>1, <1>2
<1>4. {i \in first..Len(text) : text[i] = blank} \subseteq first..Len(text)
  OBVIOUS
<1>5. last \in Nat \ {0} /\ last <= Len(text) + 1
  BY <1>1, <1>3, <1>4, FirstOrEnd
<1>6. last - 1 \in Int /\ last - 1 <= Len(text)
  BY <1>1, <1>5
<1> QED BY <1>3, <1>6, Cut

LEMMA TokenType ==
  ASSUME NEW text \in Seq(Word), \E i \in DOMAIN text : text[i] # " "
  PROVE  token(text) \in Seq(Word)
BY Zenon, TokenOf DEF token

(* What is behind a place of a line.                                       *)
LEMMA Behind ==
  ASSUME NEW line \in Seq(Word), NEW at \in 1..Len(line), NEW blank,
         NEW i \in DOMAIN line, i > at, line[i] # blank
  PROVE  /\ SubSeq(line, at + 1, Len(line)) \in Seq(Word)
         /\ \E j \in DOMAIN SubSeq(line, at + 1, Len(line)) :
              SubSeq(line, at + 1, Len(line))[j] # blank
<1> DEFINE text == SubSeq(line, at + 1, Len(line))
<1>1. Len(line) \in Nat /\ at \in Nat \ {0} /\ i \in 1..Len(line)
  OBVIOUS
<1>2. text \in Seq(Word)
  BY <1>1, Cut
<1>3. at + 1 \in Int /\ Len(line) \in Int /\ \A j \in (at + 1)..Len(line) : line[j] \in Word
  BY <1>1
<1>4. /\ Len(text) = IF at + 1 <= Len(line) THEN Len(line) - (at + 1) + 1 ELSE 0
      /\ \A j \in 1..(Len(line) - (at + 1) + 1) : text[j] = line[at + 1 + j - 1]
  BY <1>3, SubSeqProperties
<1> HIDE DEF text
<1>5. i - at \in 1..(Len(line) - (at + 1) + 1) /\ at + 1 + (i - at) - 1 = i /\ at + 1 <= Len(line)
  BY <1>1
<1>6. text[i - at] = line[i] /\ i - at \in 1..Len(text)
  BY <1>4, <1>5
<1>7. DOMAIN text = 1..Len(text)
  BY <1>2
<1>8. \E j \in DOMAIN text : text[j] # blank
  BY <1>6, <1>7
<1> QED BY <1>2, <1>8 DEF text

LEMMA SetPathType ==
  ASSUME NEW line \in Seq(Word), Mentions(line, "location"), HasPath(line)
  PROVE  setPath(line) \in Seq(Word)
<1> DEFINE at == find(line, "location")
<1> DEFINE text == SubSeq(line, at + 1, Len(line))
<1>1. at \in 1..Len(line)
  BY FindType
<1>2. PICK i \in DOMAIN line : i > at /\ line[i] # " "
  BY Zenon DEF HasPath
<1> HIDE DEF at
<1>3. text \in Seq(Word) /\ \E j \in DOMAIN text : text[j] # " "
  BY Zenon, <1>1, <1>2, Behind
<1>4. token(text) \in Seq(Word)
  BY Zenon, <1>3, TokenType
<1>5. Append(token(text), "/") \in Seq(Word)
  BY Zenon, <1>4, SlashIsWord, AppendProperties
<1> QED BY Zenon, <1>4, <1>5 DEF setPath, at

-----------------------------------------------------------------------------
(* What holds of every location and of every server, whatever was read.    *)
Fields == {"path", "root", "autoIndex", "cgiEnabled", "cgi", "uploadEnabled", "uploadPath"}
LocOK(lc) ==
  /\ DOMAIN lc = Fields /\ lc.path \in Seq(Word)
  /\ lc.uploadPath # <<>> => lc.uploadEnabled \in BOOLEAN
LocsOK(ls) ==
  /\ <<"/">> \in DOMAIN ls
  /\ \A path \in DOMAIN ls : LocOK(ls[path]) /\ ls[path].path = path
ServerOK(sv) ==
  /\ DOMAIN sv = {"data", "config", "methods", "reach", "locations"}
  /\ LocsOK(sv.locations)

LEMMA NewLocationOK == LocOK(NewLocation) /\ NewLocation.path = <<"/">>
<1>1. \A w \in Word : <<w>> \in Seq(Word)
  OBVIOUS
<1>2. <<"/">> \in Seq(Word)
  BY Zenon, <1>1, SlashIsWord
<1>3. DOMAIN NewLocation = Fields /\ NewLocation.path = <<"/">> /\ NewLocation.uploadPath = <<>>
  BY Zenon DEF NewLocation, Fields
<1> QED BY Zenon, <1>2, <1>3 DEF LocOK

LEMMA NewServerOK == ServerOK(NewServer)
<1>1. DOMAIN NewServer = {"data", "config", "methods", "reach", "locations"}
  BY Zenon DEF NewServer
<1>2. NewServer.locations = [path \in {<<"/">>} |-> NewLocation]
  BY Zenon DEF NewServer
<1>3. LocsOK(NewServer.locations)
  BY Zenon, <1>2, NewLocationOK DEF LocsOK
<1> QED BY <1>1, <1>3 DEF ServerOK

LEMMA InsertOK ==
  ASSUME NEW ls, LocsOK(ls), NEW lc, LocOK(lc)
  PROVE  LocsOK(insertLocationConfig(ls, lc))
BY Zenon DEF LocsOK, insertLocationConfig

(* A directive leaves the path alone, and the flag known.                  *)
LEMMA SetFlag ==
  ASSUME NEW lc, LocOK(lc), NEW v \in BOOLEAN
  PROVE  LocOK([lc EXCEPT !.uploadEnabled = v])
BY DEF LocOK, Fields

LEMMA SetUpload ==
  ASSUME NEW lc, LocOK(lc), NEW v
  PROVE  LocOK(setUploadPath(lc, v))
BY DEF LocOK, Fields, setUploadPath

LEMMA DirectiveOK ==
  ASSUME NEW lc, LocOK(lc), NEW directive, NEW line,
         directive \in {"cgi_enabled", "cgi_folder", "cgi_allowed_ext", "auto_index",
                        "upload_enabled", "upload_folder"}
  PROVE  LocOK(SetDirective(lc, directive, line))
<1> DEFINE value == substr(line, ValueAt(directive, line))
<1> DEFINE isTrue == value # <<>> /\ value[1] = "true"
<1> DEFINE new == SetDirective(lc, directive, line)
<1>1. CASE directive = "cgi_enabled"
  <2>1. new = [lc EXCEPT !.cgiEnabled = isTrue]
    BY Zenon, <1>1 DEF SetDirective
  <2> QED BY <2>1 DEF LocOK, Fields
<1>2. CASE directive = "cgi_folder"
  <2>1. PICK v : new = [lc EXCEPT !.root = v]
    BY Zenon, <1>2 DEF SetDirective
  <2> QED BY <2>1 DEF LocOK, Fields
<1>3. CASE directive = "cgi_allowed_ext"
  <2>1. PICK v : new = [lc EXCEPT !.cgi = v]
    BY Zenon, <1>3 DEF SetDirective
  <2> QED BY <2>1 DEF LocOK, Fields
<1>4. CASE directive = "auto_index"
  <2>1. new = [lc EXCEPT !.autoIndex = isTrue]
    BY Zenon, <1>4 DEF SetDirective
  <2> QED BY <2>1 DEF LocOK, Fields
<1>5. CASE directive = "upload_enabled"
  <2>1. new = [lc EXCEPT !.uploadEnabled = isTrue]
    BY Zenon, <1>5 DEF SetDirective
  <2> QED BY <2>1, SetFlag, ZenonT(40)
<1>6. CASE directive = "upload_folder"
  <2>1. new = setUploadPath(lc, value)
    BY Zenon, <1>6 DEF SetDirective
  <2> QED BY Zenon, <2>1, SetUpload
<1> QED BY Zenon, <1>1, <1>2, <1>3, <1>4, <1>5, <1>6

LEMMA FirstDirective ==
  ASSUME NEW line, Named(Directives, line) # {}
  PROVE  FirstKey(Directives, line) \in
           {"cgi_enabled", "cgi_folder", "cgi_allowed_ext", "auto_index",
            "upload_enabled", "upload_folder"}
<1>1. DOMAIN Directives = 1..6 /\ \A i \in 1..6 : Directives[i] \in
           {"cgi_enabled", "cgi_folder", "cgi_allowed_ext", "auto_index",
            "upload_enabled", "upload_folder"}
  BY DEF Directives
<1>2. Named(Directives, line) \subseteq 1..6
  BY <1>1 DEF Named
<1>3. Min(Named(Directives, line)) \in 1..6
  BY <1>2, First
<1> QED BY Zenon, <1>1, <1>3 DEF FirstKey

-----------------------------------------------------------------------------
(* Server_List: sequences of anything.                                     *)
List(s) == \E S : s \in Seq(S)

LEMMA AppendList ==
  ASSUME NEW s, List(s), NEW e
  PROVE  /\ List(Append(s, e)) /\ Len(s) \in Nat /\ Len(Append(s, e)) = Len(s) + 1
         /\ Append(s, e)[Len(s) + 1] = e
         /\ \A i \in 1..Len(s) : Append(s, e)[i] = s[i]
<1>1. PICK S : s \in Seq(S)
  BY DEF List
<1>2. s \in Seq(S \cup {e}) /\ e \in S \cup {e}
  BY <1>1
<1>3. Append(s, e) \in Seq(S \cup {e}) /\ Len(Append(s, e)) = Len(s) + 1 /\ Len(s) \in Nat
      /\ Append(s, e)[Len(s) + 1] = e /\ \A i \in 1..Len(s) : Append(s, e)[i] = s[i]
  BY <1>2, AppendProperties, LenProperties
<1> QED BY <1>3 DEF List

(* Server_List.back() is given another value.                              *)
LEMMA ExceptList ==
  ASSUME NEW s, List(s), s # <<>>, NEW e, NEW t, t = [s EXCEPT ![Len(s)] = e]
  PROVE  /\ List(t) /\ Len(t) = Len(s) /\ Len(s) \in Nat \ {0}
         /\ t[Len(s)] = e /\ t # <<>>
         /\ \A i \in 1..Len(s) : i # Len(s) => t[i] = s[i]
<1>1. PICK S : s \in Seq(S)
  BY DEF List
<1>2. s \in Seq(S \cup {e}) /\ e \in S \cup {e} /\ Len(s) \in Nat \ {0} /\ Len(s) \in 1..Len(s)
  BY <1>1
<1>3. t \in Seq(S \cup {e}) /\ Len(t) = Len(s) /\ \A i \in 1..Len(s) : t[i] = IF i = Len(s) THEN e ELSE s[i]
  BY <1>2, ExceptSeq
<1> QED BY <1>2, <1>3 DEF List

-----------------------------------------------------------------------------
(* What makes UploadFlagKnown, LocationFound and AllBound inductive:       *)
(* the servers whose block has ended are started, all but the last while a *)
(* block is read.                                                          *)
Reading == {"server", "location", "methods"}
Begun(sv, reach) == [fill_config_datas(sv) EXCEPT !.reach = reach]
Apart(a, b) == Listens(a) /\ Listens(b) => port(a) = 0 \/ port(b) # port(a)
Started(s, n, instance) ==
  \A i \in 1..n :
    /\ s[i].reach # "unbound" /\ (s[i].reach = "heard" => instance)
    /\ \A key \in Filled : s[i].config[key] = s[i].data[key]
    /\ \A j \in 1..n : j < i => Apart(s[i], s[j])
ConfigInv ==
  /\ List(servers) /\ LocOK(loc)
  /\ level \in Reading => servers # <<>>
  /\ \A i \in 1..Len(servers) : ServerOK(servers[i])
  /\ level \in {"outer", "serving", "ended"} => Started(servers, Len(servers), epoll)
  /\ level \in Reading => Started(servers, Len(servers) - 1, epoll)
  /\ level = "serving" => epoll
  /\ level = "ended" => ~epoll

(* The server that is read changes, its locations stay good.               *)
WithBack(e) == [servers EXCEPT ![Len(servers)] = e]

LEMMA BackChanges ==
  ASSUME ConfigInv, level \in Reading, NEW e, ServerOK(e)
  PROVE  /\ List(WithBack(e)) /\ WithBack(e) # <<>>
         /\ \A i \in 1..Len(WithBack(e)) : ServerOK(WithBack(e)[i])
         /\ Started(WithBack(e), Len(WithBack(e)) - 1, epoll)
<1> DEFINE t == WithBack(e)
<1>1. List(servers) /\ servers # <<>> /\ Started(servers, Len(servers) - 1, epoll)
      /\ \A i \in 1..Len(servers) : ServerOK(servers[i])
  BY DEF ConfigInv
<1> DEFINE u == [servers EXCEPT ![Len(servers)] = e]
<1>2. /\ List(u) /\ Len(u) = Len(servers) /\ Len(servers) \in Nat \ {0}
      /\ u[Len(servers)] = e /\ u # <<>>
      /\ \A i \in 1..Len(servers) : i # Len(servers) => u[i] = servers[i]
  BY <1>1, ExceptList
<1>3. /\ List(t) /\ Len(t) = Len(servers) /\ Len(servers) \in Nat \ {0}
      /\ t[Len(servers)] = e /\ t # <<>>
      /\ \A i \in 1..Len(servers) : i # Len(servers) => t[i] = servers[i]
  BY Zenon, <1>2 DEF WithBack
<1> HIDE DEF t, u
<1>4. \A i \in 1..Len(t) : ServerOK(t[i])
  BY <1>1, <1>3
<1>5. \A i \in 1..(Len(t) - 1) : t[i] = servers[i]
  BY <1>3
<1>6. Started(t, Len(t) - 1, epoll)
  BY <1>1, <1>3, <1>5 DEF Started
<1> QED BY <1>3, <1>4, <1>6 DEF t

(* A block ends: its server is started, or the program has failed.         *)
LEMMA StartKeeps ==
  ASSUME NEW s, List(s), s # <<>>, \A i \in 1..Len(s) : ServerOK(s[i]),
         Started(s, Len(s) - 1, epoll), ConfigInv, UNCHANGED epoll,
         NEW next \in {"outer", Respond}, Start_server(s, next)
  PROVE  ConfigInv'
<1>1. CASE Throw
  BY <1>1 DEF Throw, ConfigInv, Reading
<1>2. CASE /\ PortFree(s) /\ level' = next /\ UNCHANGED loc
           /\ \E reach \in Reached : servers' = [s EXCEPT ![Len(s)] = Begun(s[Len(s)], reach)]
  <2>0. PICK reach \in Reached : servers' = [s EXCEPT ![Len(s)] = Begun(s[Len(s)], reach)]
    BY <1>2
  <2> DEFINE e == Begun(s[Len(s)], reach)
  <2> DEFINE t == [s EXCEPT ![Len(s)] = e]
  <2>1. /\ List(t) /\ Len(t) = Len(s) /\ Len(s) \in Nat \ {0} /\ t[Len(s)] = e
        /\ \A i \in 1..Len(s) : i # Len(s) => t[i] = s[i]
    BY ExceptList, SMTT(30)
  <2>2. ServerOK(s[Len(s)])
    BY <2>1
  <2>3. /\ DOMAIN e = DOMAIN s[Len(s)] /\ e.data = s[Len(s)].data
        /\ e.locations = s[Len(s)].locations /\ e.reach = reach
        /\ \A key \in Filled : e.config[key] = e.data[key]
    BY <2>2 DEF Begun, fill_config_datas, ServerOK
  <2>9. servers' = t
    BY <2>0
  <2> HIDE DEF e, t
  <2>4. ServerOK(e)
    BY <2>2, <2>3 DEF ServerOK
  <2>5. \A i \in 1..Len(t) : ServerOK(t[i])
    BY <2>1, <2>4
  <2>6. \A i \in 1..Len(t) : port(t[i]) = port(s[i])
    BY <2>1, <2>3 DEF port
  <2>7. port(s[Len(s)]) = 0 \/
          \A i \in 1..(Len(s) - 1) : Listens(s[i]) => port(s[i]) # port(s[Len(s)])
    BY <1>2 DEF PortFree
  <2>10. \A i \in 1..(Len(s) - 1) : t[i] = s[i] /\ i \in 1..Len(t)
    BY <2>1
  <2>8. Started(t, Len(t), epoll)
    <3> SUFFICES ASSUME NEW i \in 1..Len(t)
                 PROVE  /\ t[i].reach # "unbound" /\ (t[i].reach = "heard" => epoll)
                        /\ \A key \in Filled : t[i].config[key] = t[i].data[key]
                        /\ \A j \in 1..Len(t) : j < i => Apart(t[i], t[j])
      BY DEF Started
    <3>1. CASE i = Len(s)
      <4>1. \A j \in 1..Len(t) : j < i => j \in 1..(Len(s) - 1)
        BY <2>1, <3>1
      <4>2. reach # "unbound" /\ (reach = "heard" => epoll)
        BY <2>0 DEF Reached
      <4>3. t[i] = e /\ port(t[i]) = port(s[Len(s)])
        BY <2>1, <2>6, <3>1
      <4>4. \A j \in 1..(Len(s) - 1) : Apart(t[i], t[j])
        BY <2>6, <2>7, <2>10, <4>3 DEF Apart
      <4> QED BY <2>3, <4>1, <4>2, <4>3, <4>4
    <3>2. CASE i \in 1..(Len(s) - 1)
      <4>1. t[i] = s[i] /\ \A j \in 1..Len(t) : j < i => j \in 1..(Len(s) - 1) /\ t[j] = s[j]
        BY <2>1, <3>2
      <4> QED BY <4>1, <3>2 DEF Started
    <3> QED BY <3>1, <3>2, <2>1
  <2>11. next = "serving" \/ next = "outer" \/ next = "ended"
    BY DEF Respond
  <2>12. /\ next = "serving" => epoll
         /\ next = "ended" => ~epoll
    BY DEF Respond
  <2> QED BY <1>2, <2>1, <2>5, <2>8, <2>9, <2>11, <2>12 DEF ConfigInv, Reading
<1> QED BY <1>1, <1>2 DEF Start_server, Begun

-----------------------------------------------------------------------------
(* One step per loop.                                                      *)

LEMMA StaysOK ==
  ASSUME ConfigInv, UNCHANGED <<servers, epoll>>, LocOK(loc'),
         level' = "failed" \/ level' = level \/ (level \in Reading /\ level' \in Reading)
  PROVE  ConfigInv'
BY DEF ConfigInv, Reading

LEMMA BackOK ==
  ASSUME ConfigInv, level \in Reading, level' \in Reading, UNCHANGED <<loc, epoll>>,
         NEW e, ServerOK(e), servers' = [servers EXCEPT ![Len(servers)] = e]
  PROVE  ConfigInv'
<1>1. servers' = WithBack(e)
  BY DEF WithBack
<1>2. /\ List(WithBack(e)) /\ WithBack(e) # <<>>
      /\ \A i \in 1..Len(WithBack(e)) : ServerOK(WithBack(e)[i])
      /\ Started(WithBack(e), Len(WithBack(e)) - 1, epoll)
  BY BackChanges
<1> QED BY <1>1, <1>2 DEF ConfigInv, Reading

LEMMA LastOK ==
  ASSUME ConfigInv, level \in Reading
  PROVE  ServerOK(servers[Len(servers)]) /\ List(servers) /\ servers # <<>> /\ LocOK(loc)
<1>1. List(servers) /\ servers # <<>>
  BY DEF ConfigInv
<1>2. PICK S : servers \in Seq(S)
  BY <1>1 DEF List
<1>3. Len(servers) \in 1..Len(servers)
  BY <1>1, <1>2
<1> QED BY <1>1, <1>3 DEF ConfigInv

LEMMA OuterKeeps ==
  ASSUME ConfigInv, UNCHANGED epoll, NEW line, ReadOuter(line)
  PROVE  ConfigInv'
<1>1. CASE Skip \/ Throw
  BY <1>1, StaysOK DEF Skip, Throw, ConfigInv
<1>2. CASE servers' = Append(servers, NewServer) /\ level' = "server" /\ UNCHANGED loc
  <2>1. List(servers) /\ Started(servers, Len(servers), epoll) /\ LocOK(loc)
        /\ \A i \in 1..Len(servers) : ServerOK(servers[i])
    BY DEF ConfigInv, ReadOuter
  <2> DEFINE t == Append(servers, NewServer)
  <2>2. /\ List(t) /\ Len(servers) \in Nat /\ Len(t) = Len(servers) + 1
        /\ t[Len(servers) + 1] = NewServer
        /\ \A i \in 1..Len(servers) : t[i] = servers[i]
    BY <2>1, AppendList
  <2> HIDE DEF t
  <2>3. t # <<>> /\ Len(t) - 1 = Len(servers)
    BY <2>2
  <2>4. \A i \in 1..Len(t) : ServerOK(t[i])
    <3>1. \A i \in 1..Len(t) : i = Len(servers) + 1 \/ i \in 1..Len(servers)
      BY <2>2
    <3> QED BY <3>1, <2>1, <2>2, NewServerOK
  <2>5. Started(t, Len(servers), epoll)
    BY <2>1, <2>2 DEF Started
  <2> QED BY <1>2, <2>1, <2>2, <2>3, <2>4, <2>5 DEF ConfigInv, Reading, t
<1> QED BY Zenon, <1>1, <1>2 DEF ReadOuter

LEMMA ServerKeeps ==
  ASSUME ConfigInv, UNCHANGED epoll, NEW line \in Lines, LoadConfig(line)
  PROVE  ConfigInv'
<1>1. level = "server" /\ level \in Reading
  BY Zenon DEF LoadConfig, Reading
<1>2. CASE Skip \/ Throw
  BY <1>2, StaysOK DEF Skip, Throw, ConfigInv
<1>3. CASE /\ UNCHANGED <<level, loc>>
           /\ \E key, v : servers' = [servers EXCEPT ![Back].data[key] = v]
  <2>1. PICK key, v : servers' = [servers EXCEPT ![Back].data[key] = v]
    BY <1>3
  <2> DEFINE sv == servers[Len(servers)]
  <2> DEFINE e == [sv EXCEPT !.data[key] = v]
  <2>2. servers' = [servers EXCEPT ![Len(servers)] = e]
    BY <2>1 DEF Back
  <2>3. ServerOK(sv)
    BY <1>1, LastOK
  <2>4. ServerOK(e)
    BY <2>3 DEF ServerOK
  <2> HIDE DEF e
  <2> QED BY <1>1, <1>3, <2>2, <2>4, BackOK
<1>4. CASE /\ Mentions(line, "location") /\ HasPath(line) /\ level' = "location"
           /\ loc' = [NewLocation EXCEPT !.path = setPath(line)] /\ UNCHANGED servers
  <2>1. setPath(line) \in Seq(Word)
    BY <1>4, LineType, SetPathType
  <2>2. LocOK(loc')
    BY <1>4, <2>1, NewLocationOK DEF LocOK, Fields
  <2> QED BY <1>1, <1>4, <2>2, StaysOK DEF Reading
<1>5. CASE level' = "methods" /\ UNCHANGED <<servers, loc>>
  BY <1>1, <1>5, StaysOK DEF Reading, ConfigInv
<1> QED BY Zenon, <1>2, <1>3, <1>4, <1>5 DEF LoadConfig

(* The location that was read becomes one of the last server's.            *)
LEMMA EndLocationOK ==
  ASSUME ConfigInv, level \in Reading
  PROVE  \E e : ServerOK(e) /\ EndLocation(servers) = [servers EXCEPT ![Len(servers)] = e]
<1> DEFINE sv == servers[Len(servers)]
<1> DEFINE e == [sv EXCEPT !.locations = insertLocationConfig(sv.locations, loc)]
<1>1. ServerOK(sv) /\ LocOK(loc)
  BY LastOK
<1>2. LocsOK(insertLocationConfig(sv.locations, loc))
  BY <1>1, InsertOK DEF ServerOK
<1>3. ServerOK(e)
  BY <1>1, <1>2 DEF ServerOK
<1>4. EndLocation(servers) = [servers EXCEPT ![Len(servers)] = e]
  BY DEF EndLocation
<1> QED BY Zenon, <1>3, <1>4

LEMMA LocationKeeps ==
  ASSUME ConfigInv, UNCHANGED epoll, NEW line, Manage_Location(line)
  PROVE  ConfigInv'
<1>1. level = "location" /\ level \in Reading /\ LocOK(loc)
  BY Zenon DEF Manage_Location, Reading, ConfigInv
<1>2. CASE Skip \/ Throw
  BY <1>1, <1>2, StaysOK DEF Skip, Throw
<1>3. CASE servers' = EndLocation(servers) /\ level' = "server" /\ UNCHANGED loc
  <2>1. PICK e : ServerOK(e) /\ EndLocation(servers) = [servers EXCEPT ![Len(servers)] = e]
    BY <1>1, EndLocationOK
  <2>2. level' \in Reading
    BY <1>3 DEF Reading
  <2> QED BY <1>1, <1>3, <2>1, <2>2, BackOK
<1>4. CASE /\ Named(Directives, line) # {} /\ UNCHANGED <<level, servers>>
           /\ loc' = SetDirective(loc, FirstKey(Directives, line), line)
  <2> DEFINE key == FirstKey(Directives, line)
  <2>1. key \in {"cgi_enabled", "cgi_folder", "cgi_allowed_ext", "auto_index",
                 "upload_enabled", "upload_folder"}
    BY <1>4, FirstDirective
  <2>2. loc' = SetDirective(loc, key, line)
    BY <1>4
  <2> HIDE DEF key
  <2>3. LocOK(SetDirective(loc, key, line))
    BY <1>1, <2>1, DirectiveOK
  <2> QED BY <1>4, <2>2, <2>3, StaysOK
<1> QED BY Zenon, <1>2, <1>3, <1>4 DEF Manage_Location

LEMMA MethodsKeeps ==
  ASSUME ConfigInv, UNCHANGED epoll, NEW line, Manage_Methods(line)
  PROVE  ConfigInv'
<1>1. level = "methods" /\ level \in Reading /\ LocOK(loc)
  BY Zenon DEF Manage_Methods, Reading, ConfigInv
<1>2. CASE level' = "server" /\ UNCHANGED <<servers, loc>>
  BY <1>1, <1>2, StaysOK DEF Reading
<1>3. CASE /\ UNCHANGED <<level, loc>>
           /\ servers' = [servers EXCEPT ![Back].methods =
                            @ \cup {line[i] : i \in Places(line, Methods)}]
  <2> DEFINE sv == servers[Len(servers)]
  <2> DEFINE e == [sv EXCEPT !.methods = @ \cup {line[i] : i \in Places(line, Methods)}]
  <2>1. servers' = [servers EXCEPT ![Len(servers)] = e]
    BY <1>3 DEF Back
  <2>2. ServerOK(sv)
    BY <1>1, LastOK
  <2>3. ServerOK(e)
    BY <2>2 DEF ServerOK
  <2> HIDE DEF e
  <2> QED BY <1>1, <1>3, <2>1, <2>3, BackOK
<1> QED BY Zenon, <1>2, <1>3 DEF Manage_Methods

LEMMA EndKeeps ==
  ASSUME ConfigInv, EndOfFile
  PROVE  ConfigInv'
<1>0. UNCHANGED epoll
  BY DEF EndOfFile
<1>1. CASE level = "outer" /\ level' = Respond /\ UNCHANGED <<servers, loc>>
  BY <1>0, <1>1 DEF ConfigInv, Reading, Respond
<1>2. CASE level \in {"server", "methods"} /\ Start_server(servers, Respond)
  <2>1. level \in Reading
    BY <1>2 DEF Reading
  <2> QED BY <1>0, <1>2, <2>1, StartKeeps DEF ConfigInv
<1>3. CASE level = "location" /\ Start_server(EndLocation(servers), Respond)
  <2>1. level \in Reading
    BY <1>3 DEF Reading
  <2>2. PICK e : ServerOK(e) /\ EndLocation(servers) = WithBack(e)
    BY <2>1, EndLocationOK DEF WithBack
  <2>3. /\ List(WithBack(e)) /\ WithBack(e) # <<>>
        /\ \A i \in 1..Len(WithBack(e)) : ServerOK(WithBack(e)[i])
        /\ Started(WithBack(e), Len(WithBack(e)) - 1, epoll)
    BY <2>1, <2>2, BackChanges
  <2> QED BY <1>0, <1>3, <2>2, <2>3, StartKeeps
<1> QED BY Zenon, <1>1, <1>2, <1>3 DEF EndOfFile

LEMMA ConfigInvariance == Spec => []ConfigInv
<1>1. Init => ConfigInv
  <2> SUFFICES ASSUME Init PROVE ConfigInv
    OBVIOUS
  <2>1. List(<<>>)
    BY DEF List
  <2> QED BY <2>1, NewLocationOK DEF Init, ConfigInv, Reading, Started
<1>2. ConfigInv /\ [Next]_vars => ConfigInv'
  <2> SUFFICES ASSUME ConfigInv, [Next]_vars PROVE ConfigInv'
    OBVIOUS
  <2>1. CASE EndOfFile
    BY <2>1, EndKeeps
  <2>2. ASSUME NEW line \in Lines, Read(line) PROVE ConfigInv'
    <3>0. UNCHANGED epoll
      BY <2>2 DEF Read
    <3>1. CASE ReadOuter(line)
      BY <3>0, <3>1, OuterKeeps
    <3>2. CASE EndServer(line)
      <4>1. level \in Reading /\ Start_server(servers, "outer")
        BY <3>2 DEF EndServer, Reading
      <4> QED BY <3>0, <4>1, StartKeeps DEF ConfigInv
    <3>3. CASE LoadConfig(line)
      BY <3>0, <3>3, ServerKeeps
    <3>4. CASE Manage_Location(line)
      BY <3>0, <3>4, LocationKeeps
    <3>5. CASE Manage_Methods(line)
      BY <3>0, <3>5, MethodsKeeps
    <3> QED BY <2>2, <3>1, <3>2, <3>3, <3>4, <3>5 DEF Read
  <2>3. CASE UNCHANGED vars
    BY <2>3 DEF vars, ConfigInv
  <2> QED BY <2>1, <2>2, <2>3 DEF Next
<1> QED BY <1>1, <1>2, PTL DEF Spec

(* For any lines, and whichever of the calls fail: the loop runs with an   *)
(* epoll instance and every server of the file bound, with the settings    *)
(* read for it, and no two of them listen on one port; when there is no    *)
(* instance nobody is heard and the program ends.                          *)
THEOREM AlwaysAllBound == Spec => []AllBound
<1>1. ConfigInv => AllBound
  <2> SUFFICES ASSUME ConfigInv PROVE AllBound
    OBVIOUS
  <2>2. PICK S : servers \in Seq(S)
    BY DEF ConfigInv, List
  <2>3. DOMAIN servers = 1..Len(servers) /\ Len(servers) \in Nat
    BY <2>2
  <2>4. level \in {"serving", "ended"} => Started(servers, Len(servers), epoll)
    BY DEF ConfigInv
  <2>5. ASSUME level \in {"serving", "ended"}, NEW i \in 1..Len(servers), NEW j \in 1..Len(servers),
               i # j, Listens(servers[i]), Listens(servers[j])
        PROVE  port(servers[i]) = 0 \/ port(servers[i]) # port(servers[j])
    <3>1. i < j \/ j < i
      BY <2>5
    <3>2. Apart(servers[i], servers[j]) \/ Apart(servers[j], servers[i])
      BY <2>4, <2>5, <3>1 DEF Started
    <3> QED BY <2>5, <3>2 DEF Apart
  <2>6. (level = "serving" => epoll) /\ (level = "ended" => ~epoll)
    BY DEF ConfigInv
  <2> QED BY <2>3, <2>4, <2>5, <2>6 DEF AllBound, Started
<1> QED BY <1>1, ConfigInvariance, PTL

(* For any lines: no location has a folder for uploads and a flag that no  *)
(* one has set.                                                            *)
THEOREM UploadFlagAlwaysKnown == Spec => []UploadFlagKnown
<1>1. ConfigInv => UploadFlagKnown
  <2> SUFFICES ASSUME ConfigInv,
                      NEW lc \in {loc} \cup UNION {{servers[i].locations[path] :
                        path \in DOMAIN servers[i].locations} : i \in DOMAIN servers}
               PROVE  LocOK(lc)
    BY DEF UploadFlagKnown, LocOK
  <2>1. LocOK(loc) /\ List(servers)
    BY DEF ConfigInv
  <2>2. PICK S : servers \in Seq(S)
    BY <2>1 DEF List
  <2>3. \A i \in DOMAIN servers : \A path \in DOMAIN servers[i].locations :
          LocOK(servers[i].locations[path])
    BY <2>2 DEF ConfigInv, ServerOK, LocsOK
  <2> QED BY <2>1, <2>3
<1> QED BY <1>1, ConfigInvariance, PTL

(* A word that is in a uri occurs in it.                                   *)
LEMMA WordOccurs ==
  ASSUME NEW uri \in Seq(Word), NEW word, Mentions(uri, word)
  PROVE  Occurs(<<word>>, uri)
<1>1. PICK i \in DOMAIN uri : uri[i] = word
  BY DEF Mentions, Places
<1>2. i \in 1..Len(uri) /\ Len(uri) \in Nat
  OBVIOUS
<1> DEFINE t == SubSeq(uri, i, i)
<1>3. i \in Int /\ \A j \in i..i : uri[j] \in Word
  BY <1>2
<1>4. t \in Seq(Word) /\ Len(t) = 1 /\ t[1] = word
  <2>1. ASSUME NEW n \in Int, n = i
        PROVE  /\ SubSeq(uri, i, n) \in Seq(Word)
               /\ Len(SubSeq(uri, i, n)) = (IF i <= n THEN n - i + 1 ELSE 0)
               /\ \A j \in 1..(n - i + 1) : SubSeq(uri, i, n)[j] = uri[i + j - 1]
    <3>1. i \in Int /\ \A j \in i..n : uri[j] \in Word
      BY <1>3, <2>1
    <3> HIDE <2>1
    <3> QED BY <3>1, SubSeqProperties
  <2>2. t \in Seq(Word) /\ Len(t) = (IF i <= i THEN i - i + 1 ELSE 0)
        /\ \A j \in 1..(i - i + 1) : t[j] = uri[i + j - 1]
    BY Zenon, <1>3, <2>1
  <2> HIDE DEF t
  <2>3. 1 \in 1..(i - i + 1) /\ i + 1 - 1 = i /\ i - i + 1 = 1 /\ i <= i
    BY <1>2
  <2> QED BY <1>1, <2>2, <2>3
<1>5. t = <<word>>
  <2> HIDE DEF t
  <2> QED BY <1>4
<1>6. Len(<<word>>) = 1 /\ i + 1 - 1 = i /\ i <= Len(uri)
  BY <1>2
<1> QED BY <1>5, <1>6 DEF Occurs

(* For any lines and any uris: a uri with a slash has a location, and its  *)
(* path is no longer than the uri.                                         *)
THEOREM LocationAlwaysFound == Spec => []LocationFound
<1>1. ConfigInv => LocationFound
  <2> SUFFICES ASSUME ConfigInv, NEW i \in DOMAIN servers, NEW uri \in Uris, Mentions(uri, "/")
               PROVE  /\ BestLocations(servers[i].locations, uri) # {}
                      /\ \A path \in BestLocations(servers[i].locations, uri) :
                           /\ servers[i].locations[path].path = path
                           /\ Len(path) <= Len(uri)
    BY Zenon DEF LocationFound
  <2> DEFINE ls == servers[i].locations
  <2>1. uri \in Seq(Word) /\ Len(uri) \in Nat
    BY UrisAssumption DEF Word
  <2>2. LocsOK(ls)
    <3>1. PICK S : servers \in Seq(S)
      BY DEF ConfigInv, List
    <3> QED BY <3>1 DEF ConfigInv, ServerOK
  <2> HIDE DEF ls
  <2>3. <<"/">> \in Matching(ls, uri)
    BY Zenon, <2>1, <2>2, WordOccurs DEF Matching, LocsOK
  <2>4. \A path \in Matching(ls, uri) :
          ls[path].path = path /\ Len(path) \in Nat /\ Len(path) <= Len(uri)
    <3> SUFFICES ASSUME NEW path \in Matching(ls, uri)
                 PROVE  ls[path].path = path /\ Len(path) \in Nat /\ Len(path) <= Len(uri)
      OBVIOUS
    <3>1. ls[path].path = path /\ path \in Seq(Word)
      BY Zenon, <2>2 DEF Matching, LocsOK, LocOK
    <3>2. Len(path) \in Nat
      BY <3>1
    <3>3. PICK k \in DOMAIN uri : k + Len(path) - 1 <= Len(uri)
      BY DEF Matching, Occurs
    <3>4. k \in Nat /\ k >= 1
      BY <2>1
    <3> QED BY <3>1, <3>2, <3>3, <3>4, <2>1
  <2>5. PICK path \in Matching(ls, uri) :
          \A other \in Matching(ls, uri) : Len(other) <= Len(path)
    BY <2>1, <2>3, <2>4, Longest
  <2>6. BestLocations(ls, uri) # {}
    BY <2>5 DEF BestLocations
  <2>7. \A p \in BestLocations(ls, uri) : p \in Matching(ls, uri)
    BY DEF BestLocations
  <2> QED BY Zenon, <2>4, <2>6, <2>7 DEF ls
<1> QED BY <1>1, ConfigInvariance, PTL

(* A path that begins the uri occurs in it, and the rest of the uri is     *)
(* what is left behind it.                                                 *)
LEMMA PrefixOccurs ==
  ASSUME NEW uri \in Seq(Word), NEW path \in Seq(Word), Prefix(path, uri), Len(path) # 0
  PROVE  Occurs(path, uri)
<1>1. Len(uri) \in Nat /\ Len(path) \in Nat /\ Len(path) <= Len(uri) /\ DOMAIN uri = 1..Len(uri)
  BY DEF Prefix
<1>2. 1 \in DOMAIN uri /\ 1 + Len(path) - 1 = Len(path)
  BY <1>1
<1>3. SubSeq(uri, 1, 1 + Len(path) - 1) = path
  BY Zenon, <1>2 DEF Prefix
<1> QED BY <1>1, <1>2, <1>3 DEF Occurs

LEMMA RestOf ==
  ASSUME NEW uri \in Seq(Word), NEW path \in Seq(Word), Prefix(path, uri)
  PROVE  uri = path \o SubSeq(uri, Len(path) + 1, Len(uri))
<1> DEFINE rest == SubSeq(uri, Len(path) + 1, Len(uri))
<1>1. Len(uri) \in Nat /\ Len(path) \in Nat /\ Len(path) <= Len(uri)
  BY DEF Prefix
<1>2. \A j \in 1..Len(path) : path[j] = uri[j]
  BY <1>1 DEF Prefix
<1>3. rest \in Seq(Word) /\ Len(rest) = Len(uri) - Len(path)
      /\ \A j \in 1..Len(rest) : rest[j] = uri[Len(path) + j]
  BY <1>1
<1> HIDE DEF rest
<1>4. path \o rest \in Seq(Word) /\ Len(path \o rest) = Len(uri)
  BY <1>1, <1>3
<1>5. ASSUME NEW j \in 1..Len(uri) PROVE uri[j] = (path \o rest)[j]
  <2>1. CASE j <= Len(path)
    BY <1>1, <1>2, <1>3, <2>1
  <2>2. CASE j > Len(path)
    <3>1. j - Len(path) \in 1..Len(rest) /\ Len(path) + (j - Len(path)) = j
      BY <1>1, <1>3, <2>2
    <3>2. (path \o rest)[j] = rest[j - Len(path)]
      BY <1>1, <1>3, <2>2
    <3> QED BY <1>3, <3>1, <3>2
  <2>3. j <= Len(path) \/ j > Len(path)
    BY <1>1
  <2> QED BY Zenon, <2>1, <2>2, <2>3
<1> QED BY <1>4, <1>5, SeqEqual DEF rest

(* For any lines and any uris: the location chosen is at least as long as  *)
(* any that begins the uri, and where it begins the uri its root takes the *)
(* place of its path (ServerConfig.cpp 112-119, Router.cpp 75-76).         *)
THEOREM LongestPrefixChosen == Spec => []LongestPrefix
<1>1. ConfigInv => LongestPrefix
  <2> SUFFICES ASSUME ConfigInv, NEW i \in DOMAIN servers, NEW uri \in Uris,
                      NEW path \in BestLocations(servers[i].locations, uri),
                      NEW other \in DOMAIN servers[i].locations
               PROVE  /\ Prefix(other, uri) => Len(other) <= Len(path)
                      /\ Prefix(path, uri) =>
                           \E rest \in {SubSeq(uri, k, Len(uri)) : k \in 1..(Len(uri) + 1)} :
                             /\ uri = path \o rest
                             /\ Url(servers[i].locations[path], uri) =
                                  servers[i].locations[path].root \o rest
    BY Zenon DEF LongestPrefix
  <2> DEFINE ls == servers[i].locations
  <2>1. uri \in Seq(Word) /\ Len(uri) \in Nat
    BY UrisAssumption DEF Word
  <2>2. LocsOK(ls)
    <3>1. PICK S : servers \in Seq(S)
      BY DEF ConfigInv, List
    <3> QED BY <3>1 DEF ConfigInv, ServerOK
  <2> HIDE DEF ls
  <2>3. /\ path \in Matching(ls, uri) /\ path \in DOMAIN ls
        /\ \A p \in Matching(ls, uri) : Len(p) <= Len(path)
    BY Zenon DEF BestLocations, Matching, ls
  <2>4. path \in Seq(Word) /\ other \in Seq(Word) /\ ls[path].path = path
    BY Zenon, <2>2, <2>3 DEF LocsOK, LocOK, ls
  <2>5. Len(path) \in Nat /\ Len(other) \in Nat
    BY <2>4
  <2>6. ASSUME Prefix(other, uri) PROVE Len(other) <= Len(path)
    <3>1. CASE Len(other) = 0
      BY <2>5, <3>1
    <3>2. CASE Len(other) # 0
      <4>1. other \in Matching(ls, uri)
        BY Zenon, <2>1, <2>4, <2>6, <3>2, PrefixOccurs DEF Matching, ls
      <4> QED BY <2>3, <4>1
    <3> QED BY <3>1, <3>2
  <2>7. ASSUME Prefix(path, uri)
        PROVE  \E rest \in {SubSeq(uri, k, Len(uri)) : k \in 1..(Len(uri) + 1)} :
                 uri = path \o rest /\ Url(ls[path], uri) = ls[path].root \o rest
    <3>1. Len(path) <= Len(uri)
      BY <2>7 DEF Prefix
    <3>2. Len(path) + 1 \in 1..(Len(uri) + 1)
      BY <2>1, <2>5, <3>1
    <3>3. uri = path \o SubSeq(uri, Len(path) + 1, Len(uri))
      BY <2>1, <2>4, <2>7, RestOf
    <3>4. Url(ls[path], uri) = ls[path].root \o SubSeq(uri, Len(path) + 1, Len(uri))
      BY Zenon, <2>4 DEF Url
    <3> QED BY Zenon, <3>2, <3>3, <3>4
  <2> QED BY Zenon, <2>6, <2>7 DEF ls
<1> QED BY <1>1, ConfigInvariance, PTL

-----------------------------------------------------------------------------
(* A tidy line.  An indented text is what is left of the line without the  *)
(* blanks before it.                                                       *)
Indented(line, text, p, blank) ==
  /\ p \in 1..Len(line) /\ \A i \in 1..(p - 1) : line[i] = blank
  /\ text \in Seq(Word) /\ Len(text) = Len(line) - p + 1
  /\ \A j \in 1..Len(text) : text[j] = line[p + j - 1]

(* What a line has from a place on.                                        *)
LEMMA FromPlace ==
  ASSUME NEW line \in Seq(Word), NEW p \in Nat \ {0}, p <= Len(line) + 1
  PROVE  /\ SubSeq(line, p, Len(line)) \in Seq(Word)
         /\ Len(SubSeq(line, p, Len(line))) = Len(line) - p + 1
         /\ \A j \in 1..(Len(line) - p + 1) : SubSeq(line, p, Len(line))[j] = line[p + j - 1]
<1>1. Len(line) \in Nat /\ p \in Int /\ Len(line) \in Int /\ \A i \in p..Len(line) : line[i] \in Word
  OBVIOUS
<1>2. /\ SubSeq(line, p, Len(line)) \in Seq(Word)
      /\ Len(SubSeq(line, p, Len(line))) = IF p <= Len(line) THEN Len(line) - p + 1 ELSE 0
      /\ \A j \in 1..(Len(line) - p + 1) : SubSeq(line, p, Len(line))[j] = line[p + j - 1]
  BY <1>1, SubSeqProperties
<1> QED BY <1>1, <1>2

LEMMA Strip ==
  ASSUME NEW line \in Seq(Word), NEW blank, NEW p,
         p = Min({i \in DOMAIN line : line[i] # blank} \cup {Len(line) + 1}),
         SubSeq(line, p, Len(line)) # <<>>
  PROVE  Indented(line, SubSeq(line, p, Len(line)), p, blank)
<1> DEFINE S == {i \in DOMAIN line : line[i] # blank}
<1> DEFINE T == S \cup {Len(line) + 1}
<1> DEFINE text == SubSeq(line, p, Len(line))
<1>1. /\ Len(line) \in Nat /\ DOMAIN line = 1..Len(line) /\ T \subseteq Nat /\ T # {}
      /\ \A i \in T : i >= 1
  OBVIOUS
<1>2. p \in T /\ \A y \in T : p <= y
  <2>1. p = Min(T)
    OBVIOUS
  <2> HIDE DEF T
  <2> QED BY <2>1, <1>1, MinIsLeast
<1>3. p \in Nat \ {0} /\ p <= Len(line) + 1
  <2>1. Len(line) + 1 \in T
    OBVIOUS
  <2> HIDE DEF T
  <2> QED BY <2>1, <1>1, <1>2
<1>4. /\ text \in Seq(Word) /\ Len(text) = Len(line) - p + 1
      /\ \A j \in 1..(Len(line) - p + 1) : text[j] = line[p + j - 1]
  BY <1>3, FromPlace
<1> HIDE DEF text
<1>5. p <= Len(line)
  <2>1. Len(text) # 0
    BY <1>4, EmptySeq DEF text
  <2> QED BY <2>1, <1>1, <1>3, <1>4
<1>6. \A i \in 1..(p - 1) : line[i] = blank
  <2>1. \A i \in 1..(p - 1) : i \in DOMAIN line /\ i \notin T
    <3> HIDE DEF T
    <3> QED BY <1>1, <1>2, <1>3, <1>5
  <2> QED BY <2>1
<1>7. p \in 1..Len(line)
  BY <1>1, <1>3, <1>5
<1>8. Indented(line, text, p, blank)
  BY Zenon, <1>4, <1>6, <1>7 DEF Indented
<1> QED BY <1>8 DEF text

(* Words that are not blanks are where they are in the text.               *)
LEMMA Shift ==
  ASSUME NEW line \in Seq(Word), NEW text, NEW p, NEW blank, Indented(line, text, p, blank),
         NEW W, blank \notin W
  PROVE  /\ \A i \in DOMAIN line : line[i] \in W =>
              i - p + 1 \in DOMAIN text /\ text[i - p + 1] = line[i]
         /\ \A j \in DOMAIN text : p + j - 1 \in DOMAIN line /\ line[p + j - 1] = text[j]
<1>1. Len(line) \in Nat /\ p \in 1..Len(line) /\ DOMAIN line = 1..Len(line)
      /\ DOMAIN text = 1..Len(text) /\ Len(text) = Len(line) - p + 1
  BY DEF Indented
<1>2. ASSUME NEW i \in DOMAIN line, line[i] \in W
      PROVE  i - p + 1 \in DOMAIN text /\ text[i - p + 1] = line[i]
  <2>1. i \in 1..Len(line) /\ i >= p
    BY <1>1, <1>2 DEF Indented
  <2>2. i - p + 1 \in 1..Len(text) /\ p + (i - p + 1) - 1 = i
    BY <1>1, <2>1
  <2> QED BY <1>1, <2>2 DEF Indented
<1>3. ASSUME NEW j \in DOMAIN text
      PROVE  p + j - 1 \in DOMAIN line /\ line[p + j - 1] = text[j]
  BY <1>1, SMTT(30) DEF Indented
<1> QED BY <1>2, <1>3

(* A line and its text mention the same words.                             *)
LEMMA SameMentions ==
  ASSUME NEW line \in Seq(Word), NEW text, NEW p, NEW blank, Indented(line, text, p, blank),
         NEW word, word # blank
  PROVE  Mentions(line, word) <=> Mentions(text, word)
<1>1. /\ \A i \in DOMAIN line : line[i] \in {word} =>
           i - p + 1 \in DOMAIN text /\ text[i - p + 1] = line[i]
      /\ \A j \in DOMAIN text : p + j - 1 \in DOMAIN line /\ line[p + j - 1] = text[j]
  <2>1. ASSUME NEW W, W = {word}
        PROVE  /\ \A i \in DOMAIN line : line[i] \in W =>
                    i - p + 1 \in DOMAIN text /\ text[i - p + 1] = line[i]
               /\ \A j \in DOMAIN text : p + j - 1 \in DOMAIN line /\ line[p + j - 1] = text[j]
    <3>1. blank \notin W
      BY <2>1
    <3> QED BY <3>1, Shift
  <2> QED BY Zenon, <2>1
<1>2. ASSUME Mentions(line, word) PROVE Mentions(text, word)
  <2>1. PICK i \in DOMAIN line : line[i] = word
    BY <1>2 DEF Mentions, Places
  <2>2. i - p + 1 \in DOMAIN text /\ text[i - p + 1] = word
    BY <1>1, <2>1
  <2> QED BY Zenon, <2>2 DEF Mentions, Places
<1>3. ASSUME Mentions(text, word) PROVE Mentions(line, word)
  <2>1. PICK j \in DOMAIN text : text[j] = word
    BY <1>3 DEF Mentions, Places
  <2>2. p + j - 1 \in DOMAIN line /\ line[p + j - 1] = word
    BY <1>1, <2>1
  <2> QED BY Zenon, <2>2 DEF Mentions, Places
<1> QED BY Zenon, <1>2, <1>3

(* A setting: its key is the only one, behind the blanks, and its value    *)
(* starts three places behind it.                                          *)
Assigned(line, text, p, n, key, K, blank, sign) ==
  /\ \A i \in DOMAIN line : line[i] \in K <=> i = p
  /\ line[p] = key
  /\ Min({i \in (p + 2)..Len(line) : line[i] \notin {blank, sign}} \cup {Len(line) + 1}) = p + n
  /\ SubSeq(line, p + n, Len(line)) = SubSeq(text, n + 1, Len(text))

LEMMA Setting ==
  ASSUME NEW line \in Seq(Word), NEW text, NEW p, NEW blank, Indented(line, text, p, blank),
         NEW K, NEW key \in K, NEW sign, blank \notin K, sign \notin K, sign # blank,
         NEW four \in Nat, four = 4, Len(text) >= four,
         text[1] = key, text[2] = blank, text[3] = sign, text[four] = blank,
         \A i \in (four + 1)..Len(text) : text[i] \notin K \cup {blank, sign}
  PROVE  Assigned(line, text, p, four, key, K, blank, sign)
<1>1. Len(line) \in Nat /\ p \in 1..Len(line) /\ DOMAIN line = 1..Len(line)
      /\ DOMAIN text = 1..Len(text) /\ Len(text) = Len(line) - p + 1 /\ p \in Nat
      /\ text \in Seq(Word)
  BY DEF Indented
<1>2. \A j \in 1..Len(text) : text[j] = line[p + j - 1]
  BY DEF Indented
<1>3. \A i \in DOMAIN line : line[i] \in K => i - p + 1 \in DOMAIN text /\ text[i - p + 1] = line[i]
  BY Shift
<1>4. line[p] = key
  <2>1. 1 \in 1..Len(text) /\ p + 1 - 1 = p
    BY <1>1
  <2> QED BY <1>2, <2>1
<1>5. ASSUME NEW i \in DOMAIN line, line[i] \in K PROVE i = p
  <2>1. i - p + 1 \in 1..Len(text) /\ text[i - p + 1] \in K
    BY <1>1, <1>3, <1>5
  <2>2. i - p + 1 \notin (four + 1)..Len(text) /\ i - p + 1 # 2 /\ i - p + 1 # 3 /\ i - p + 1 # four
    BY <2>1
  <2> QED BY <1>1, <2>1, <2>2, SMTT(40)
<1>6. \A i \in DOMAIN line : line[i] \in K <=> i = p
  BY <1>1, <1>4, <1>5
<1> DEFINE S == {i \in (p + 2)..Len(line) : line[i] \notin {blank, sign}}
<1> DEFINE T == S \cup {Len(line) + 1}
<1>7. Min(T) = p + four
  <2>1. p + four \in T
    <3>1. CASE p + four = Len(line) + 1
      BY <3>1
    <3>2. CASE p + four # Len(line) + 1
      <4>1. p + four \in (p + 2)..Len(line) /\ four + 1 \in (four + 1)..Len(text)
        BY <1>1, <3>2
      <4>2. text[four + 1] = line[p + four]
        <5>1. four + 1 \in 1..Len(text) /\ p + (four + 1) - 1 = p + four
          BY <4>1
        <5> QED BY <1>2, <5>1
      <4> QED BY <4>1, <4>2
    <3> QED BY <3>1, <3>2
  <2>2. \A y \in T : p + four <= y
    <3>1. line[p + 2] = sign /\ line[p + 3] = blank
      <4>1. 3 \in 1..Len(text) /\ four \in 1..Len(text) /\ p + 3 - 1 = p + 2 /\ p + four - 1 = p + 3
        BY <1>1
      <4> QED BY <1>2, <4>1
    <3>2. \A y \in S : y # p + 2 /\ y # p + 3
      BY <3>1
    <3> QED BY <3>2, <1>1
  <2>3. T \subseteq Nat /\ T # {}
    BY <1>1
  <2> HIDE DEF T
  <2>4. Min(T) \in T /\ Min(T) <= p + four /\ p + four <= Min(T)
    BY <2>1, <2>2, <2>3, MinIsLeast
  <2>5. Min(T) \in Nat /\ p + four \in Nat
    BY <2>3, <2>4, <1>1, <2>1
  <2> QED BY <2>4, <2>5
<1>8. SubSeq(line, p + four, Len(line)) = SubSeq(text, four + 1, Len(text))
  <2> DEFINE u == SubSeq(line, p + four, Len(line))
  <2> DEFINE v == SubSeq(text, four + 1, Len(text))
  <2>1. p + four \in Nat \ {0} /\ four + 1 \in Nat \ {0} /\ p + four <= Len(line) + 1 /\ Len(text) \in Nat
        /\ four + 1 <= Len(text) + 1
    BY <1>1
  <2>2. u \in Seq(Word) /\ Len(u) = Len(line) - (p + four) + 1
        /\ \A j \in 1..(Len(line) - (p + four) + 1) : u[j] = line[p + four + j - 1]
    BY <2>1, FromPlace
  <2>3. v \in Seq(Word) /\ Len(v) = Len(text) - (four + 1) + 1
        /\ \A j \in 1..(Len(text) - (four + 1) + 1) : v[j] = text[four + 1 + j - 1]
    BY <1>1, <2>1, FromPlace
  <2> HIDE DEF u, v
  <2>4. Len(u) = Len(v)
    BY <1>1, <2>2, <2>3
  <2>5. ASSUME NEW j \in 1..Len(u) PROVE u[j] = v[j]
    <3>1. four + 1 + j - 1 \in 1..Len(text) /\ p + (four + 1 + j - 1) - 1 = p + four + j - 1
      BY <1>1, <2>1, <2>2
    <3>2. text[four + 1 + j - 1] = line[p + four + j - 1]
      BY <1>2, <3>1
    <3> QED BY <2>2, <2>3, <2>4, <3>2
  <2> QED BY <2>2, <2>3, <2>4, <2>5, SeqEqual DEF u, v
<1> QED BY Zenon, <1>4, <1>6, <1>7, <1>8 DEF Assigned

(* The keys and the signs of a line are all different words.               *)
KeyNames == {"404_page", "Max_client_body_size", "Max_request", "Port",
             "client_header_buffer_size", "client_timeout_inactivity", "default_page",
             "redirection_page", "redirection_url", "request_timeout", "server_name"}

LEMMA KeysAre == Key \subseteq KeyNames
<1>1. DOMAIN func_ptr = 1..11 /\ \A i \in 1..11 : func_ptr[i] \in KeyNames
  BY DEF func_ptr, KeyNames
<1> QED BY <1>1 DEF Key

LEMMA KeysApart ==
  /\ " " \notin Key /\ "=" \notin Key /\ "{" \notin Key /\ "}" \notin Key
  /\ " " # "=" /\ " " # "{" /\ " " # "}" /\ "=" # "{" /\ "=" # "}" /\ "{" # "}"
  /\ "location" \notin {" ", "}"} /\ "allowed_methods" \notin {" ", "}"}
  /\ "location" # "allowed_methods"
<1>1. " " \notin KeyNames /\ "=" \notin KeyNames /\ "{" \notin KeyNames /\ "}" \notin KeyNames
  BY Zenon DEF KeyNames
<1>2. /\ " " # "=" /\ " " # "{" /\ " " # "}" /\ "=" # "{" /\ "=" # "}" /\ "{" # "}"
      /\ "location" \notin {" ", "}"} /\ "allowed_methods" \notin {" ", "}"}
      /\ "location" # "allowed_methods"
  BY Zenon
<1> QED BY Zenon, <1>1, <1>2, KeysAre

LEMMA StrippedIs ==
  ASSUME NEW line \in Seq(Word), Stripped(line) # <<>>
  PROVE  \E p : Indented(line, Stripped(line), p, " ")
BY Zenon, Strip DEF Stripped

LEMMA NothingMentioned == \A word : ~Mentions(<<>>, word)
BY DEF Mentions, Places

LEMMA OneMentioned ==
  ASSUME NEW word
  PROVE  Mentions(<<word>>, word) /\ find(<<word>>, word) = 1
<1>1. Places(<<word>>, {word}) = 1..1
  BY DEF Places
<1>2. 1 \in Nat /\ 1..1 \subseteq 1..1 /\ 1..1 # {}
  OBVIOUS
<1>3. Min(1..1) \in 1..1
  BY <1>2, First
<1> QED BY <1>1, <1>3 DEF Mentions, find

(* The four words a setting starts with.                                   *)
LEMMA FourWords ==
  ASSUME NEW text \in Seq(Word), Len(text) > 3, NEW four \in Nat, four = 4,
         NEW a, NEW b, NEW c, NEW d, SubSeq(text, 1, four) = <<a, b, c, d>>
  PROVE  text[1] = a /\ text[2] = b /\ text[3] = c /\ text[four] = d
<1> DEFINE u == SubSeq(text, 1, four)
<1>1. \A i \in 1..four : text[i] \in Word
  OBVIOUS
<1>2. \A j \in 1..four : u[j] = text[j]
  <2>1. \A j \in 1..(four - 1 + 1) : u[j] = text[1 + j - 1]
    BY <1>1, SubSeqProperties
  <2> HIDE DEF u
  <2> QED BY <2>1
<1>3. u[1] = a /\ u[2] = b /\ u[3] = c /\ u[4] = d
  <2>1. u = <<a, b, c, d>>
    OBVIOUS
  <2> HIDE DEF u
  <2> QED BY <2>1
<1> HIDE DEF u
<1> QED BY <1>2, <1>3

(* What LoadConfig makes of a setting.                                     *)
LEMMA SettingRead ==
  ASSUME NEW line \in Seq(Word), NEW key \in Key, Sets(Stripped(line), key)
  PROVE  /\ ~EndsServer(line) /\ line # <<>>
         /\ Named(func_ptr, line) # {} /\ FirstKey(func_ptr, line) = key
         /\ Stripped(line)[1] = key
         /\ substr(line, find(line, key) + 2) = SubSeq(Stripped(line), 5, Len(Stripped(line)))
<1> DEFINE text == Stripped(line)
<1>1. Len(text) > 3 /\ SubSeq(text, 1, 4) = <<key, " ", "=", " ">>
      /\ \A i \in 5..Len(text) : text[i] \notin Key \cup {" ", "=", "{", "}"}
  BY Zenon DEF Sets
<1> HIDE DEF text
<1>2. text # <<>>
  <2>1. CASE text = <<>>
    <3>1. Len(text) = 0
      BY <2>1
    <3>2. Len(text) > 3
      BY <1>1
    <3> QED BY <3>1, <3>2
  <2> QED BY Zenon, <2>1
<1>3. PICK p : Indented(line, text, p, " ")
  BY Zenon, <1>2, StrippedIs DEF text
<1>4. PICK four \in Nat : four = 4
  OBVIOUS
<1>5. PICK five \in Nat : five = four + 1
  BY <1>4
<1>6. text \in Seq(Word)
  BY Zenon, <1>3 DEF Indented
<1>7. five = 5
  BY <1>4, <1>5
<1>8. Len(text) > 3 /\ SubSeq(text, 1, four) = <<key, " ", "=", " ">>
      /\ \A i \in (four + 1)..Len(text) : text[i] \notin Key \cup {" ", "=", "{", "}"}
  BY Zenon, <1>1, <1>4, <1>5, <1>7
<1>9. Len(text) > 3 /\ Len(text) >= four
  <2>1. Len(text) > 3 /\ Len(text) \in Nat
    BY Zenon, <1>6, <1>8, LenProperties
  <2> HIDE <1>1, <1>8
  <2> QED BY <1>4, <2>1
<1>10. text[1] = key /\ text[2] = " " /\ text[3] = "=" /\ text[four] = " "
  <2>1. ASSUME NEW b, NEW c, SubSeq(text, 1, four) = <<key, b, c, b>>
        PROVE  text[1] = key /\ text[2] = b /\ text[3] = c /\ text[four] = b
    BY <1>4, <1>6, <1>9, <2>1, FourWords
  <2> QED BY Zenon, <1>8, <2>1
<1>11. \A i \in (four + 1)..Len(text) : text[i] \notin Key \cup {" ", "="}
  BY Zenon, <1>8
<1>12. /\ \A i \in DOMAIN line : line[i] \in Key <=> i = p
       /\ line[p] = key
       /\ Min({i \in (p + 2)..Len(line) : line[i] \notin {" ", "="}} \cup {Len(line) + 1}) = p + four
       /\ SubSeq(line, p + four, Len(line)) = SubSeq(text, four + 1, Len(text))
  <2>1. ASSUME NEW b, NEW c, b \notin Key, c \notin Key, c # b, Indented(line, text, p, b),
               text[1] = key, text[2] = b, text[3] = c, text[four] = b,
               \A i \in (four + 1)..Len(text) : text[i] \notin Key \cup {b, c}
        PROVE  Assigned(line, text, p, four, key, Key, b, c)
    BY <1>4, <1>9, <2>1, Setting
  <2> QED BY Zenon, <1>3, <1>10, <1>11, <2>1, KeysApart DEF Assigned
<1>13. p \in 1..Len(line) /\ Len(line) \in Nat /\ DOMAIN line = 1..Len(line)
  <2>1. p \in 1..Len(line)
    BY Zenon, <1>3 DEF Indented
  <2> QED BY <2>1
<1>14. \A word \in Key : Mentions(line, word) <=> word = key
  BY Zenon, <1>12, <1>13 DEF Mentions, Places
<1>15. Named(func_ptr, line) = {i \in DOMAIN func_ptr : func_ptr[i] = key}
  BY Zenon, <1>14 DEF Named, Key
<1>16. PICK k \in DOMAIN func_ptr : func_ptr[k] = key
  BY Zenon DEF Key
<1>17. DOMAIN func_ptr = 1..11
  BY DEF func_ptr
<1>18. /\ Named(func_ptr, line) # {}
       /\ Named(func_ptr, line) \subseteq 1..11
  BY Zenon, <1>15, <1>16, <1>17
<1>19. Min(Named(func_ptr, line)) \in Named(func_ptr, line)
  <2>1. 11 \in Nat
    OBVIOUS
  <2> QED BY <2>1, <1>18, First
<1>20. FirstKey(func_ptr, line) = key
  BY Zenon, <1>15, <1>19 DEF FirstKey
<1>21. find(line, key) = p
  <2>1. Places(line, {key}) = {p}
    BY Zenon, <1>12, <1>13 DEF Places
  <2>2. {p} \subseteq 1..Len(line) /\ {p} # {}
    BY <1>13
  <2>3. Min({p}) \in {p}
    BY <1>13, <2>2, First
  <2> QED BY Zenon, <2>1, <2>3 DEF find
<1>22. substr(line, p + 2) = SubSeq(text, five, Len(text))
  BY Zenon, <1>5, <1>12 DEF substr, Skip_white_spaces
<1>23. \A j \in DOMAIN text :
         j \in (four + 1)..Len(text) \/ j = 1 \/ j = 2 \/ j = 3 \/ j = four
  <2>1. DOMAIN text = 1..Len(text) /\ Len(text) \in Nat
    BY <1>6
  <2> QED BY <1>4, <2>1
<1>24. ~Mentions(line, "}")
  <2> SUFFICES ASSUME Mentions(line, "}") PROVE FALSE
    OBVIOUS
  <2>1. Mentions(text, "}")
    BY Zenon, <1>3, KeysApart, SameMentions
  <2>2. PICK j \in DOMAIN text : text[j] = "}"
    BY Zenon, <2>1 DEF Mentions, Places
  <2> QED BY Zenon, <1>8, <1>10, <1>23, <2>2, KeysApart
<1>25. line # <<>>
  BY <1>13
<1> QED BY Zenon, <1>7, <1>10, <1>18, <1>20, <1>21, <1>22, <1>24, <1>25 DEF EndsServer, text

(* What LoadConfig makes of the first line of a block in a block.          *)
LEMMA BlockRead ==
  ASSUME NEW line \in Seq(Word), NEW block \in {"location", "allowed_methods"},
         Opens(Stripped(line), block)
  PROVE  /\ ~EndsServer(line) /\ line # <<>> /\ Stripped(line)[1] = block
         /\ Named(func_ptr, line) = {} /\ Mentions(line, block)
         /\ block = "allowed_methods" => ~Mentions(line, "location")
<1> DEFINE text == Stripped(line)
<1>1. /\ text # <<>> /\ text[1] = block /\ Places(text, Key) = {}
      /\ block = "allowed_methods" => ~Mentions(text, "location")
  BY Zenon DEF Opens
<1> HIDE DEF text
<1>2. PICK p : Indented(line, text, p, " ")
  BY Zenon, <1>1, StrippedIs DEF text
<1>3. /\ p \in 1..Len(line) /\ \A i \in 1..(p - 1) : line[i] = " "
      /\ text \in Seq(Word) /\ \A j \in 1..Len(text) : text[j] = line[p + j - 1]
  BY Zenon, <1>2 DEF Indented
<1>4. DOMAIN line = 1..Len(line) /\ Len(line) \in Nat
  OBVIOUS
<1>5. 1 \in DOMAIN text /\ 1 \in 1..Len(text)
  <2>1. text \in Seq(Word) /\ text # <<>>
    BY Zenon, <1>1, <1>3
  <2> QED BY <2>1
<1>6. \A word : word # " " => (Mentions(line, word) <=> Mentions(text, word))
  BY Zenon, <1>2, SameMentions
<1>7. Mentions(line, block)
  <2>1. Mentions(text, block)
    BY Zenon, <1>1, <1>5 DEF Mentions, Places
  <2> QED BY Zenon, <1>6, <2>1, KeysApart
<1>8. \A key \in Key : ~Mentions(line, key)
  <2>1. \A key \in Key : ~Mentions(text, key)
    BY Zenon, <1>1 DEF Mentions, Places
  <2> QED BY Zenon, <1>6, <2>1, KeysApart
<1>9. Named(func_ptr, line) = {}
  BY Zenon, <1>8 DEF Named, Key
<1>10. line # <<>>
  BY Zenon, <1>7, NothingMentioned
<1>11. block = "allowed_methods" => ~Mentions(line, "location")
  BY Zenon, <1>1, <1>6, KeysApart
<1>12. (p = 1 \/ 1 \in 1..(p - 1)) /\ 1 + 1 - 1 = 1
  <2>1. p \in 1..Len(line)
    BY Zenon, <1>3
  <2> QED BY <1>4, <2>1
<1>13. ~EndsServer(line)
  <2> SUFFICES ASSUME Mentions(line, "}"), find(line, "}") = 1 PROVE FALSE
    BY Zenon DEF EndsServer
  <2>1. line[1] = "}"
    <3>1. ASSUME NEW word, Mentions(line, word), find(line, word) = 1 PROVE line[1] = word
      <4>1. /\ Places(line, {word}) \subseteq 1..Len(line) /\ Places(line, {word}) # {}
        BY <1>4, <3>1 DEF Mentions, Places
      <4>2. Min(Places(line, {word})) \in Places(line, {word})
        BY <1>4, <4>1, First
      <4> QED BY <3>1, <4>2 DEF find, Places
    <3> QED BY Zenon, <3>1
  <2>2. CASE p = 1
    <3>1. text[1] = line[1]
      BY Zenon, <1>3, <1>5, <1>12, <2>2
    <3> QED BY Zenon, <1>1, <2>1, <3>1, KeysApart
  <2>3. CASE 1 \in 1..(p - 1)
    BY Zenon, <1>3, <2>1, <2>3, KeysApart
  <2> QED BY Zenon, <1>12, <2>2, <2>3
<1> QED BY Zenon, <1>1, <1>7, <1>9, <1>10, <1>11, <1>13 DEF text

(* The loops of a location and of the methods see the same braces.         *)
LEMMA BraceRead ==
  ASSUME NEW line \in Seq(Word)
  PROVE  /\ Stripped(line) = <<"}">> => Closes(line)
         /\ Places(line, {"{", "}"}) = {} => ~Closes(line) /\ ~Mentions(line, "{")
<1>1. ASSUME Stripped(line) = <<"}">> PROVE Closes(line)
  <2>1. \A word : <<word>> # <<>>
    OBVIOUS
  <2>2. PICK p : Indented(line, Stripped(line), p, " ")
    BY Zenon, <1>1, <2>1, StrippedIs
  <2>3. Mentions(Stripped(line), "}")
    BY Zenon, <1>1, OneMentioned
  <2> QED BY Zenon, <2>2, <2>3, KeysApart, SameMentions DEF Closes
<1>2. ASSUME Places(line, {"{", "}"}) = {} PROVE ~Closes(line) /\ ~Mentions(line, "{")
  BY Zenon, <1>2 DEF Closes, Mentions, Places
<1> QED BY Zenon, <1>1, <1>2

-----------------------------------------------------------------------------
(* What makes AsWritten inductive: while the file is tidy, the loop that   *)
(* reads is the one of the block the braces say, and what was said of a    *)
(* server is what is known of it.                                          *)
SameSaid(s, d) ==
  /\ List(d) /\ Len(d) = Len(s)
  /\ \A i \in 1..Len(s) : /\ DOMAIN d[i] = {"data", "config", "methods", "reach", "locations"}
                          /\ d[i].data = s[i].data /\ d[i].methods = s[i].methods
ReadsBlock(lv, depth, block) ==
  \/ lv \in {"serving", "ended"}
  \/ lv = "outer" /\ depth = 0
  \/ lv = "server" /\ depth = 1
  \/ lv = "location" /\ depth = 2 /\ block = "location"
  \/ lv = "methods" /\ depth = 2 /\ block # "location"
AsSaid(lv, s, w) ==
  /\ DOMAIN w = {"tidy", "depth", "block", "said"}
  /\ ReadsBlock(lv, w.depth, w.block)
  /\ SameSaid(s, w.said)
WrittenOK == written.tidy /\ level # "failed" => AsSaid(level, servers, written)

LEMMA SameKept ==
  ASSUME NEW s, List(s), s # <<>>, NEW d, SameSaid(s, d), NEW e, NEW t, t = [s EXCEPT ![Len(s)] = e],
         e.data = s[Len(s)].data, e.methods = s[Len(s)].methods
  PROVE  SameSaid(t, d)
<1>1. /\ Len(t) = Len(s) /\ Len(s) \in Nat \ {0} /\ t[Len(s)] = e
      /\ \A i \in 1..Len(s) : i # Len(s) => t[i] = s[i]
  BY ExceptList
<1> QED BY <1>1 DEF SameSaid

LEMMA SameChanged ==
  ASSUME NEW s, List(s), s # <<>>, NEW d, SameSaid(s, d), NEW e, NEW f,
         DOMAIN f = {"data", "config", "methods", "reach", "locations"}, e.data = f.data, e.methods = f.methods
  PROVE  SameSaid([s EXCEPT ![Len(s)] = e], [d EXCEPT ![Len(d)] = f])
<1> DEFINE t == [s EXCEPT ![Len(s)] = e]
<1> DEFINE u == [d EXCEPT ![Len(d)] = f]
<1>1. List(d) /\ Len(d) = Len(s)
  BY DEF SameSaid
<1>2. /\ Len(t) = Len(s) /\ Len(s) \in Nat \ {0} /\ t[Len(s)] = e
      /\ \A i \in 1..Len(s) : i # Len(s) => t[i] = s[i]
  BY ExceptList
<1> HIDE DEF t
<1>3. d # <<>>
  BY <1>1, <1>2
<1>4. /\ List(u) /\ Len(u) = Len(d) /\ u[Len(d)] = f
      /\ \A i \in 1..Len(d) : i # Len(d) => u[i] = d[i]
  <2>1. List(d)
    BY <1>1
  <2> QED BY <1>3, <2>1, ExceptList
<1> HIDE DEF u
<1>5. SameSaid(t, u)
  BY <1>1, <1>2, <1>4 DEF SameSaid
<1> QED BY <1>5 DEF t, u

LEMMA SameAppended ==
  ASSUME NEW s, List(s), NEW d, SameSaid(s, d), NEW e,
         DOMAIN e = {"data", "config", "methods", "reach", "locations"}
  PROVE  SameSaid(Append(s, e), Append(d, e))
<1> DEFINE t == Append(s, e)
<1> DEFINE u == Append(d, e)
<1>1. List(d) /\ Len(d) = Len(s)
  BY DEF SameSaid
<1>2. /\ List(u) /\ Len(d) \in Nat /\ Len(u) = Len(d) + 1 /\ u[Len(d) + 1] = e
      /\ \A i \in 1..Len(d) : u[i] = d[i]
  BY <1>1, AppendList
<1>3. /\ Len(t) = Len(s) + 1 /\ t[Len(s) + 1] = e /\ \A i \in 1..Len(s) : t[i] = s[i]
  BY AppendList
<1> HIDE DEF t, u
<1>4. \A i \in 1..Len(t) : i = Len(s) + 1 \/ i \in 1..Len(s)
  BY <1>1, <1>2, <1>3
<1>5. SameSaid(t, u)
  BY <1>1, <1>2, <1>3, <1>4 DEF SameSaid
<1> QED BY <1>5 DEF t, u

(* The end of a block changes what is configured, not what was read.       *)
LEMMA SameStarted ==
  ASSUME NEW s, List(s), s # <<>>, ServerOK(s[Len(s)]), NEW d, SameSaid(s, d), NEW next,
         Start_server(s, next), level' # "failed"
  PROVE  SameSaid(servers', d) /\ level' = next
<1>0. PICK reach \in Reached :
        level' = next /\ servers' = [s EXCEPT ![Len(s)] = Begun(s[Len(s)], reach)]
  BY DEF Start_server, Throw, Begun
<1> DEFINE e == Begun(s[Len(s)], reach)
<1>1. level' = next /\ servers' = [s EXCEPT ![Len(s)] = e]
  BY <1>0
<1>2. e.data = s[Len(s)].data /\ e.methods = s[Len(s)].methods
  BY DEF Begun, fill_config_datas, ServerOK
<1> HIDE DEF e
<1>3. SameSaid(servers', d)
  BY <1>1, <1>2, SameKept
<1> QED BY <1>1, <1>3

LEMMA SameLocation ==
  ASSUME ConfigInv, level \in Reading, NEW d, SameSaid(servers, d)
  PROVE  SameSaid(EndLocation(servers), d)
<1> DEFINE sv == servers[Len(servers)]
<1> DEFINE e == [sv EXCEPT !.locations = insertLocationConfig(sv.locations, loc)]
<1>1. ServerOK(sv) /\ List(servers) /\ servers # <<>>
  BY LastOK
<1>2. EndLocation(servers) = [servers EXCEPT ![Len(servers)] = e]
  BY DEF EndLocation
<1>3. e.data = sv.data /\ e.methods = sv.methods
  BY <1>1 DEF ServerOK
<1> HIDE DEF e
<1> QED BY <1>1, <1>2, <1>3, SameKept

MethodsSaid(line) ==
  [written EXCEPT !.said[Len(written.said)].methods = @ \cup {line[i] : i \in Places(line, Methods)}]

(* What is recorded of a line while the file stays tidy.                   *)
LEMMA Recorded ==
  ASSUME NEW line, Record(line), written'.tidy
  PROVE  /\ written.tidy
         /\ \/ /\ written.depth = 0 /\ Places(line, {"{", "}"}) = {} /\ written' = written
            \/ /\ written.depth = 0 /\ line = <<"{">>
               /\ written' = [written EXCEPT !.depth = 1, !.said = Append(@, NewServer)]
            \/ written.depth = 1 /\ line = <<>> /\ written' = written
            \/ written.depth = 1 /\ line = <<"}">> /\ written' = [written EXCEPT !.depth = 0]
            \/ \E key \in Key :
                 /\ written.depth = 1 /\ Sets(Stripped(line), key)
                 /\ written' = [written EXCEPT !.said[Len(written.said)].data[Stripped(line)[1]] =
                                  Fill_data(Stripped(line)[1],
                                            SubSeq(Stripped(line), 5, Len(Stripped(line))))]
            \/ \E b \in {"location", "allowed_methods"} :
                 /\ written.depth = 1 /\ Opens(Stripped(line), b)
                 /\ written' = [written EXCEPT !.depth = 2, !.block = Stripped(line)[1]]
            \/ /\ written.depth \notin {0, 1} /\ Stripped(line) = <<"}">>
               /\ written' = [written EXCEPT !.depth = 1]
            \/ /\ written.depth \notin {0, 1} /\ Places(line, {"{", "}"}) = {}
               /\ written.block = "location" /\ written' = written
            \/ /\ written.depth \notin {0, 1} /\ Places(line, {"{", "}"}) = {}
               /\ written.block # "location"
               /\ written' = MethodsSaid(line)
<1>1. ~Untidy.tidy /\ 0 # 1
  BY DEF Untidy
<1>2. written.tidy
  BY Zenon DEF Record
<1>3. CASE written.depth = 0
  <2>1. written' = Outside(line)
    BY Zenon, <1>2, <1>3 DEF Record
  <2> QED BY Zenon, <1>1, <1>2, <1>3, <2>1 DEF Outside
<1>4. CASE written.depth = 1
  <2>1. written' = InServer(line, Stripped(line))
    BY Zenon, <1>1, <1>2, <1>4 DEF Record
  <2> QED BY Zenon, <1>1, <1>2, <1>4, <2>1 DEF InServer
<1>5. CASE written.depth # 0 /\ written.depth # 1
  <2>1. written' = InBlock(line, Stripped(line))
    BY Zenon, <1>2, <1>5 DEF Record
  <2> QED BY Zenon, <1>1, <1>2, <1>5, <2>1 DEF InBlock, MethodsSaid
<1> QED BY Zenon, <1>3, <1>4, <1>5

LEMMA OuterAsSaid ==
  ASSUME ConfigInv, AsSaid(level, servers, written), NEW line, ReadOuter(line),
         Record(line), written'.tidy, level' # "failed"
  PROVE  AsSaid(level', servers', written')
<1>1. level = "outer" /\ written.depth = 0 /\ SameSaid(servers, written.said) /\ List(servers)
      /\ DOMAIN written = {"tidy", "depth", "block", "said"}
  BY DEF ReadOuter, AsSaid, ReadsBlock, ConfigInv
<1>2. CASE Places(line, {"{", "}"}) = {} /\ written' = written
  <2>1. ~Mentions(line, "{")
    BY Zenon, <1>2 DEF Mentions, Places
  <2>2. UNCHANGED <<level, servers>>
    BY Zenon, <2>1 DEF ReadOuter, Skip
  <2> QED BY Zenon, <1>2, <2>2
<1>3. CASE line = <<"{">> /\ written' = [written EXCEPT !.depth = 1, !.said = Append(@, NewServer)]
  <2>1. Mentions(line, "{")
    BY Zenon, <1>3, OneMentioned
  <2>2. servers' = Append(servers, NewServer) /\ level' = "server"
    BY Zenon, <2>1 DEF ReadOuter, Throw
  <2>3. /\ DOMAIN written' = {"tidy", "depth", "block", "said"}
        /\ written'.depth = 1 /\ written'.said = Append(written.said, NewServer)
    BY <1>1, <1>3
  <2>4. DOMAIN NewServer = {"data", "config", "methods", "reach", "locations"}
    BY Zenon, NewServerOK DEF ServerOK
  <2>5. SameSaid(Append(servers, NewServer), Append(written.said, NewServer))
    BY <1>1, <2>4, SameAppended
  <2> QED BY Zenon, <2>2, <2>3, <2>5 DEF AsSaid, ReadsBlock
<1>4. 0 # 1
  OBVIOUS
<1> QED BY Zenon, <1>1, <1>2, <1>3, <1>4, Recorded

(* While a server's block is read: the line is nothing, its end, a setting *)
(* or the start of another block.                                          *)
LEMMA SettingAsSaid ==
  ASSUME ConfigInv, level = "server", SameSaid(servers, written.said),
         DOMAIN written = {"tidy", "depth", "block", "said"}, written.depth = 1,
         NEW key, NEW value, servers' = [servers EXCEPT ![Back].data[key] = value],
         written' = [written EXCEPT !.said[Len(written.said)].data[key] = value],
         UNCHANGED level
  PROVE  AsSaid(level', servers', written')
<1> DEFINE sv == servers[Len(servers)]
<1> DEFINE sd == written.said[Len(written.said)]
<1> DEFINE e == [sv EXCEPT !.data[key] = value]
<1> DEFINE f == [sd EXCEPT !.data[key] = value]
<1>1. level \in Reading /\ List(servers) /\ servers # <<>> /\ ServerOK(sv)
  BY LastOK DEF Reading
<1>2. /\ Len(written.said) = Len(servers) /\ Len(servers) \in 1..Len(servers)
  <2>1. PICK S : servers \in Seq(S)
    BY <1>1 DEF List
  <2> QED BY <1>1, <2>1 DEF SameSaid
<1>3. DOMAIN sd = {"data", "config", "methods", "reach", "locations"} /\ sd.data = sv.data /\ sd.methods = sv.methods
  BY <1>2 DEF SameSaid
<1>4. DOMAIN sv = {"data", "config", "methods", "reach", "locations"}
  BY <1>1 DEF ServerOK
<1>5. servers' = [servers EXCEPT ![Len(servers)] = e]
  BY DEF Back
<1>6. /\ DOMAIN written' = {"tidy", "depth", "block", "said"} /\ written'.depth = 1
      /\ written'.said = [written.said EXCEPT ![Len(written.said)] = f]
  OBVIOUS
<1> HIDE DEF sv, sd
<1>7. DOMAIN f = {"data", "config", "methods", "reach", "locations"} /\ e.data = f.data /\ e.methods = f.methods
  BY <1>3, <1>4
<1> HIDE DEF e, f
<1>8. SameSaid([servers EXCEPT ![Len(servers)] = e], [written.said EXCEPT ![Len(written.said)] = f])
  BY <1>1, <1>7, SameChanged
<1>9. SameSaid(servers', written'.said)
  BY Zenon, <1>5, <1>6, <1>8
<1> QED BY Zenon, <1>6, <1>9 DEF AsSaid, ReadsBlock

LEMMA ServerAsSaid ==
  ASSUME ConfigInv, AsSaid(level, servers, written), NEW line \in Lines,
         EndServer(line) \/ LoadConfig(line),
         Record(line), written'.tidy, level' # "failed"
  PROVE  AsSaid(level', servers', written')
<1>1. level = "server" /\ written.depth = 1 /\ SameSaid(servers, written.said)
      /\ DOMAIN written = {"tidy", "depth", "block", "said"}
  BY DEF EndServer, LoadConfig, AsSaid, ReadsBlock
<1>2. line \in Seq(Word)
  BY LineType
<1>3. /\ level \in Reading /\ List(servers) /\ servers # <<>>
      /\ ServerOK(servers[Len(servers)])
  BY <1>1, LastOK DEF Reading
<1>4. CASE line = <<>> /\ written' = written
  <2>1. \A word : ~Mentions(line, word)
    BY Zenon, <1>4, NothingMentioned
  <2>2. Named(func_ptr, line) = {}
    BY Zenon, <2>1 DEF Named
  <2>3. UNCHANGED <<level, servers>>
    BY Zenon, <1>4, <2>1, <2>2 DEF EndServer, EndsServer, LoadConfig, Skip
  <2> QED BY Zenon, <1>4, <2>3
<1>5. CASE line = <<"}">> /\ written' = [written EXCEPT !.depth = 0]
  <2>1. EndsServer(line)
    BY Zenon, <1>5, OneMentioned DEF EndsServer
  <2>2. Start_server(servers, "outer")
    BY Zenon, <2>1 DEF EndServer, LoadConfig
  <2>3. SameSaid(servers', written.said) /\ level' = "outer"
    BY Zenon, <1>1, <1>3, <2>2, SameStarted
  <2>4. /\ DOMAIN written' = {"tidy", "depth", "block", "said"}
        /\ written'.depth = 0 /\ written'.said = written.said
    BY <1>1, <1>5
  <2> QED BY Zenon, <2>3, <2>4 DEF AsSaid, ReadsBlock
<1>6. ASSUME NEW key \in Key, Sets(Stripped(line), key),
             written' = [written EXCEPT !.said[Len(written.said)].data[Stripped(line)[1]] =
                           Fill_data(Stripped(line)[1],
                                     SubSeq(Stripped(line), 5, Len(Stripped(line))))]
      PROVE  AsSaid(level', servers', written')
  <2>1. /\ ~EndsServer(line) /\ line # <<>>
        /\ Named(func_ptr, line) # {} /\ FirstKey(func_ptr, line) = key
        /\ Stripped(line)[1] = key
        /\ substr(line, find(line, key) + 2) = SubSeq(Stripped(line), 5, Len(Stripped(line)))
    BY Zenon, <1>2, <1>6, SettingRead
  <2> DEFINE value == Fill_data(key, substr(line, find(line, key) + 2))
  <2>2. servers' = [servers EXCEPT ![Back].data[key] = value] /\ UNCHANGED level
    BY Zenon, <2>1 DEF EndServer, LoadConfig, Throw
  <2>3. written' = [written EXCEPT !.said[Len(written.said)].data[key] = value]
    BY Zenon, <1>6, <2>1
  <2> HIDE DEF value
  <2> QED BY Zenon, <1>1, <2>2, <2>3, SettingAsSaid
<1>7. ASSUME NEW block \in {"location", "allowed_methods"}, Opens(Stripped(line), block),
             written' = [written EXCEPT !.depth = 2, !.block = Stripped(line)[1]]
      PROVE  AsSaid(level', servers', written')
  <2>1. /\ ~EndsServer(line) /\ line # <<>> /\ Stripped(line)[1] = block
        /\ Named(func_ptr, line) = {} /\ Mentions(line, block)
        /\ block = "allowed_methods" => ~Mentions(line, "location")
    BY Zenon, <1>2, <1>7, BlockRead
  <2>2. /\ UNCHANGED servers
        /\ level' = IF block = "location" THEN "location" ELSE "methods"
    <3>1. CASE block = "location"
      BY Zenon, <2>1, <3>1 DEF EndServer, LoadConfig, Throw
    <3>2. CASE block = "allowed_methods"
      BY Zenon, <2>1, <3>2, KeysApart DEF EndServer, LoadConfig, Throw
    <3> QED BY Zenon, <3>1, <3>2
  <2>3. /\ DOMAIN written' = {"tidy", "depth", "block", "said"}
        /\ written'.depth = 2 /\ written'.said = written.said /\ written'.block = Stripped(line)[1]
    BY <1>1, <1>7
  <2> QED BY Zenon, <1>1, <2>1, <2>2, <2>3 DEF AsSaid, ReadsBlock
<1>8. 0 # 1
  OBVIOUS
<1> QED BY Zenon, <1>1, <1>4, <1>5, <1>6, <1>7, <1>8, Recorded

LEMMA LocationAsSaid ==
  ASSUME ConfigInv, AsSaid(level, servers, written), NEW line \in Lines, Manage_Location(line),
         Record(line), written'.tidy, level' # "failed"
  PROVE  AsSaid(level', servers', written')
<1>1. level = "location" /\ written.depth = 2 /\ written.block = "location"
      /\ SameSaid(servers, written.said) /\ DOMAIN written = {"tidy", "depth", "block", "said"}
  BY DEF Manage_Location, AsSaid, ReadsBlock
<1>2. line \in Seq(Word) /\ level \in Reading
  BY <1>1, LineType DEF Reading
<1>3. CASE Stripped(line) = <<"}">> /\ written' = [written EXCEPT !.depth = 1]
  <2>1. Closes(line)
    BY Zenon, <1>2, <1>3, BraceRead
  <2>2. servers' = EndLocation(servers) /\ level' = "server"
    BY Zenon, <2>1 DEF Manage_Location
  <2>3. SameSaid(servers', written.said)
    BY Zenon, <1>1, <1>2, <2>2, SameLocation
  <2>4. /\ DOMAIN written' = {"tidy", "depth", "block", "said"}
        /\ written'.depth = 1 /\ written'.said = written.said
    BY <1>1, <1>3
  <2> QED BY Zenon, <2>2, <2>3, <2>4 DEF AsSaid, ReadsBlock
<1>4. CASE Places(line, {"{", "}"}) = {} /\ written' = written
  <2>1. ~Closes(line)
    BY Zenon, <1>2, <1>4, BraceRead
  <2>2. UNCHANGED <<level, servers>>
    BY Zenon, <2>1 DEF Manage_Location, Skip, Throw
  <2> QED BY Zenon, <1>4, <2>2
<1>5. 2 # 0 /\ 2 # 1
  OBVIOUS
<1> QED BY Zenon, <1>1, <1>3, <1>4, <1>5, Recorded

LEMMA MethodsAsSaid ==
  ASSUME ConfigInv, AsSaid(level, servers, written), NEW line \in Lines, Manage_Methods(line),
         Record(line), written'.tidy, level' # "failed"
  PROVE  AsSaid(level', servers', written')
<1>1. level = "methods" /\ written.depth = 2 /\ written.block # "location"
      /\ SameSaid(servers, written.said) /\ DOMAIN written = {"tidy", "depth", "block", "said"}
  BY DEF Manage_Methods, AsSaid, ReadsBlock
<1>2. line \in Seq(Word) /\ level \in Reading
  BY <1>1, LineType DEF Reading
<1>3. CASE Stripped(line) = <<"}">> /\ written' = [written EXCEPT !.depth = 1]
  <2>1. Closes(line)
    BY Zenon, <1>2, <1>3, BraceRead
  <2>2. UNCHANGED servers /\ level' = "server"
    BY Zenon, <2>1 DEF Manage_Methods
  <2>3. /\ DOMAIN written' = {"tidy", "depth", "block", "said"}
        /\ written'.depth = 1 /\ written'.said = written.said
    BY <1>1, <1>3
  <2> QED BY Zenon, <1>1, <2>2, <2>3 DEF AsSaid, ReadsBlock
<1>4. CASE /\ Places(line, {"{", "}"}) = {}
           /\ written' = MethodsSaid(line)
  <2> DEFINE more == {line[i] : i \in Places(line, Methods)}
  <2> DEFINE sv == servers[Len(servers)]
  <2> DEFINE sd == written.said[Len(written.said)]
  <2> DEFINE e == [sv EXCEPT !.methods = @ \cup more]
  <2> DEFINE f == [sd EXCEPT !.methods = @ \cup more]
  <2>1. ~Closes(line)
    BY Zenon, <1>2, <1>4, BraceRead
  <2>2. UNCHANGED level /\ servers' = [servers EXCEPT ![Len(servers)] = e]
    BY <2>1 DEF Manage_Methods, Back
  <2>3. /\ List(servers) /\ servers # <<>> /\ ServerOK(sv)
    BY <1>2, LastOK
  <2>4. /\ Len(written.said) = Len(servers) /\ Len(servers) \in 1..Len(servers)
    <3>1. PICK S : servers \in Seq(S)
      BY <2>3 DEF List
    <3> QED BY <1>1, <2>3, <3>1 DEF SameSaid
  <2>5. DOMAIN sd = {"data", "config", "methods", "reach", "locations"} /\ sd.data = sv.data /\ sd.methods = sv.methods
    BY <1>1, <2>4 DEF SameSaid
  <2>6. DOMAIN sv = {"data", "config", "methods", "reach", "locations"}
    BY <2>3 DEF ServerOK
  <2> HIDE DEF more
  <2>7. /\ DOMAIN written' = {"tidy", "depth", "block", "said"}
        /\ written'.depth = written.depth /\ written'.block = written.block
        /\ written'.said = [written.said EXCEPT ![Len(written.said)] = f]
    <3>1. written' = [written EXCEPT !.said[Len(written.said)].methods = @ \cup more]
      BY Zenon, <1>4 DEF more, MethodsSaid
    <3> QED BY <1>1, <3>1
  <2> HIDE DEF sv, sd
  <2>8. DOMAIN f = {"data", "config", "methods", "reach", "locations"} /\ e.data = f.data /\ e.methods = f.methods
    BY <2>5, <2>6
  <2> HIDE DEF e, f
  <2>9. SameSaid([servers EXCEPT ![Len(servers)] = e], [written.said EXCEPT ![Len(written.said)] = f])
    BY <1>1, <2>3, <2>8, SameChanged
  <2>10. SameSaid(servers', written'.said)
    BY Zenon, <2>2, <2>7, <2>9
  <2>11. ReadsBlock(level', written'.depth, written'.block)
    BY Zenon, <2>2, <2>7 DEF AsSaid
  <2> QED BY Zenon, <2>7, <2>10, <2>11 DEF AsSaid
<1>5. 2 # 0 /\ 2 # 1
  OBVIOUS
<1>6. \/ Stripped(line) = <<"}">> /\ written' = [written EXCEPT !.depth = 1]
      \/ /\ Places(line, {"{", "}"}) = {}
         /\ written' = MethodsSaid(line)
  BY Zenon, <1>1, <1>5, Recorded
<1> QED BY Zenon, <1>3, <1>4, <1>6

LEMMA EndAsSaid ==
  ASSUME ConfigInv, AsSaid(level, servers, written), EndOfFile, UNCHANGED written, level' # "failed"
  PROVE  AsSaid(level', servers', written')
<1>1. DOMAIN written = {"tidy", "depth", "block", "said"} /\ SameSaid(servers, written.said)
  BY DEF AsSaid
<1>2. CASE level = "outer" /\ level' = Respond /\ UNCHANGED servers
  BY Zenon, <1>1, <1>2 DEF AsSaid, ReadsBlock, Respond
<1>3. CASE level \in {"server", "methods"} /\ Start_server(servers, Respond)
  <2>1. List(servers) /\ servers # <<>> /\ ServerOK(servers[Len(servers)])
    BY <1>3, LastOK DEF Reading
  <2>2. SameSaid(servers', written.said) /\ level' = Respond
    BY Zenon, <1>1, <1>3, <2>1, SameStarted
  <2> QED BY Zenon, <1>1, <2>2 DEF AsSaid, ReadsBlock, Respond
<1>4. CASE level = "location" /\ Start_server(EndLocation(servers), Respond)
  <2>1. level \in Reading
    BY <1>4 DEF Reading
  <2> DEFINE s == EndLocation(servers)
  <2>2. PICK e : ServerOK(e) /\ s = [servers EXCEPT ![Len(servers)] = e]
    BY <2>1, EndLocationOK
  <2>3. List(servers) /\ servers # <<>>
    BY <2>1, LastOK
  <2> HIDE DEF s
  <2>4. List(s) /\ s # <<>> /\ Len(s) = Len(servers) /\ s[Len(servers)] = e
    BY <2>2, <2>3, ExceptList
  <2>5. ServerOK(s[Len(s)])
    BY Zenon, <2>2, <2>4
  <2>6. SameSaid(s, written.said)
    BY Zenon, <1>1, <2>1, SameLocation DEF s
  <2>7. Start_server(s, Respond)
    BY Zenon, <1>4 DEF s
  <2>8. SameSaid(servers', written.said) /\ level' = Respond
    BY Zenon, <2>4, <2>5, <2>6, <2>7, SameStarted
  <2> QED BY Zenon, <1>1, <2>8 DEF AsSaid, ReadsBlock, Respond
<1> QED BY Zenon, <1>2, <1>3, <1>4 DEF EndOfFile

(* For any lines: a file that is tidy to a reader who counts braces is     *)
(* taken as it is written, each server with the settings and the methods   *)
(* of its own block (parse_config.cpp 78-101, Server_functions.cpp 150-    *)
(* 193).                                                                   *)
THEOREM TakenAsWritten == WrittenSpec => []AsWritten
<1>1. WrittenSpec => Spec
  <2>1. WrittenInit => Init
    BY DEF WrittenInit
  <2>2. [WrittenNext]_<<vars, written>> => [Next]_vars
    BY Zenon DEF WrittenNext, Next
  <2> QED BY <2>1, <2>2, PTL DEF WrittenSpec, Spec
<1>2. WrittenInit => WrittenOK
  <2> SUFFICES ASSUME WrittenInit PROVE AsSaid("outer", servers, written)
    BY DEF WrittenInit, Init, WrittenOK
  <2>1. servers = <<>> /\ written = [tidy |-> TRUE, depth |-> 0, block |-> "", said |-> <<>>]
    BY DEF WrittenInit, Init
  <2>2. SameSaid(<<>>, <<>>)
    BY DEF SameSaid, List
  <2>3. DOMAIN written = {"tidy", "depth", "block", "said"} /\ written.depth = 0 /\ written.said = <<>>
    BY <2>1
  <2> QED BY Zenon, <2>1, <2>2, <2>3 DEF AsSaid, ReadsBlock
<1>3. ConfigInv /\ WrittenOK /\ [WrittenNext]_<<vars, written>> => WrittenOK'
  <2> SUFFICES ASSUME ConfigInv, WrittenOK, [WrittenNext]_<<vars, written>>,
                      written'.tidy, level' # "failed"
               PROVE  AsSaid(level', servers', written')
    BY DEF WrittenOK
  <2>1. CASE UNCHANGED <<vars, written>>
    <3>1. written.tidy /\ level # "failed" /\ UNCHANGED <<level, servers, written>>
      BY Zenon, <2>1 DEF vars
    <3> QED BY Zenon, <3>1 DEF WrittenOK
  <2>2. CASE EndOfFile /\ UNCHANGED written
    <3>1. written.tidy /\ level # "failed"
      BY Zenon, <2>2 DEF EndOfFile
    <3> QED BY Zenon, <2>2, <3>1, EndAsSaid DEF WrittenOK
  <2>3. ASSUME NEW line \in Lines, Read(line), Record(line)
        PROVE  AsSaid(level', servers', written')
    <3>1. written.tidy /\ level # "failed"
      <4>1. written.tidy
        BY Zenon, <2>3, Recorded
      <4>2. level # "failed"
        BY Zenon, <2>3 DEF Read, ReadOuter, EndServer, LoadConfig, Manage_Location, Manage_Methods
      <4> QED BY <4>1, <4>2
    <3>2. AsSaid(level, servers, written)
      BY Zenon, <3>1 DEF WrittenOK
    <3>3. CASE ReadOuter(line)
      BY Zenon, <2>3, <3>2, <3>3, OuterAsSaid
    <3>4. CASE EndServer(line) \/ LoadConfig(line)
      BY Zenon, <2>3, <3>2, <3>4, ServerAsSaid
    <3>5. CASE Manage_Location(line)
      BY Zenon, <2>3, <3>2, <3>5, LocationAsSaid
    <3>6. CASE Manage_Methods(line)
      BY Zenon, <2>3, <3>2, <3>6, MethodsAsSaid
    <3> QED BY Zenon, <2>3, <3>3, <3>4, <3>5, <3>6 DEF Read
  <2> QED BY Zenon, <2>1, <2>2, <2>3 DEF WrittenNext
<1>4. ConfigInv /\ WrittenOK => AsWritten
  <2> SUFFICES ASSUME ConfigInv, written.tidy, level # "failed", AsSaid(level, servers, written)
               PROVE  AsWritten
    BY Zenon DEF WrittenOK, AsWritten
  <2>1. SameSaid(servers, written.said) /\ List(servers) /\ List(written.said)
    BY DEF AsSaid, SameSaid, ConfigInv
  <2>2. PICK S : servers \in Seq(S)
    BY <2>1 DEF List
  <2>3. PICK T : written.said \in Seq(T)
    BY <2>1 DEF List
  <2>4. DOMAIN servers = DOMAIN written.said /\ DOMAIN servers = 1..Len(servers)
    BY <2>1, <2>2, <2>3 DEF SameSaid
  <2>5. /\ (level = "outer") <=> (written.depth = 0 /\ level \notin {"serving", "ended"})
        /\ level = "server" => written.depth = 1
        /\ level \in {"location", "methods"} => written.depth = 2
    BY DEF AsSaid, ReadsBlock
  <2> QED BY Zenon, <2>1, <2>4, <2>5 DEF AsWritten, SameSaid
<1> QED BY <1>1, <1>2, <1>3, <1>4, ConfigInvariance, PTL DEF WrittenSpec

-----------------------------------------------------------------------------
(* Types: what is read of a line has the type of its key.                  *)

LEMMA KeysIn ==
  /\ Key = KeyNames /\ Key \subseteq Word /\ "www" \in Word /\ "/" \in Word
  /\ Text \subseteq Key /\ Size \subseteq Key /\ Filled \subseteq Key
  /\ \A key \in Size : key \notin Text
<1>1. DOMAIN func_ptr = 1..11 /\ \A i \in 1..11 : func_ptr[i] \in KeyNames
  BY DEF func_ptr, KeyNames
<1>2. \A key \in KeyNames : \E i \in 1..11 : func_ptr[i] = key
  BY DEF func_ptr, KeyNames
<1>3. Key = KeyNames
  BY <1>1, <1>2 DEF Key
<1>4. Text \subseteq Key /\ Size \subseteq Key /\ Filled \subseteq Key /\ \A key \in Size : key \notin Text
  BY Zenon, <1>3 DEF KeyNames, Text, Size, Filled
<1>5. Key \subseteq Word /\ "www" \in Word /\ "/" \in Word
  BY Zenon DEF Word, Sign
<1> QED BY Zenon, <1>3, <1>4, <1>5

LEMMA AtoiType == \A text : atoi(text) \in Int
BY ConfigAssumption DEF atoi

LEMMA FillType ==
  ASSUME NEW key \in Key, NEW text \in Seq(Word)
  PROVE  Fill_data(key, text) \in Value(key)
<1>1. CASE key \in Text
  <2>1. Fill_data(key, text) = text
    BY Zenon, <1>1, KeysIn DEF Fill_data
  <2> QED BY Zenon, <1>1, <2>1 DEF Value
<1>2. CASE key \in Size
  <2>1. Fill_data(key, text) = atoi(text) % SIZES
    BY Zenon, <1>2, KeysIn DEF Fill_data
  <2>2. \A a \in Int : a % SIZES \in 0..(SIZES - 1)
    BY ConfigAssumption
  <2>3. Fill_data(key, text) \in 0..(SIZES - 1)
    BY Zenon, <2>1, <2>2, AtoiType
  <2> QED BY Zenon, <1>2, <2>3, KeysIn DEF Value
<1>3. CASE key \notin Text /\ key \notin Size
  <2>1. Fill_data(key, text) = atoi(text)
    BY Zenon, <1>3 DEF Fill_data
  <2> QED BY Zenon, <1>3, <2>1, AtoiType DEF Value
<1> QED BY Zenon, <1>1, <1>2, <1>3

LEMMA NewLocationType == NewLocation \in Location
<1>1. <<"/">> \in Seq(Word) /\ <<"www", "/">> \in Seq(Word) /\ <<>> \in Seq(Word)
  <2>1. \A v, w \in Word : <<v>> \in Seq(Word) /\ <<w, v>> \in Seq(Word) /\ <<>> \in Seq(Word)
    OBVIOUS
  <2> QED BY Zenon, <2>1, KeysIn
<1> QED BY Zenon, <1>1 DEF NewLocation, Location

Preset(key) ==
  CASE key = "Port" -> 8080
    [] key = "Max_client_body_size" -> 10
    [] key = "client_header_buffer_size" -> 500
    [] key = "Max_request" -> 5
    [] key = "request_timeout" -> 10
    [] key = "client_timeout_inactivity" -> Indeterminate
    [] key = "server_name" -> <<>>
    [] OTHER -> <<"www", "/", key>>

LEMMA NewServerType == Typed(NewServer)
<1>1. /\ DOMAIN NewServer = {"data", "config", "methods", "reach", "locations"}
      /\ NewServer.methods = {} /\ NewServer.reach = "unbound"
      /\ NewServer.locations = [path \in {<<"/">>} |-> NewLocation]
      /\ NewServer.config = [key \in Filled |-> Indeterminate]
  <2>1. DOMAIN NewServer = {"data", "config", "methods", "reach", "locations"}
    BY Zenon DEF NewServer
  <2>2. NewServer.methods = {} /\ NewServer.reach = "unbound"
    BY SMTT(30) DEF NewServer
  <2>3. NewServer.locations = [path \in {<<"/">>} |-> NewLocation]
    BY Zenon DEF NewServer
  <2>4. NewServer.config = [key \in Filled |-> Indeterminate]
    BY SMTT(30) DEF NewServer
  <2> QED BY Zenon, <2>1, <2>2, <2>3, <2>4
<1>2. DOMAIN NewServer.data = Key /\ \A key \in Key : NewServer.data[key] = Preset(key)
  BY SMTT(30) DEF NewServer, Preset
<1>3. /\ 8080 \in Int /\ 5 \in Int /\ 10 \in Int
      /\ 10 \in 0..(SIZES - 1) /\ 500 \in 0..(SIZES - 1)
  BY ConfigAssumption
<1>4. <<>> \in Seq(Word) /\ \A key \in Key : <<"www", "/", key>> \in Seq(Word)
  <2>1. \A u, v, w \in Word : <<u, v, w>> \in Seq(Word) /\ <<>> \in Seq(Word)
    OBVIOUS
  <2> QED BY Zenon, <2>1, KeysIn
<1>5. ASSUME NEW key \in Key PROVE Preset(key) \in Value(key)
  <2> DEFINE d == Preset(key)
  <2>1. CASE key = "Port"
    <3>1. d = 8080
      BY <2>1 DEF Preset
    <3>2. key \notin Text /\ key \notin Size
      BY Zenon, <2>1 DEF Text, Size
    <3> QED BY <1>3, <3>1, <3>2 DEF Value
  <2>2. CASE key = "Max_client_body_size"
    <3>1. d = 10
      BY <2>2 DEF Preset
    <3>2. key \notin Text /\ key \in Size
      BY Zenon, <2>2 DEF Text, Size
    <3> QED BY <1>3, <3>1, <3>2 DEF Value
  <2>3. CASE key = "client_header_buffer_size"
    <3>1. d = 500
      BY <2>3 DEF Preset
    <3>2. key \notin Text /\ key \in Size
      BY Zenon, <2>3 DEF Text, Size
    <3> QED BY <1>3, <3>1, <3>2 DEF Value
  <2>4. CASE key = "Max_request"
    <3>1. d = 5
      BY <2>4 DEF Preset
    <3>2. key \notin Text /\ key \notin Size
      BY Zenon, <2>4 DEF Text, Size
    <3> QED BY <1>3, <3>1, <3>2 DEF Value
  <2>5. CASE key = "request_timeout"
    <3>1. d = 10
      BY <2>5 DEF Preset
    <3>2. key \notin Text /\ key \notin Size
      BY Zenon, <2>5 DEF Text, Size
    <3> QED BY <1>3, <3>1, <3>2 DEF Value
  <2>6. CASE key = "client_timeout_inactivity"
    <3>1. d = Indeterminate
      BY <2>6 DEF Preset
    <3>2. key \notin Text /\ key \notin Size
      BY Zenon, <2>6 DEF Text, Size
    <3> QED BY <3>1, <3>2 DEF Value
  <2>7. CASE key = "server_name"
    <3>1. d = <<>>
      BY <2>7 DEF Preset
    <3>2. key \in Text
      BY Zenon, <2>7 DEF Text
    <3> QED BY <1>4, <3>1, <3>2 DEF Value
  <2>8. CASE key \in {"404_page", "default_page", "redirection_page", "redirection_url"}
    <3>1. /\ key # "Port" /\ key # "Max_client_body_size" /\ key # "client_header_buffer_size"
          /\ key # "Max_request" /\ key # "request_timeout" /\ key # "client_timeout_inactivity"
          /\ key # "server_name" /\ key \in Text
      BY Zenon, <2>8 DEF Text
    <3>2. d = <<"www", "/", key>>
      BY <3>1 DEF Preset
    <3> QED BY Zenon, <1>4, <3>1, <3>2 DEF Value
  <2> QED BY Zenon, <2>1, <2>2, <2>3, <2>4, <2>5, <2>6, <2>7, <2>8, KeysIn DEF KeyNames
<1>6. \A key \in Filled : NewServer.config[key] \in Value(key) \cup {Indeterminate}
  BY Zenon, <1>1
<1>7. \A path \in DOMAIN NewServer.locations : NewServer.locations[path] \in Location
  BY Zenon, <1>1, NewLocationType
<1>8. NewServer.methods \subseteq Methods /\ NewServer.reach \in Reach
  BY Zenon, <1>1 DEF Reach
<1> QED BY Zenon, <1>1, <1>2, <1>5, <1>6, <1>7, <1>8 DEF Typed

LEMMA FirstMentioned ==
  ASSUME NEW names, NEW n \in Nat, DOMAIN names = 1..n, NEW line, Named(names, line) # {}
  PROVE  /\ Mentions(line, FirstKey(names, line))
         /\ \E i \in DOMAIN names : FirstKey(names, line) = names[i]
<1>1. Named(names, line) \subseteq 1..n
  BY DEF Named
<1>2. Min(Named(names, line)) \in Named(names, line)
  BY <1>1, First
<1> QED BY Zenon, <1>2 DEF FirstKey, Named

LEMMA DirectiveType ==
  ASSUME NEW lc \in Location, NEW line \in Seq(Word), NEW directive, Mentions(line, directive),
         directive \in {"cgi_enabled", "cgi_folder", "cgi_allowed_ext", "auto_index",
                        "upload_enabled", "upload_folder"}
  PROVE  SetDirective(lc, directive, line) \in Location
<1> DEFINE value == substr(line, ValueAt(directive, line))
<1> DEFINE isTrue == value # <<>> /\ value[1] = "true"
<1> DEFINE new == SetDirective(lc, directive, line)
<1>1. find(line, directive) + 1 \in Nat \ {0} /\ find(line, directive) + 2 \in Nat \ {0}
  <2>1. find(line, directive) \in 1..Len(line) /\ Len(line) \in Nat
    BY FindType
  <2> QED BY <2>1
<1>2. ValueAt(directive, line) \in Nat \ {0}
  BY Zenon, <1>1 DEF ValueAt
<1>3. value \in Seq(Word)
  BY <1>2, SubstrType
<1>4. isTrue \in BOOLEAN /\ \A b \in BOOLEAN : b \in BOOLEAN \cup {Indeterminate}
  OBVIOUS
<1> HIDE DEF value, isTrue
<1>5. CASE directive = "cgi_enabled"
  <2>1. new = [lc EXCEPT !.cgiEnabled = isTrue]
    BY Zenon, <1>5 DEF SetDirective, isTrue, value
  <2> QED BY Zenon, <1>4, <2>1 DEF Location
<1>6. CASE directive = "cgi_folder"
  <2> DEFINE v == IF value[Len(value)] = "/" THEN value ELSE Append(value, "/")
  <2>1. new = [lc EXCEPT !.root = v]
    BY Zenon, <1>6 DEF SetDirective, value
  <2>2. v \in Seq(Word)
    BY Zenon, <1>3, SlashIsWord, AppendProperties
  <2> HIDE DEF v
  <2> QED BY Zenon, <2>1, <2>2 DEF Location
<1>7. CASE directive = "cgi_allowed_ext"
  <2> DEFINE v == {line[i] : i \in {j \in Places(line, {".py", ".rb"}) : Mentions(SubSeq(line, 1, j), "=")}}
  <2>1. new = [lc EXCEPT !.cgi = lc.cgi \cup v]
    BY Zenon, <1>7 DEF SetDirective
  <2>2. v \subseteq {".py", ".rb"}
    BY Zenon DEF Places
  <2> HIDE DEF v
  <2>3. lc.cgi \cup v \in SUBSET {".py", ".rb"}
    BY Zenon, <2>2 DEF Location
  <2> QED BY Zenon, <2>1, <2>3 DEF Location
<1>8. CASE directive = "auto_index"
  <2>1. new = [lc EXCEPT !.autoIndex = isTrue]
    BY Zenon, <1>8 DEF SetDirective, isTrue, value
  <2> QED BY Zenon, <1>4, <2>1 DEF Location
<1>9. CASE directive = "upload_enabled"
  <2>1. new = [lc EXCEPT !.uploadEnabled = isTrue]
    BY Zenon, <1>9 DEF SetDirective, isTrue, value
  <2> QED BY Zenon, <1>4, <2>1 DEF Location
<1>10. CASE directive = "upload_folder"
  <2>1. new = [lc EXCEPT !.uploadEnabled = TRUE, !.uploadPath = value]
    BY Zenon, <1>10 DEF SetDirective, setUploadPath, value
  <2> QED BY Zenon, <1>3, <1>4, <2>1 DEF Location
<1> QED BY Zenon, <1>5, <1>6, <1>7, <1>8, <1>9, <1>10

(* What makes TypeOK inductive beside ConfigInv.                           *)
AllTyped(s) == Len(s) <= MAX_SERVERS /\ \A i \in 1..Len(s) : Typed(s[i])
TypeInv ==
  /\ level \in {"outer", "server", "location", "methods", "serving", "ended", "failed"}
  /\ loc \in Location /\ epoll \in BOOLEAN /\ left \in 0..MAX_LINES
  /\ AllTyped(servers)

LEMMA BackTyped ==
  ASSUME NEW s, List(s), s # <<>>, AllTyped(s), NEW e, Typed(s[Len(s)]) => Typed(e)
  PROVE  AllTyped([s EXCEPT ![Len(s)] = e])
<1> DEFINE t == [s EXCEPT ![Len(s)] = e]
<1>1. /\ Len(t) = Len(s) /\ Len(s) \in Nat \ {0} /\ t[Len(s)] = e
      /\ \A i \in 1..Len(s) : i # Len(s) => t[i] = s[i]
  BY ExceptList
<1> HIDE DEF t
<1>2. Typed(e)
  BY <1>1 DEF AllTyped
<1>3. AllTyped(t)
  BY <1>1, <1>2 DEF AllTyped
<1> QED BY <1>3 DEF t

LEMMA BegunTyped ==
  ASSUME NEW sv, Typed(sv), NEW reach \in Reached
  PROVE  Typed(Begun(sv, reach))
<1> DEFINE e == Begun(sv, reach)
<1>1. DOMAIN sv = {"data", "config", "methods", "reach", "locations"}
  BY DEF Typed
<1>2. /\ DOMAIN e = DOMAIN sv /\ e.data = sv.data /\ e.methods = sv.methods
      /\ e.reach = reach
      /\ e.locations = sv.locations /\ \A key \in Filled : e.config[key] = sv.data[key]
  BY <1>1 DEF Begun, fill_config_datas
<1>5. reach \in Reach
  BY DEF Reached, Reach
<1> HIDE DEF e
<1>3. \A key \in Filled : e.config[key] \in Value(key) \cup {Indeterminate}
  BY Zenon, <1>2, KeysIn DEF Typed
<1>4. Typed(e)
  BY Zenon, <1>2, <1>3, <1>5 DEF Typed
<1> QED BY <1>4 DEF e

LEMMA InsertTyped ==
  ASSUME NEW sv, Typed(sv), NEW lc \in Location, NEW e,
         e = [sv EXCEPT !.locations = insertLocationConfig(sv.locations, lc)]
  PROVE  Typed(e)
<1>1. DOMAIN sv = {"data", "config", "methods", "reach", "locations"}
  BY DEF Typed
<1>2. /\ DOMAIN e = DOMAIN sv /\ e.data = sv.data /\ e.methods = sv.methods /\ e.config = sv.config
      /\ e.reach = sv.reach
      /\ e.locations = insertLocationConfig(sv.locations, lc)
  BY <1>1
<1>3. \A path \in DOMAIN e.locations : e.locations[path] \in Location
  BY Zenon, <1>2 DEF insertLocationConfig, Typed
<1> QED BY Zenon, <1>2, <1>3 DEF Typed

LEMMA DataTyped ==
  ASSUME NEW sv, Typed(sv), NEW key \in Key, NEW value \in Value(key), NEW e,
         e = [sv EXCEPT !.data[key] = value]
  PROVE  Typed(e)
<1>1. DOMAIN sv = {"data", "config", "methods", "reach", "locations"} /\ DOMAIN sv.data = Key
  BY DEF Typed
<1>2. /\ DOMAIN e = DOMAIN sv /\ e.methods = sv.methods /\ e.config = sv.config /\ e.reach = sv.reach
      /\ e.locations = sv.locations /\ e.data = [sv.data EXCEPT ![key] = value]
  BY <1>1
<1>3. DOMAIN e.data = Key /\ \A k \in Key : e.data[k] = IF k = key THEN value ELSE sv.data[k]
  BY <1>1, <1>2
<1>4. \A k \in Key : e.data[k] \in Value(k)
  BY Zenon, <1>3 DEF Typed
<1> QED BY Zenon, <1>2, <1>3, <1>4 DEF Typed

LEMMA StartTyped ==
  ASSUME NEW s, List(s), s # <<>>, AllTyped(s), NEW next, Start_server(s, next),
         AllTyped(servers), loc \in Location
  PROVE  AllTyped(servers') /\ loc' \in Location /\ level' \in {next, "failed"}
<1>1. CASE Throw
  BY Zenon, <1>1 DEF Throw
<1>2. ASSUME NEW reach \in Reached, servers' = [s EXCEPT ![Len(s)] = Begun(s[Len(s)], reach)],
             level' = next, UNCHANGED loc
      PROVE  AllTyped(servers') /\ loc' \in Location /\ level' \in {next, "failed"}
  <2>1. AllTyped([s EXCEPT ![Len(s)] = Begun(s[Len(s)], reach)])
    BY BegunTyped, BackTyped
  <2> QED BY Zenon, <1>2, <2>1
<1>3. Throw \/ \E reach \in Reached : /\ servers' = [s EXCEPT ![Len(s)] = Begun(s[Len(s)], reach)]
                                     /\ level' = next /\ UNCHANGED loc
  BY DEF Start_server, Begun
<1> QED BY Zenon, <1>1, <1>2, <1>3

LEMMA EndLocationTyped ==
  ASSUME ConfigInv, TypeInv, level \in Reading
  PROVE  /\ List(EndLocation(servers)) /\ EndLocation(servers) # <<>>
         /\ AllTyped(EndLocation(servers))
<1> DEFINE sv == servers[Len(servers)]
<1> DEFINE e == [sv EXCEPT !.locations = insertLocationConfig(sv.locations, loc)]
<1>1. List(servers) /\ servers # <<>> /\ AllTyped(servers) /\ loc \in Location
  BY LastOK DEF TypeInv
<1>2. EndLocation(servers) = [servers EXCEPT ![Len(servers)] = e]
  BY DEF EndLocation
<1>3. Typed(sv) => Typed(e)
  BY <1>1, InsertTyped
<1> HIDE DEF e, sv
<1>4. AllTyped([servers EXCEPT ![Len(servers)] = e])
  BY <1>1, <1>3, BackTyped DEF sv
<1>5. List([servers EXCEPT ![Len(servers)] = e]) /\ [servers EXCEPT ![Len(servers)] = e] # <<>>
  BY <1>1, ExceptList
<1> QED BY Zenon, <1>2, <1>4, <1>5

LEMMA OuterTyped ==
  ASSUME ConfigInv, TypeInv, NEW line, ReadOuter(line)
  PROVE  AllTyped(servers') /\ loc' \in Location /\ level' \in {"outer", "server", "failed"}
<1>1. AllTyped(servers) /\ loc \in Location /\ List(servers) /\ level = "outer"
  BY DEF TypeInv, ConfigInv, ReadOuter
<1>2. CASE Skip \/ Throw
  BY Zenon, <1>1, <1>2 DEF Skip, Throw
<1>3. CASE /\ Len(servers) < MAX_SERVERS
           /\ servers' = Append(servers, NewServer) /\ level' = "server" /\ UNCHANGED loc
  <2> DEFINE t == Append(servers, NewServer)
  <2>1. /\ Len(servers) \in Nat /\ Len(t) = Len(servers) + 1 /\ t[Len(servers) + 1] = NewServer
        /\ \A i \in 1..Len(servers) : t[i] = servers[i]
    BY <1>1, AppendList
  <2> HIDE DEF t
  <2>2. \A i \in 1..Len(t) : i = Len(servers) + 1 \/ i \in 1..Len(servers)
    BY <2>1
  <2>3. \A i \in 1..Len(t) : Typed(t[i])
    BY Zenon, <1>1, <2>1, <2>2, NewServerType DEF AllTyped
  <2>4. Len(t) <= MAX_SERVERS
    BY <1>3, <2>1, ConfigAssumption
  <2>5. AllTyped(t)
    BY Zenon, <2>3, <2>4 DEF AllTyped
  <2> QED BY Zenon, <1>1, <1>3, <2>5 DEF t
<1> QED BY Zenon, <1>2, <1>3 DEF ReadOuter

LEMMA ServerTyped ==
  ASSUME ConfigInv, TypeInv, NEW line \in Lines, LoadConfig(line)
  PROVE  /\ AllTyped(servers') /\ loc' \in Location
         /\ level' \in {"server", "location", "methods", "failed"}
<1>1. /\ level = "server" /\ level \in Reading /\ AllTyped(servers) /\ loc \in Location
      /\ List(servers) /\ servers # <<>> /\ line \in Seq(Word)
  <2>1. level = "server" /\ level \in Reading
    BY Zenon DEF LoadConfig, Reading
  <2> QED BY <2>1, LastOK, LineType DEF TypeInv
<1>2. CASE Skip \/ Throw
  BY Zenon, <1>1, <1>2 DEF Skip, Throw
<1>3. CASE /\ Named(func_ptr, line) # {} /\ UNCHANGED <<level, loc>>
           /\ servers' = [servers EXCEPT ![Back].data[FirstKey(func_ptr, line)] =
                Fill_data(FirstKey(func_ptr, line), substr(line, find(line, FirstKey(func_ptr, line)) + 2))]
  <2> DEFINE key == FirstKey(func_ptr, line)
  <2> DEFINE value == Fill_data(key, substr(line, find(line, key) + 2))
  <2> DEFINE sv == servers[Len(servers)]
  <2> DEFINE e == [sv EXCEPT !.data[key] = value]
  <2>1. DOMAIN func_ptr = 1..11 /\ 11 \in Nat
    BY DEF func_ptr
  <2>2. key \in Key /\ Mentions(line, key)
    <3>1. PICK n \in Nat : DOMAIN func_ptr = 1..n
      BY <2>1
    <3> QED BY Zenon, <1>3, <3>1, FirstMentioned DEF Key
  <2>3. servers' = [servers EXCEPT ![Len(servers)] = e]
    BY <1>3 DEF Back
  <2> HIDE DEF key
  <2>4. find(line, key) + 2 \in Nat \ {0}
    <3>1. find(line, key) \in 1..Len(line) /\ Len(line) \in Nat
      BY <1>1, <2>2, FindType
    <3> QED BY <3>1
  <2>5. value \in Value(key)
    <3>1. substr(line, find(line, key) + 2) \in Seq(Word)
      BY <1>1, <2>4, SubstrType
    <3> QED BY <2>2, <3>1, FillType
  <2> HIDE DEF value
  <2>6. Typed(sv) => Typed(e)
    BY <2>2, <2>5, DataTyped
  <2> HIDE DEF e, sv
  <2>7. AllTyped([servers EXCEPT ![Len(servers)] = e])
    BY <1>1, <2>6, BackTyped DEF sv
  <2> QED BY Zenon, <1>1, <1>3, <2>3, <2>7
<1>4. CASE /\ Mentions(line, "location") /\ HasPath(line) /\ level' = "location"
           /\ loc' = [NewLocation EXCEPT !.path = setPath(line)] /\ UNCHANGED servers
  <2>1. setPath(line) \in Seq(Word)
    BY <1>1, <1>4, SetPathType
  <2>2. loc' \in Location
    BY Zenon, <1>4, <2>1, NewLocationType DEF Location
  <2> QED BY Zenon, <1>1, <1>4, <2>2
<1>5. CASE level' = "methods" /\ UNCHANGED <<servers, loc>>
  BY Zenon, <1>1, <1>5
<1> QED BY Zenon, <1>1, <1>2, <1>3, <1>4, <1>5 DEF LoadConfig

LEMMA LocationTyped ==
  ASSUME ConfigInv, TypeInv, NEW line \in Lines, Manage_Location(line)
  PROVE  AllTyped(servers') /\ loc' \in Location /\ level' \in {"location", "server", "failed"}
<1>1. level = "location" /\ level \in Reading /\ AllTyped(servers) /\ loc \in Location
      /\ line \in Seq(Word)
  BY LineType DEF Manage_Location, Reading, TypeInv
<1>2. CASE Skip \/ Throw
  BY Zenon, <1>1, <1>2 DEF Skip, Throw
<1>3. CASE servers' = EndLocation(servers) /\ level' = "server" /\ UNCHANGED loc
  BY Zenon, <1>1, <1>3, EndLocationTyped
<1>4. CASE /\ Named(Directives, line) # {} /\ UNCHANGED <<level, servers>>
           /\ loc' = SetDirective(loc, FirstKey(Directives, line), line)
  <2> DEFINE key == FirstKey(Directives, line)
  <2>1. key \in {"cgi_enabled", "cgi_folder", "cgi_allowed_ext", "auto_index",
                 "upload_enabled", "upload_folder"}
    BY <1>4, FirstDirective
  <2>2. Mentions(line, key)
    <3>1. PICK n \in Nat : DOMAIN Directives = 1..n
      <4>1. DOMAIN Directives = 1..6 /\ 6 \in Nat
        BY DEF Directives
      <4> QED BY <4>1
    <3> QED BY Zenon, <1>4, <3>1, FirstMentioned
  <2>3. loc' = SetDirective(loc, key, line)
    BY Zenon, <1>4
  <2> HIDE DEF key
  <2>4. SetDirective(loc, key, line) \in Location
    BY Zenon, <1>1, <2>1, <2>2, DirectiveType
  <2> QED BY Zenon, <1>1, <1>4, <2>3, <2>4
<1> QED BY Zenon, <1>2, <1>3, <1>4 DEF Manage_Location

LEMMA MethodsTyped ==
  ASSUME ConfigInv, TypeInv, NEW line, Manage_Methods(line)
  PROVE  AllTyped(servers') /\ loc' \in Location /\ level' \in {"methods", "server"}
<1>1. /\ level = "methods" /\ level \in Reading /\ AllTyped(servers) /\ loc \in Location
      /\ List(servers) /\ servers # <<>>
  <2>1. level = "methods" /\ level \in Reading
    BY Zenon DEF Manage_Methods, Reading
  <2> QED BY <2>1, LastOK DEF TypeInv
<1>2. CASE level' = "server" /\ UNCHANGED <<servers, loc>>
  BY Zenon, <1>1, <1>2
<1>3. CASE /\ UNCHANGED <<level, loc>>
           /\ servers' = [servers EXCEPT ![Back].methods =
                            @ \cup {line[i] : i \in Places(line, Methods)}]
  <2> DEFINE more == {line[i] : i \in Places(line, Methods)}
  <2> DEFINE sv == servers[Len(servers)]
  <2> DEFINE e == [sv EXCEPT !.methods = @ \cup more]
  <2>1. servers' = [servers EXCEPT ![Len(servers)] = e]
    BY <1>3 DEF Back
  <2>2. more \subseteq Methods
    BY Zenon DEF Places
  <2> HIDE DEF more
  <2>3. ASSUME Typed(sv) PROVE Typed(e)
    <3>1. DOMAIN sv = {"data", "config", "methods", "reach", "locations"} /\ sv.methods \subseteq Methods
      BY <2>3 DEF Typed
    <3>2. /\ DOMAIN e = DOMAIN sv /\ e.data = sv.data /\ e.config = sv.config
          /\ e.locations = sv.locations /\ e.methods = sv.methods \cup more /\ e.reach = sv.reach
      BY <3>1
    <3>3. e.methods \subseteq Methods
      BY Zenon, <2>2, <3>1, <3>2
    <3> HIDE DEF e, sv
    <3> QED BY Zenon, <2>3, <3>2, <3>3 DEF Typed
  <2> HIDE DEF e, sv
  <2>4. AllTyped([servers EXCEPT ![Len(servers)] = e])
    BY <1>1, <2>3, BackTyped DEF sv
  <2> QED BY Zenon, <1>1, <1>3, <2>1, <2>4
<1> QED BY Zenon, <1>2, <1>3 DEF Manage_Methods

(* For any lines and any sizes: every variable keeps values of its kind.   *)
THEOREM ConfigTypeCorrect == Spec => []TypeOK
<1>1. Init => TypeInv
  <2> SUFFICES ASSUME Init PROVE TypeInv
    OBVIOUS
  <2>1. AllTyped(<<>>)
    BY ConfigAssumption DEF AllTyped
  <2>2. left \in 0..MAX_LINES
    BY ConfigAssumption DEF Init
  <2> QED BY Zenon, <2>1, <2>2, NewLocationType DEF Init, TypeInv
<1>2. ConfigInv /\ TypeInv /\ [Next]_vars => TypeInv'
  <2> SUFFICES ASSUME ConfigInv, TypeInv, [Next]_vars PROVE TypeInv'
    OBVIOUS
  <2>1. CASE UNCHANGED vars
    BY Zenon, <2>1 DEF vars, TypeInv, AllTyped
  <2>2. CASE EndOfFile
    <3>1. AllTyped(servers') /\ loc' \in Location /\ level' \in {Respond, "failed"}
      <4>1. AllTyped(servers) /\ loc \in Location
        BY DEF TypeInv
      <4>2. CASE level = "outer" /\ level' = Respond /\ UNCHANGED <<servers, loc>>
        BY Zenon, <4>1, <4>2
      <4>3. CASE level \in {"server", "methods"} /\ Start_server(servers, Respond)
        <5>1. List(servers) /\ servers # <<>>
          BY Zenon, <4>3, LastOK DEF Reading
        <5> QED BY Zenon, <4>1, <4>3, <5>1, StartTyped
      <4>4. CASE level = "location" /\ Start_server(EndLocation(servers), Respond)
        <5>1. level \in Reading
          BY Zenon, <4>4 DEF Reading
        <5> QED BY Zenon, <4>1, <4>4, <5>1, EndLocationTyped, StartTyped
      <4> QED BY Zenon, <2>2, <4>2, <4>3, <4>4 DEF EndOfFile
    <3> QED BY Zenon, <2>2, <3>1 DEF EndOfFile, TypeInv, Respond
  <2>3. ASSUME NEW line \in Lines, Read(line) PROVE TypeInv'
    <3>1. left' \in 0..MAX_LINES
      <4>1. left \in 0..MAX_LINES /\ left > 0 /\ left' = left - 1 /\ MAX_LINES \in Nat
        BY <2>3, ConfigAssumption DEF TypeInv, Read
      <4> QED BY <4>1
    <3>2. /\ AllTyped(servers') /\ loc' \in Location
          /\ level' \in {"outer", "server", "location", "methods", "serving", "failed"}
      <4>1. CASE ReadOuter(line)
        BY Zenon, <4>1, OuterTyped
      <4>2. CASE EndServer(line)
        <5>1. level \in Reading /\ Start_server(servers, "outer") /\ AllTyped(servers) /\ loc \in Location
          BY Zenon, <4>2 DEF EndServer, Reading, TypeInv
        <5>2. List(servers) /\ servers # <<>>
          BY Zenon, <5>1, LastOK
        <5> QED BY Zenon, <5>1, <5>2, StartTyped
      <4>3. CASE LoadConfig(line)
        BY Zenon, <4>3, ServerTyped
      <4>4. CASE Manage_Location(line)
        BY Zenon, <4>4, LocationTyped
      <4>5. CASE Manage_Methods(line)
        BY Zenon, <4>5, MethodsTyped
      <4> QED BY Zenon, <2>3, <4>1, <4>2, <4>3, <4>4, <4>5 DEF Read
    <3>3. epoll' = epoll
      BY Zenon, <2>3 DEF Read
    <3> QED BY Zenon, <3>1, <3>2, <3>3 DEF TypeInv
  <2> QED BY Zenon, <2>1, <2>2, <2>3 DEF Next
<1>3. ConfigInv /\ TypeInv => TypeOK
  <2> SUFFICES ASSUME ConfigInv, TypeInv PROVE TypeOK
    OBVIOUS
  <2>1. PICK S : servers \in Seq(S)
    BY DEF ConfigInv, List
  <2>2. DOMAIN servers = 1..Len(servers)
    BY <2>1
  <2> QED BY Zenon, <2>2 DEF TypeInv, TypeOK, AllTyped, ConfigInv, Reading
<1> QED BY <1>1, <1>2, <1>3, ConfigInvariance, PTL DEF Spec
=============================================================================
