---------------------------- MODULE FilesProofs -----------------------------
(***************************************************************************)
(* Proofs about Files, for any disk, any names and any limits.             *)
(***************************************************************************)
EXTENDS FilesProperties, SequenceTheorems, TLAPS

(* What makes StampsApart inductive: the last upload of this run was in    *)
(* the second old; and those that it is together with have no number the   *)
(* counter has yet to reach.                                               *)
ClockInv == old \in Nat /\ count \in Nat /\ run \in Nat \ {0}
StampRec == [text : Seq(Nat), second : Seconds, run : Nat \ {0}]
TextOf(s) == s.text[1] = Local[s.second] /\ Len(s.text) \in {1, 2}
Now(i, now) == \A k \in i..Len(stamps) : stamps[k].run = run /\ stamps[k].second = now
StampsInv ==
  /\ ClockInv /\ stamps \in Seq(StampRec)
  /\ \A i \in 1..Len(stamps) : TextOf(stamps[i]) /\ stamps[i].run <= run
  /\ \A i \in 1..Len(stamps) : i = Len(stamps) /\ stamps[i].run = run => stamps[i].second = old
  /\ \A i \in 1..Len(stamps) : Now(i, old) /\ Len(stamps[i].text) = 2 => stamps[i].text[2] <= count
  /\ StampsApart

-----------------------------------------------------------------------------
LEMMA StampIs ==
  ASSUME StampsInv, NEW now \in Seconds
  PROVE  /\ Stamp(now) \in Seq(Nat) /\ Stamp(now)[1] = Local[now] /\ Len(Stamp(now)) \in {1, 2}
         /\ Len(Stamp(now)) = 2 => Stamp(now)[2] = CountNow(now)
         /\ now = old => Len(Stamp(now)) = 2
         /\ CountNow(now) \in Nat /\ (now = old => CountNow(now) = count + 1)
         /\ now \in Nat /\ Local[now] \in Nat
<1>1. /\ now \in Nat /\ now # 0 /\ Local[now] \in Nat
      /\ old \in Nat /\ count \in Nat
  BY FilesAssumption DEF StampsInv, ClockInv
<1>2. CountNow(now) \in Nat /\ (now = old => CountNow(now) = count + 1)
  BY <1>1 DEF CountNow
<1>3. PICK l \in Nat, c \in Nat : l = Local[now] /\ c = CountNow(now)
  BY <1>1, <1>2
<1>4. Stamp(now) = IF c > 0 THEN <<l, c>> ELSE <<l>>
  BY <1>3 DEF Stamp
<1>5. CASE c > 0
  <2>1. Stamp(now) = <<l, c>>
    BY <1>4, <1>5
  <2> QED BY <1>1, <1>2, <1>3, <2>1
<1>6. CASE ~(c > 0)
  <2>1. Stamp(now) = <<l>>
    BY <1>4, <1>6
  <2> QED BY <1>1, <1>2, <1>3, <1>6, <2>1
<1> QED BY <1>5, <1>6

(* A stamp that begins with the new one is of the same local time, and not *)
(* one of this run and second.                                             *)
LEMMA NewStamp ==
  ASSUME StampsInv, NEW now \in Seconds, NEW m \in Seq(Nat), NEW i \in 1..Len(stamps),
         stamps[i].text = Stamp(now) \o m
  PROVE  Local[stamps[i].second] = Local[now] /\ ~Now(i, now)
<1>a. PICK st, s : st = Stamp(now) /\ s = stamps[i].text
  OBVIOUS
<1>1. /\ st \in Seq(Nat) /\ st[1] = Local[now] /\ Len(st) \in {1, 2}
      /\ Len(st) = 2 => st[2] = CountNow(now)
      /\ now = old => Len(st) = 2
      /\ now = old => CountNow(now) = count + 1
  BY <1>a, StampIs
<1>2. TextOf(stamps[i]) /\ count \in Nat /\ stamps \in Seq(StampRec)
  BY DEF StampsInv, ClockInv
<1>3. PICK l \in 1..2 : l = Len(st)
  BY <1>1
<1>4. Len(m) \in Nat
  OBVIOUS
<1>5. /\ Len(s) = l + Len(m)
      /\ \A k \in 1..(l + Len(m)) : s[k] = IF k <= l THEN st[k] ELSE m[k - l]
  BY <1>a, <1>1, <1>3, ConcatProperties
<1>6. s[1] = st[1]
  <2>1. 1 \in 1..(l + Len(m)) /\ 1 <= l
    BY <1>3, <1>4
  <2> QED BY <1>5, <2>1
<1>7. ASSUME Now(i, now) PROVE FALSE
  <2>1. Len(stamps) \in Nat /\ Len(stamps) \in i..Len(stamps) /\ Len(stamps) \in 1..Len(stamps)
    BY <1>2
  <2>2. stamps[Len(stamps)].second = now /\ stamps[Len(stamps)].run = run
    BY <1>7, <2>1 DEF Now
  <2>3. old = now
    BY <2>1, <2>2 DEF StampsInv
  <2>4. l = 2 /\ st[2] = count + 1 /\ Len(s) = 2
    BY <1>1, <1>2, <1>a, <1>3, <1>4, <1>5, <2>3 DEF TextOf
  <2>5. s[2] = st[2]
    <3>1. 2 \in 1..(l + Len(m)) /\ 2 <= l
      BY <1>4, <2>4
    <3> QED BY <1>5, <3>1
  <2>6. s[2] <= count
    BY <1>a, <1>7, <2>3, <2>4 DEF StampsInv
  <2> QED BY <1>2, <2>4, <2>5, <2>6
<1> QED BY <1>a, <1>1, <1>2, <1>6, <1>7 DEF TextOf

(* The uploads before the new one, and the new one.                        *)
LEMMA Stamped ==
  ASSUME StampsInv, NEW now \in Seconds, UseStamp(now)
  PROVE  /\ stamps' \in Seq(StampRec) /\ Len(stamps) \in Nat
         /\ Len(stamps') = Len(stamps) + 1 /\ DOMAIN stamps' = 1..(Len(stamps) + 1)
         /\ stamps'[Len(stamps) + 1].text = Stamp(now)
         /\ stamps'[Len(stamps) + 1].second = now
         /\ stamps'[Len(stamps) + 1].run = run
         /\ DOMAIN stamps = 1..Len(stamps)
         /\ \A i \in 1..Len(stamps) : stamps'[i] = stamps[i]
<1>a. PICK rec : rec = [text |-> Stamp(now), second |-> now, run |-> run]
  OBVIOUS
<1>1. stamps \in Seq(StampRec) /\ run \in Nat \ {0} /\ Stamp(now) \in Seq(Nat)
  BY StampIs DEF StampsInv, ClockInv
<1>2. rec \in StampRec /\ rec.text = Stamp(now) /\ rec.second = now /\ rec.run = run
  BY <1>a, <1>1 DEF StampRec
<1>3. stamps' = Append(stamps, rec)
  BY <1>a, Zenon DEF UseStamp
<1> QED BY <1>1, <1>2, <1>3, AppendProperties

(* The stamp of an upload is new, and the invariant holds with it.         *)
LEMMA UseStampKeeps ==
  ASSUME StampsInv, NEW now \in Seconds, UseStamp(now), run' = run
  PROVE  StampsInv'
<1>1. PICK n \in Nat : n = Len(stamps)
  BY DEF StampsInv
<1>2. /\ stamps' \in Seq(StampRec) /\ Len(stamps') = n + 1 /\ DOMAIN stamps' = 1..(n + 1)
      /\ stamps'[n + 1].text = Stamp(now) /\ stamps'[n + 1].second = now
      /\ stamps'[n + 1].run = run /\ DOMAIN stamps = 1..n
      /\ \A i \in 1..n : stamps'[i] = stamps[i]
  BY <1>1, Stamped
<1>3. /\ Stamp(now) \in Seq(Nat) /\ Stamp(now)[1] = Local[now] /\ Len(Stamp(now)) \in {1, 2}
      /\ Len(Stamp(now)) = 2 => Stamp(now)[2] = CountNow(now)
      /\ now = old => CountNow(now) = count + 1
      /\ CountNow(now) \in Nat /\ now \in Nat
  BY StampIs
<1>4. ClockInv /\ \A i \in 1..n : TextOf(stamps[i]) /\ stamps[i].run <= run
  BY <1>1 DEF StampsInv
<1>5. /\ old' = now /\ count' \in Nat
      /\ Len(Stamp(now)) = 2 => Stamp(now)[2] <= count'
      /\ now = old => count' = count + 2
  BY <1>3, <1>4 DEF UseStamp, ClockInv
<1>6. ClockInv'
  BY <1>3, <1>4, <1>5 DEF ClockInv
<1>7. ASSUME NEW i \in 1..(n + 1) PROVE TextOf(stamps'[i]) /\ stamps'[i].run <= run
  <2>1. CASE i = n + 1
    BY <1>2, <1>3, <1>4, <2>1 DEF TextOf, ClockInv
  <2>2. CASE i \in 1..n
    BY <1>2, <1>4, <2>2
  <2> QED BY <2>1, <2>2
<1>8. ASSUME NEW i \in 1..n, NEW now2, Now(i, now2)' PROVE Now(i, now2) /\ now2 = now
  <2>1. \A k \in i..(n + 1) : stamps'[k].run = run /\ stamps'[k].second = now2
    BY <1>2, <1>8 DEF Now
  <2>2. n + 1 \in i..(n + 1) /\ \A k \in i..n : k \in i..(n + 1) /\ k \in 1..n
    OBVIOUS
  <2> QED BY <1>1, <1>2, <2>1, <2>2 DEF Now
<1>9. ASSUME NEW i \in 1..(n + 1), Now(i, old)', Len(stamps'[i].text) = 2
      PROVE  stamps'[i].text[2] <= count'
  <2>1. CASE i = n + 1
    BY <1>2, <1>5, <1>9, <2>1
  <2>2. CASE i \in 1..n
    <3>1. Now(i, now) /\ n \in i..n /\ n \in 1..n
      BY <1>5, <1>8, <1>9, <2>2
    <3>2. stamps[n].second = now /\ stamps[n].run = run
      BY <1>1, <3>1 DEF Now
    <3>3. old = now
      BY <1>1, <3>1, <3>2 DEF StampsInv
    <3>4. stamps[i].text[2] <= count
      BY <1>1, <1>2, <1>9, <2>2, <3>1, <3>3 DEF StampsInv
    <3>5. stamps[i].text[2] \in Nat
      <4>1. stamps[i] \in StampRec /\ Len(stamps[i].text) = 2
        BY <1>1, <1>2, <1>9, <2>2 DEF StampsInv
      <4>2. stamps[i].text \in Seq(Nat)
        BY <4>1 DEF StampRec
      <4> QED BY <4>1, <4>2
    <3> QED BY <1>2, <1>4, <1>5, <2>2, <3>3, <3>4, <3>5 DEF ClockInv
  <2> QED BY <2>1, <2>2
<1>10. ASSUME NEW i \in 1..(n + 1), NEW j \in 1..(n + 1), i < j, stamps'[i].text = stamps'[j].text
       PROVE  Local[stamps'[i].second] = Local[stamps'[j].second] /\ ~Together(i, j)'
  <2>1. CASE j = n + 1
    <3>1. i \in 1..n /\ stamps'[i] = stamps[i]
      BY <1>2, <1>10, <2>1
    <3>2. stamps[i].text = Stamp(now) \o <<>>
      BY <1>2, <1>3, <1>10, <2>1, <3>1, ConcatEmptySeq
    <3>3. <<>> \in Seq(Nat)
      OBVIOUS
    <3>4. Local[stamps[i].second] = Local[now] /\ ~Now(i, now)
      BY <1>1, <3>1, <3>2, <3>3, NewStamp
    <3>5. ASSUME Together(i, j)' PROVE Now(i, now)
      <4>1. \A k \in i..n : k \in i..j /\ k \in 1..n
        BY <2>1
      <4> QED BY <1>1, <1>2, <2>1, <3>5, <4>1 DEF Together, Now
    <3> QED BY <1>2, <2>1, <3>1, <3>4, <3>5
  <2>2. CASE j \in 1..n
    <3>1. i \in 1..n /\ \A k \in i..j : k \in 1..n
      BY <1>10, <2>2
    <3>2. Local[stamps[i].second] = Local[stamps[j].second] /\ ~Together(i, j)
      BY <1>2, <1>10, <2>2, <3>1 DEF StampsInv, StampsApart
    <3> QED BY <1>2, <2>2, <3>1, <3>2 DEF Together
  <2> QED BY <2>1, <2>2
<1>11. StampsApart'
  BY <1>2, <1>10 DEF StampsApart
<1>12. stamps'[n + 1].second = old'
  BY <1>2, <1>5
<1> QED BY <1>2, <1>6, <1>7, <1>9, <1>11, <1>12 DEF StampsInv

(* After a new start no stamp is of this run.                              *)
LEMMA RestartKeeps ==
  ASSUME StampsInv, run' = run + 1, ClockInv', UNCHANGED stamps
  PROVE  StampsInv'
<1>1. ASSUME NEW i \in 1..Len(stamps) PROVE stamps[i].run < run' /\ stamps[i].run \in Nat
  <2>1. stamps[i] \in StampRec /\ stamps[i].run <= run /\ run \in Nat
    BY <1>1 DEF StampsInv, ClockInv
  <2>2. stamps[i].run \in Nat
    BY <2>1 DEF StampRec
  <2> QED BY <2>1, <2>2
<1>2. ASSUME NEW i \in 1..Len(stamps), NEW now PROVE ~Now(i, now)'
  <2>1. i \in i..Len(stamps)
    BY DEF StampsInv
  <2> QED BY <1>1, <2>1 DEF Now
<1>3. \A i \in 1..Len(stamps) : stamps[i].run <= run' /\ stamps[i].run # run'
  BY <1>1 DEF ClockInv
<1>4. StampsApart'
  BY DEF StampsInv, StampsApart, Together
<1> QED BY <1>2, <1>3, <1>4 DEF StampsInv

LEMMA StampsStart == Init => StampsInv
BY DEF Init, StampsInv, ClockInv, StampsApart

LEMMA StampsStep ==
  ASSUME StampsInv, [Next]_vars
  PROVE  StampsInv'
<1>1. ASSUME UNCHANGED <<old, count, run, stamps>> PROVE StampsInv'
  BY <1>1 DEF StampsInv, Now, ClockInv, StampsApart, Together
<1>2. ASSUME NEW file \in Filenames, NEW now \in Seconds, uploadFile(file, now) PROVE StampsInv'
  BY <1>2, <1>1, UseStampKeeps DEF uploadFile
<1>3. ASSUME NEW path \in DOMAIN fs, Delete(path) PROVE StampsInv'
  BY <1>3, <1>1 DEF Delete
<1>4. CASE deleteRecursive
  BY <1>4, <1>1 DEF deleteRecursive
<1>5. CASE write \/ close_upload
  BY <1>5, <1>1 DEF write, close_upload
<1>6. CASE Elsewhere
  BY <1>6, <1>1 DEF Elsewhere
<1>7. CASE Restart
  BY <1>7, RestartKeeps DEF Restart, ClockInv, StampsInv
<1>8. CASE UNCHANGED vars
  BY <1>8, <1>1 DEF vars
<1> QED BY <1>2, <1>3, <1>4, <1>5, <1>6, <1>7, <1>8 DEF Next

(* For any disk, any names, any clock and any local time, and as many      *)
(* uploads and runs of the program as there are: two uploads with one time *)
(* stamp are of seconds with one local time, and the program was started   *)
(* again or there was an upload in another second between them (Handler.cpp*)
(* 287-305).                                                               *)
THEOREM StampsAlwaysApart == Spec => []StampsApart
<1>1. StampsInv => StampsApart
  BY DEF StampsInv
<1> QED BY <1>1, StampsStart, StampsStep, PTL DEF Spec

-----------------------------------------------------------------------------
(* What makes ErrnoTellsTruth inductive: the directories of the calls      *)
(* under way are on the disk, each an entry of the one before that readdir *)
(* has already given; an errno that is not zero was left by a call on a    *)
(* directory that is still there; and while a file is written it is there  *)
(* and nothing is deleted.                                                 *)
Inside(f, path) == {p \in DOMAIN f : Len(p) = Len(path) + 1 /\ Below(path, p)}
Frame == [path : Path, todo : SUBSET Path]
Frames(s, f) ==
  /\ s \in Seq(Frame)
  /\ \A k \in 1..Len(s) :
       /\ s[k].path \in DOMAIN f /\ f[s[k].path].kind = "dir"
       /\ s[k].todo \subseteq Inside(f, s[k].path)
       /\ k > 1 => s[k].path \in Inside(f, s[k - 1].path)
  /\ \A j, k \in 1..Len(s) :
       j < k => Len(s[j].path) < Len(s[k].path) /\ s[k].path \notin s[j].todo
Blames(s, f, e) == e /\ s # <<>> => \E p \in Inside(f, s[Len(s)].path) : f[p].kind = "dir"
OfsInv ==
  ofs # <<>> =>
    /\ stack = <<>> /\ asked = <<>> /\ Len(stamps) >= 1
    /\ ofs \in DOMAIN fs /\ fs[ofs] \in Node /\ fs[ofs].kind = "file"
WalkInv ==
  /\ StampsInv /\ DOMAIN fs \subseteq Path
  /\ Frames(stack, fs) /\ Blames(stack, fs, errno)
  /\ OfsInv

(* What the last call has to read, no other call has.                      *)
LEMMA Deeper ==
  ASSUME NEW f, NEW s, Frames(s, f), s # <<>>, NEW q, Len(q) = Len(s[Len(s)].path) + 1
  PROVE  \A k \in 1..Len(s) : k < Len(s) => q \notin s[k].todo /\ Len(s[k].path) < Len(q)
<1>1. s \in Seq(Frame) /\ Len(s) \in Nat \ {0} /\ Len(s) \in 1..Len(s)
  BY DEF Frames
<1> SUFFICES ASSUME NEW k \in 1..Len(s), k < Len(s)
             PROVE  q \notin s[k].todo /\ Len(s[k].path) < Len(q)
  OBVIOUS
<1>2. Len(s[k].path) < Len(s[Len(s)].path)
  BY <1>1 DEF Frames
<1>3. Len(s[k].path) \in Nat /\ Len(s[Len(s)].path) \in Nat
  BY <1>1 DEF Frame, Path
<1>4. \A r \in s[k].todo : Len(r) = Len(s[k].path) + 1
  BY DEF Frames, Inside
<1> QED BY <1>2, <1>3, <1>4

(* The calls below the last.                                               *)
Lower(s) == SubSeq(s, 1, Len(s) - 1)

LEMMA Popped ==
  ASSUME NEW f, NEW s, Frames(s, f), s # <<>>, NEW c, c = Lower(s)
  PROVE  /\ Frames(c, f) /\ Len(c) = Len(s) - 1 /\ Len(s) \in Nat \ {0}
         /\ s[Len(s)] \in Frame
         /\ \A k \in 1..Len(c) : c[k] = s[k]
         /\ c # <<>> => s[Len(s)].path \in Inside(f, c[Len(c)].path)
<1>1. s \in Seq(Frame) /\ Len(s) \in Nat \ {0} /\ Len(s) \in 1..Len(s)
  BY DEF Frames
<1>2. 1 \in 1..(Len(s) + 1) /\ Len(s) - 1 \in (1 - 1)..Len(s) /\ Len(s) - 1 - 1 + 1 = Len(s) - 1
      /\ \A k \in 1..(Len(s) - 1) : 1 + k - 1 = k
  BY <1>1
<1>3. c \in Seq(Frame) /\ Len(c) = Len(s) - 1 /\ \A k \in 1..Len(c) : c[k] = s[k]
  BY <1>1, <1>2, SubSeqProperties DEF Lower
<1>4. \A k \in 1..Len(c) : k \in 1..Len(s) /\ (k > 1 => k - 1 \in 1..Len(c))
  BY <1>1, <1>3
<1>5. Frames(c, f)
  BY <1>3, <1>4 DEF Frames
<1>6. ASSUME c # <<>> PROVE s[Len(s)].path \in Inside(f, c[Len(c)].path)
  <2>1. Len(s) > 1 /\ Len(s) - 1 \in 1..Len(c)
    BY <1>1, <1>3, <1>6
  <2> QED BY <2>1, <1>1, <1>3 DEF Frames
<1> QED BY <1>1, <1>3, <1>5, <1>6

(* The last call with less to read.                                        *)
Gave(s, p) == Append(Lower(s), [s[Len(s)] EXCEPT !.todo = @ \ {p}])

LEMMA Given ==
  ASSUME NEW f, NEW s, Frames(s, f), s # <<>>, NEW p, NEW h, h = Gave(s, p)
  PROVE  /\ Frames(h, f) /\ h # <<>> /\ Len(h) = Len(s)
         /\ h[Len(h)].path = s[Len(s)].path /\ p \notin h[Len(h)].todo
         /\ h[Len(h)].todo = s[Len(s)].todo \ {p}
         /\ \A k \in 1..Len(s) : h[k].path = s[k].path /\ (k < Len(s) => h[k] = s[k])
<1>a. PICK c : c = Lower(s)
  OBVIOUS
<1>b. PICK last : last = [s[Len(s)] EXCEPT !.todo = @ \ {p}]
  OBVIOUS
<1>1. /\ Frames(c, f) /\ Len(c) = Len(s) - 1 /\ Len(s) \in Nat \ {0}
      /\ s[Len(s)] \in Frame /\ \A k \in 1..Len(c) : c[k] = s[k]
  <2>1. Frames(c, f)
    BY <1>a, Popped
  <2>2. Len(c) = Len(s) - 1 /\ Len(s) \in Nat \ {0}
    BY <1>a, Popped
  <2>3. s[Len(s)] \in Frame
    BY <1>a, Popped
  <2>4. ASSUME NEW k \in 1..Len(c) PROVE c[k] = s[k]
    BY <1>a, Popped, <2>1, <2>2
  <2> QED BY <2>1, <2>2, <2>3, <2>4
<1>2. last \in Frame /\ last.path = s[Len(s)].path /\ last.todo = s[Len(s)].todo \ {p}
  BY <1>b, <1>1 DEF Frame
<1>3. c \in Seq(Frame)
  BY <1>1 DEF Frames
<1>4. h = Append(c, last)
  BY <1>a, <1>b DEF Gave
<1>5. h \in Seq(Frame) /\ Len(h) = Len(s) /\ h[Len(s)] = last
      /\ \A k \in 1..Len(c) : h[k] = s[k]
  BY <1>1, <1>2, <1>3, <1>4
<1>6. \A k \in 1..Len(s) : h[k].path = s[k].path /\ h[k].todo \subseteq s[k].todo
  <2> SUFFICES ASSUME NEW k \in 1..Len(s)
               PROVE  h[k].path = s[k].path /\ h[k].todo \subseteq s[k].todo
    OBVIOUS
  <2>1. k = Len(s) \/ k \in 1..Len(c)
    BY <1>1
  <2> QED BY <2>1, <1>2, <1>5
<1>7. \A k \in 1..Len(s) : k > 1 => k - 1 \in 1..Len(s)
  BY <1>1
<1>8. ASSUME NEW k \in 1..Len(h)
      PROVE  /\ h[k].path \in DOMAIN f /\ f[h[k].path].kind = "dir"
             /\ h[k].todo \subseteq Inside(f, h[k].path)
             /\ k > 1 => h[k].path \in Inside(f, h[k - 1].path)
  <2>1. k \in 1..Len(s) /\ h[k].path = s[k].path /\ h[k].todo \subseteq s[k].todo
        /\ (k > 1 => h[k - 1].path = s[k - 1].path)
    BY <1>5, <1>6, <1>7
  <2> QED BY <2>1 DEF Frames
<1>9. ASSUME NEW j \in 1..Len(h), NEW k \in 1..Len(h), j < k
      PROVE  Len(h[j].path) < Len(h[k].path) /\ h[k].path \notin h[j].todo
  <2>1. j \in 1..Len(s) /\ k \in 1..Len(s)
    BY <1>5
  <2>2. Len(s[j].path) < Len(s[k].path) /\ s[k].path \notin s[j].todo
    BY <1>9, <2>1 DEF Frames
  <2> QED BY <1>6, <2>1, <2>2
<1>10. Frames(h, f)
  BY <1>5, <1>8, <1>9 DEF Frames
<1>11. \A k \in 1..Len(s) : k < Len(s) => k \in 1..Len(c)
  BY <1>1
<1> QED BY <1>1, <1>2, <1>5, <1>6, <1>10, <1>11

(* A directory that is opened is a new last call.                          *)
LEMMA Pushed ==
  ASSUME NEW f, NEW s, Frames(s, f), DOMAIN f \subseteq Path,
         NEW p \in DOMAIN f, f[p].kind = "dir",
         s # <<>> => p \in Inside(f, s[Len(s)].path) /\ p \notin s[Len(s)].todo
  PROVE  Frames(Append(s, [path |-> p, todo |-> Inside(f, p)]), f)
<1> DEFINE last == [path |-> p, todo |-> Inside(f, p)]
<1> DEFINE t == Append(s, last)
<1>1. last \in Frame /\ s \in Seq(Frame) /\ Len(s) \in Nat
  BY DEF Frame, Inside, Frames
<1>2. last.path = p /\ last.todo = Inside(f, p)
  OBVIOUS
<1> HIDE DEF last
<1>3. t \in Seq(Frame) /\ Len(t) = Len(s) + 1 /\ t[Len(s) + 1] = last
      /\ \A k \in 1..Len(s) : t[k] = s[k]
  BY <1>1
<1> HIDE DEF t
<1>4. \A k \in 1..Len(t) : k = Len(s) + 1 \/ k \in 1..Len(s)
  BY <1>1, <1>3
<1>5. ASSUME NEW k \in 1..Len(t)
      PROVE  /\ t[k].path \in DOMAIN f /\ f[t[k].path].kind = "dir"
             /\ t[k].todo \subseteq Inside(f, t[k].path)
             /\ k > 1 => t[k].path \in Inside(f, t[k - 1].path)
  <2>1. CASE k = Len(s) + 1
    <3>1. k > 1 => s # <<>> /\ t[k - 1] = s[Len(s)]
      BY <2>1, <1>1, <1>3
    <3> QED BY <3>1, <2>1, <1>2, <1>3
  <2>2. CASE k \in 1..Len(s)
    <3>1. t[k] = s[k] /\ (k > 1 => t[k - 1] = s[k - 1])
      BY <2>2, <1>1, <1>3
    <3> QED BY <3>1, <2>2 DEF Frames
  <2> QED BY <2>1, <2>2, <1>4
<1>6. ASSUME NEW j \in 1..Len(t), NEW k \in 1..Len(t), j < k
      PROVE  Len(t[j].path) < Len(t[k].path) /\ t[k].path \notin t[j].todo
  <2>1. j \in 1..Len(s)
    BY <1>6, <1>1, <1>3
  <2>2. CASE k \in 1..Len(s)
    BY <2>1, <2>2, <1>3, <1>6 DEF Frames
  <2>3. CASE k = Len(s) + 1
    <3>1. s # <<>> /\ Len(p) = Len(s[Len(s)].path) + 1 /\ p \notin s[Len(s)].todo
      BY <2>1 DEF Inside
    <3>2. j < Len(s) => p \notin s[j].todo /\ Len(s[j].path) < Len(p)
      BY <3>1, <2>1, Deeper
    <3>3. s[Len(s)] \in Frame
      BY <2>1, <1>1
    <3>4. Len(s[Len(s)].path) \in Nat
      BY <3>3 DEF Frame, Path
    <3>5. j = Len(s) => p \notin s[j].todo /\ Len(s[j].path) < Len(p)
      BY <3>1, <3>4
    <3>6. j < Len(s) \/ j = Len(s)
      BY <2>1, <1>1
    <3> QED BY <3>2, <3>5, <3>6, <2>1, <2>3, <1>2, <1>3
  <2> QED BY <2>2, <2>3, <1>4
<1>7. Frames(t, f)
  BY <1>3, <1>5, <1>6 DEF Frames
<1> QED BY <1>7 DEF t, last

(* What no call is in or has still to read can go.                         *)
LEMMA Removed ==
  ASSUME NEW f, NEW s, Frames(s, f), NEW q, NEW g, g = [p \in DOMAIN f \ {q} |-> f[p]],
         \A k \in 1..Len(s) : s[k].path # q /\ q \notin s[k].todo
  PROVE  Frames(s, g)
<1>1. DOMAIN g = DOMAIN f \ {q} /\ \A p \in DOMAIN g : g[p] = f[p]
  OBVIOUS
<1>2. \A r : Inside(g, r) = Inside(f, r) \ {q}
  BY <1>1 DEF Inside
<1> QED BY <1>1, <1>2 DEF Frames

(* The call that opens a directory, or does not; and one that fails.       *)
LEMMA Opened ==
  ASSUME NEW s, Frames(s, fs), DOMAIN fs \subseteq Path,
         NEW p \in DOMAIN fs, fs[p].kind = "dir",
         s # <<>> => p \in Inside(fs, s[Len(s)].path) /\ p \notin s[Len(s)].todo,
         opendir(p, s), fs' = fs
  PROVE  Frames(stack', fs') /\ Blames(stack', fs', errno')
<1>1. CASE errno' = Reset /\ stack' = Append(s, [path |-> p, todo |-> Entries(p)])
  <2>1. Entries(p) = Inside(fs, p)
    BY DEF Entries, Inside
  <2> QED BY <1>1, <2>1, Pushed DEF Blames, Reset
<1>2. CASE errno' = TRUE /\ stack' = s
  BY <1>2 DEF Blames
<1> QED BY <1>1, <1>2 DEF opendir, Return

LEMMA Failed ==
  ASSUME WalkInv, stack # <<>>, stack' = Callers, fs' = fs
  PROVE  Frames(stack', fs') /\ Blames(stack', fs', errno')
<1>1. /\ Frames(Callers, fs)
      /\ Callers # <<>> => Top.path \in Inside(fs, Callers[Len(Callers)].path)
  BY Popped DEF WalkInv, Callers, Lower, Top
<1>2. Len(stack) \in 1..Len(stack)
  BY DEF WalkInv, Frames
<1>3. fs[Top.path].kind = "dir"
  BY <1>2 DEF WalkInv, Frames, Top
<1> QED BY <1>1, <1>3 DEF Blames

(* One step of a deletion.                                                 *)
LEMMA ReaddirKeeps ==
  ASSUME WalkInv, stack # <<>>, NEW p \in Top.todo, readdir(p)
  PROVE  /\ DOMAIN fs' \subseteq Path
         /\ Frames(stack', fs') /\ Blames(stack', fs', errno')
<1>a. PICK h : h = Gave(stack, p)
  OBVIOUS
<1>b. h = Append(Callers, [Top EXCEPT !.todo = @ \ {p}])
  BY <1>a DEF Gave, Lower, Callers, Top
<1>1. DOMAIN fs \subseteq Path /\ Frames(stack, fs) /\ Blames(stack, fs, errno)
  BY DEF WalkInv
<1>2. /\ Frames(h, fs) /\ h # <<>> /\ Len(h) = Len(stack)
      /\ h[Len(h)].path = Top.path /\ p \notin h[Len(h)].todo
  BY <1>a, <1>1, Given DEF Top
<1>3. Len(stack) \in 1..Len(stack)
  BY <1>1 DEF Frames
<1>4. p \in Inside(fs, Top.path) /\ p \in DOMAIN fs
  BY <1>1, <1>3 DEF Frames, Top, Inside
<1>5. CASE fs[p].kind = "dir" /\ opendir(p, h) /\ UNCHANGED fs
  BY <1>1, <1>2, <1>4, <1>5, Opened
<1>6. CASE fs[p].kind = "file" /\ unlink(p) /\ stack' = h /\ errno' = errno
  <2>1. fs' = [r \in DOMAIN fs \ {p} |-> fs[r]]
    BY <1>6 DEF unlink
  <2>2. Len(p) = Len(h[Len(h)].path) + 1
    BY <1>2, <1>4 DEF Inside
  <2>3. \A k \in 1..Len(h) : h[k].path # p
    BY <1>2, <1>6 DEF Frames
  <2>4. \A k \in 1..Len(h) : p \notin h[k].todo
    <3>1. \A k \in 1..Len(h) : k < Len(h) => p \notin h[k].todo
      BY <1>2, <2>2, Deeper
    <3>2. \A k \in 1..Len(h) : k < Len(h) \/ k = Len(h)
      BY <1>2, <1>3
    <3> QED BY <3>1, <3>2, <1>2
  <2>5. Frames(h, fs')
    BY <1>2, <2>1, <2>3, <2>4, Removed
  <2>6. ASSUME errno PROVE \E d \in Inside(fs', Top.path) : fs'[d].kind = "dir"
    <3>1. PICK d \in Inside(fs, Top.path) : fs[d].kind = "dir"
      BY <1>1, <2>6 DEF Blames, Top
    <3>2. d # p /\ d \in Inside(fs', Top.path) /\ fs'[d] = fs[d]
      BY <3>1, <1>6, <2>1 DEF Inside
    <3> QED BY <3>1, <3>2
  <2>7. Blames(stack', fs', errno')
    BY <1>2, <1>6, <2>6 DEF Blames
  <2> QED BY <1>1, <1>6, <2>1, <2>5, <2>7
<1>7. CASE stack' = Callers /\ UNCHANGED fs
  BY <1>1, <1>7, Failed
<1>8. CASE stack' = h /\ UNCHANGED <<fs, errno>>
  BY <1>1, <1>2, <1>8 DEF Blames, Top
<1> QED BY <1>b, <1>5, <1>6, <1>7, <1>8 DEF readdir, Return

LEMMA RmdirKeeps ==
  ASSUME WalkInv, stack # <<>>, rmdir
  PROVE  /\ DOMAIN fs' \subseteq Path
         /\ Frames(stack', fs') /\ Blames(stack', fs', errno')
<1>1. DOMAIN fs \subseteq Path /\ Frames(stack, fs)
  BY DEF WalkInv
<1>2. CASE stack' = Callers /\ UNCHANGED fs
  BY <1>1, <1>2, Failed
<1>3. CASE ~errno /\ unlink(Top.path) /\ stack' = Callers /\ UNCHANGED errno
  <2>1. fs' = [r \in DOMAIN fs \ {Top.path} |-> fs[r]]
    BY <1>3 DEF unlink
  <2>2. /\ Frames(Callers, fs) /\ Len(Callers) = Len(stack) - 1 /\ Len(stack) \in Nat \ {0}
        /\ \A k \in 1..Len(Callers) : Callers[k] = stack[k]
    <3>1. Callers = Lower(stack)
      BY DEF Callers, Lower
    <3>2. Frames(Callers, fs) /\ Len(Callers) = Len(stack) - 1 /\ Len(stack) \in Nat \ {0}
      BY <1>1, <3>1, Popped
    <3>3. ASSUME NEW k \in 1..Len(Callers) PROVE Callers[k] = stack[k]
      BY <1>1, <3>1, <3>2, Popped
    <3> QED BY <3>2, <3>3
  <2>3. ASSUME NEW k \in 1..Len(Callers)
        PROVE  Callers[k].path # Top.path /\ Top.path \notin Callers[k].todo
    <3>1. k \in 1..Len(stack) /\ Len(stack) \in 1..Len(stack) /\ k < Len(stack)
      BY <2>2
    <3>2. Len(stack[k].path) < Len(Top.path) /\ Top.path \notin stack[k].todo
      BY <1>1, <3>1 DEF Frames, Top
    <3>3. Len(Top.path) \in Nat
      BY <1>1, <3>1 DEF Frames, Frame, Path, Top
    <3> QED BY <2>2, <3>2, <3>3
  <2>4. Frames(Callers, fs')
    BY <2>1, <2>2, <2>3, Removed
  <2> QED BY <1>1, <1>3, <2>1, <2>4 DEF Blames
<1> QED BY <1>2, <1>3 DEF rmdir, Return

(* A file system with a file put in it.                                    *)
Put(f, q, new) == [p \in DOMAIN f \cup {q} |-> IF p = q THEN new ELSE f[p]]

(* An upload that opens a file gives it a name in the folder.              *)
Opens(file, now, n, new) ==
  /\ n.nums = Stamp(now) \o file.nums /\ UseStamp(now)
  /\ Folder \in DOMAIN fs /\ fs[Folder].kind = "dir"
  /\ ofs' = Append(Folder, n) /\ (ofs' \in DOMAIN fs => fs[ofs'].kind = "file")
  /\ new.kind = "file" /\ fs' = Put(fs, ofs', new)

LEMMA UploadIs ==
  ASSUME WalkInv, NEW file \in Filenames, NEW now \in Seconds, uploadFile(file, now)
  PROVE  \/ UNCHANGED <<fs, ofs>> /\ (stamps' = stamps \/ UseStamp(now))
         \/ \E n \in Name, new \in Node : Opens(file, now, n, new)
<1>a. PICK n, new : /\ n = generateUniqueFilename(file, now)
                    /\ new = [kind |-> "file", content |-> Len(stamps) + 1, whole |-> FALSE]
  OBVIOUS
<1>1. Stamp(now) \in Seq(Nat) /\ Len(stamps) \in Nat
  BY StampIs DEF WalkInv, StampsInv
<1>2. file \in Name /\ file.nums \in Seq(Nat) /\ file.rest \in STRING
  BY FilesAssumption DEF Name
<1>b. PICK nums : nums = Stamp(now) \o file.nums
  OBVIOUS
<1>3. nums \in Seq(Nat)
  BY <1>1, <1>2, <1>b, ConcatProperties
<1>4. n = [nums |-> nums, rest |-> file.rest]
  BY <1>a, <1>b, Zenon DEF generateUniqueFilename
<1>5. n \in Name /\ n.nums = nums
  BY <1>2, <1>3, <1>4 DEF Name
<1>6. new \in Node /\ new.kind = "file"
  BY <1>a, <1>1 DEF Node
<1>7. CASE /\ Folder \in DOMAIN fs /\ fs[Folder].kind = "dir" /\ UseStamp(now)
           /\ ofs' = Append(Folder, n) /\ (ofs' \in DOMAIN fs => fs[ofs'].kind = "file")
           /\ fs' = [p \in DOMAIN fs \cup {ofs'} |-> IF p = ofs' THEN new ELSE fs[p]]
  BY <1>b, <1>5, <1>6, <1>7, Zenon DEF Opens, Put
<1> QED BY <1>a, <1>7, Zenon DEF uploadFile

LEMMA OpenKeeps ==
  ASSUME WalkInv, NEW file \in Filenames, NEW now \in Seconds, uploadFile(file, now)
  PROVE  DOMAIN fs' \subseteq Path /\ OfsInv'
<1>1. DOMAIN fs \subseteq Path /\ OfsInv /\ ofs = <<>> /\ stack' = <<>> /\ asked' = <<>>
  BY DEF WalkInv, uploadFile
<1>2. CASE UNCHANGED <<fs, ofs>>
  BY <1>1, <1>2 DEF OfsInv
<1>3. ASSUME NEW n \in Name, NEW new \in Node, Opens(file, now, n, new)
      PROVE  DOMAIN fs' \subseteq Path /\ OfsInv'
  <2>1. Len(stamps') >= 1
    BY <1>3, Stamped DEF Opens, WalkInv
  <2>2. ofs' \in Path
    BY <1>3, FilesAssumption DEF Opens, Path
  <2>3. DOMAIN fs' = DOMAIN fs \cup {ofs'} /\ fs'[ofs'] = new /\ new.kind = "file"
    BY <1>3 DEF Opens, Put
  <2> QED BY <1>1, <2>1, <2>2, <2>3 DEF OfsInv
<1> QED BY <1>2, <1>3, UploadIs

(* What is written changes neither what is there nor its kind.             *)
LEMMA WriteIs ==
  ASSUME OfsInv, write
  PROVE  /\ stack = <<>> /\ asked = <<>> /\ ofs \in DOMAIN fs /\ DOMAIN fs' = DOMAIN fs
         /\ fs'[ofs] \in Node /\ fs'[ofs].kind = "file"
         /\ \A p \in DOMAIN fs : p # ofs => fs'[p] = fs[p]
<1>1. /\ stack = <<>> /\ asked = <<>> /\ ofs \in DOMAIN fs
      /\ fs[ofs] \in Node /\ fs[ofs].kind = "file"
  BY DEF OfsInv, write
<1>2. fs' = [fs EXCEPT ![ofs] = [fs[ofs] EXCEPT !.whole = TRUE]]
  BY DEF write
<1>3. \A r \in Node : [r EXCEPT !.whole = TRUE] \in Node /\ [r EXCEPT !.whole = TRUE].kind = r.kind
  BY DEF Node
<1> QED BY <1>1, <1>2, <1>3

LEMMA Walks == Spec => []WalkInv
<1>1. Init => WalkInv
  <2> SUFFICES ASSUME Init PROVE WalkInv
    OBVIOUS
  <2>1. stack = <<>> /\ fs \in Trees
    BY DEF Init
  <2>2. Frames(stack, fs) /\ Blames(stack, fs, errno)
    BY <2>1 DEF Frames, Blames
  <2>3. DOMAIN fs \subseteq Path
    BY <2>1, FilesAssumption DEF Tree
  <2>4. OfsInv
    BY DEF Init, OfsInv
  <2> QED BY <2>2, <2>3, <2>4, StampsStart DEF WalkInv
<1>2. WalkInv /\ [Next]_vars => WalkInv'
  <2> SUFFICES ASSUME WalkInv, [Next]_vars PROVE WalkInv'
    OBVIOUS
  <2>1. StampsInv'
    BY StampsStep DEF WalkInv
  <2>2. DOMAIN fs \subseteq Path /\ Frames(stack, fs) /\ Blames(stack, fs, errno)
    BY DEF WalkInv
  <2> DEFINE Kept == /\ DOMAIN fs' \subseteq Path
                     /\ Frames(stack', fs') /\ Blames(stack', fs', errno')
  <2> SUFFICES Kept /\ OfsInv'
    BY <2>1 DEF WalkInv
  <2>a. OfsInv
    BY DEF WalkInv
  <2>3. ASSUME stack' = <<>> PROVE Frames(stack', fs') /\ Blames(stack', fs', errno')
    BY <2>3 DEF Frames, Blames
  <2>4. ASSUME UNCHANGED <<fs, stack, errno>> PROVE Kept
    BY <2>4, <2>2
  <2>5. ASSUME NEW file \in Filenames, NEW now \in Seconds, uploadFile(file, now) PROVE Kept /\ OfsInv'
    BY <2>5, <2>3, OpenKeeps DEF uploadFile
  <2>6. ASSUME NEW path \in DOMAIN fs, Delete(path) PROVE Kept
    <3>1. CASE UNCHANGED <<fs, stack, errno>>
      BY <3>1, <2>4
    <3>2. CASE stack' = stack /\ (unlink(path) \/ UNCHANGED fs)
      BY <3>2, <2>6, <2>2, <2>3 DEF Delete, unlink
    <3>3. CASE fs[path].kind = "dir" /\ opendir(path, <<>>) /\ UNCHANGED fs
      <4>1. Frames(<<>>, fs)
        BY DEF Frames
      <4> QED BY <3>3, <4>1, <2>2, Opened
    <3> QED BY <2>6, <3>1, <3>2, <3>3 DEF Delete
  <2>7. ASSUME deleteRecursive PROVE Kept
    <3>1. stack # <<>>
      BY <2>7 DEF deleteRecursive
    <3>2. ASSUME NEW p \in Top.todo, readdir(p) PROVE Kept
      BY <3>1, <3>2, ReaddirKeeps
    <3>3. ASSUME readdir_fails PROVE Kept
      BY <3>1, <3>3, <2>2, Failed DEF readdir_fails, Return
    <3>4. ASSUME rmdir PROVE Kept
      BY <3>1, <3>4, RmdirKeeps
    <3> QED BY <2>7, <3>2, <3>3, <3>4 DEF deleteRecursive
  <2>8. CASE write
    <3>1. Kept
      BY <2>8, <2>a, <2>2, <2>3, WriteIs DEF write
    <3>2. OfsInv'
      BY <2>8, <2>a, WriteIs DEF write, OfsInv
    <3> QED BY <3>1, <3>2
  <2>9. ASSUME Elsewhere PROVE Kept
    BY <2>9, <2>2, <2>3 DEF Elsewhere
  <2>10. ASSUME Restart PROVE Kept
    BY <2>10, <2>2, <2>3 DEF Restart
  <2>11. ASSUME UNCHANGED vars \/ close_upload PROVE Kept
    BY <2>11, <2>4 DEF vars, close_upload
  <2>12. ASSUME ofs' = <<>> \/ UNCHANGED vars PROVE OfsInv'
    BY <2>12, <2>a DEF OfsInv, vars
  <2>13. ASSUME NEW path \in DOMAIN fs, Delete(path) PROVE ofs' = <<>>
    BY <2>13 DEF Delete
  <2>14. deleteRecursive \/ Elsewhere \/ Restart \/ close_upload => ofs' = <<>>
    BY <2>a DEF deleteRecursive, Elsewhere, Restart, close_upload, Leave, OfsInv
  <2> HIDE DEF Kept
  <2> QED BY <2>5, <2>6, <2>7, <2>8, <2>9, <2>10, <2>11, <2>12, <2>13, <2>14 DEF Next
<1> QED BY <1>1, <1>2, PTL DEF Spec

(* For any disk, any calls that fail and any limit on open directories: an *)
(* errno that stops a directory's rmdir stops one that would have failed   *)
(* (Handler.cpp 351, 368-375).                                             *)
THEOREM ErrnoAlwaysTrue == Spec => []ErrnoTellsTruth
<1>1. WalkInv => ErrnoTellsTruth
  <2> SUFFICES ASSUME WalkInv, stack # <<>>, errno PROVE Entries(Top.path) # {}
    BY DEF ErrnoTellsTruth
  <2>1. Inside(fs, Top.path) # {}
    BY DEF WalkInv, Blames, Top
  <2> QED BY <2>1 DEF Inside, Entries
<1> QED BY <1>1, Walks, PTL

-----------------------------------------------------------------------------
(* Paths, and file systems from which or to which one is taken or added.   *)

LEMMA Begins ==
  ASSUME NEW p \in Path, NEW k \in Nat, k <= Len(p), NEW i \in Nat, i <= k
  PROVE  /\ SubSeq(p, 1, k) \in Path /\ Len(SubSeq(p, 1, k)) = k
         /\ \A j \in 1..k : SubSeq(p, 1, k)[j] = p[j]
         /\ SubSeq(SubSeq(p, 1, k), 1, i) = SubSeq(p, 1, i)
         /\ k = Len(p) => SubSeq(p, 1, k) = p
<1>1. ASSUME NEW s \in Seq(Name), NEW n \in Nat, n <= Len(s)
      PROVE  /\ SubSeq(s, 1, n) \in Seq(Name) /\ Len(SubSeq(s, 1, n)) = n
             /\ \A j \in 1..n : SubSeq(s, 1, n)[j] = s[j]
  <2>1. 1 \in 1..(Len(s) + 1) /\ n \in (1 - 1)..Len(s) /\ n - 1 + 1 = n
        /\ \A j \in 1..n : 1 + j - 1 = j
    BY <1>1
  <2>2. /\ SubSeq(s, 1, n) \in Seq(Name)
        /\ Len(SubSeq(s, 1, n)) = IF 1 <= n THEN n - 1 + 1 ELSE 0
        /\ \A j \in 1..(n - 1 + 1) : SubSeq(s, 1, n)[j] = s[1 + j - 1]
    BY <2>1, SubSeqProperties
  <2>3. Len(SubSeq(s, 1, n)) = n
    BY <2>2
  <2> QED BY <2>1, <2>2, <2>3
<1>a. PICK t : t = SubSeq(p, 1, k)
  OBVIOUS
<1>2. t \in Seq(Name) /\ Len(t) = k /\ \A j \in 1..k : t[j] = p[j]
  BY <1>a, <1>1 DEF Path
<1>3. /\ SubSeq(t, 1, i) \in Seq(Name) /\ Len(SubSeq(t, 1, i)) = i
      /\ \A j \in 1..i : SubSeq(t, 1, i)[j] = t[j]
  BY <1>2, <1>1
<1>4. /\ SubSeq(p, 1, i) \in Seq(Name) /\ Len(SubSeq(p, 1, i)) = i
      /\ \A j \in 1..i : SubSeq(p, 1, i)[j] = p[j]
  <2>1. p \in Seq(Name) /\ i <= Len(p)
    BY DEF Path
  <2> QED BY <2>1, <1>1
<1>5. SubSeq(t, 1, i) = SubSeq(p, 1, i)
  <2>1. \A j \in 1..i : SubSeq(t, 1, i)[j] = SubSeq(p, 1, i)[j]
    BY <1>2, <1>3, <1>4
  <2> QED BY <1>3, <1>4, <2>1, SeqEqual
<1>6. k = Len(p) => t = p
  BY <1>2, SeqEqual DEF Path
<1> QED BY <1>a, <1>2, <1>5, <1>6 DEF Path

LEMMA BelowIs ==
  ASSUME NEW a \in Path, NEW b \in Path, Below(a, b), NEW p \in Path, Below(b, p)
  PROVE  Below(a, p) /\ Below(a, a)
<1>a. PICK m \in Nat, n \in Nat, l \in Nat : m = Len(a) /\ n = Len(b) /\ l = Len(p)
  BY DEF Path
<1>1. m <= n /\ n <= l /\ SubSeq(b, 1, m) = a /\ SubSeq(p, 1, n) = b
  BY <1>a DEF Below
<1>2. SubSeq(SubSeq(p, 1, n), 1, m) = SubSeq(p, 1, m)
  BY <1>a, <1>1, Begins
<1>3. SubSeq(a, 1, m) = a
  BY <1>a, Begins
<1> QED BY <1>a, <1>1, <1>2, <1>3 DEF Below

(* Of what is below a path, the name that comes next.                      *)
LEMMA NextBelow ==
  ASSUME NEW f, Tree(f), NEW q \in Path, NEW p \in DOMAIN f, Below(q, p), p # q
  PROVE  /\ Len(q) >= 1 => q \in DOMAIN f /\ f[q].kind = "dir"
         /\ \E r \in DOMAIN f : Len(r) = Len(q) + 1 /\ Below(q, r)
<1>a. PICK m \in Nat, l \in Nat : m = Len(q) /\ l = Len(p)
  BY DEF Tree, Path
<1>1. p \in Path
  BY DEF Tree
<1>2. m <= l /\ SubSeq(p, 1, m) = q
  BY <1>a DEF Below
<1>3. m < l
  <2>1. m = l => SubSeq(p, 1, m) = p
    BY <1>a, <1>1, Begins
  <2> QED BY <1>2, <2>1
<1>4. m >= 1 => q \in DOMAIN f /\ f[q].kind = "dir"
  <2>1. m >= 1 => m \in 1..(Len(p) - 1)
    BY <1>a, <1>3
  <2> QED BY <1>2, <2>1 DEF Tree
<1>5. PICK n \in Nat : n = m + 1 /\ n <= l
  BY <1>3
<1>6. PICK r : r = SubSeq(p, 1, n)
  OBVIOUS
<1>7. r \in Path /\ Len(r) = n /\ SubSeq(r, 1, m) = SubSeq(p, 1, m) /\ (n = Len(p) => r = p)
  BY <1>a, <1>1, <1>5, <1>6, Begins
<1>8. r \in DOMAIN f
  <2>1. n = Len(p) \/ n \in 1..(Len(p) - 1)
    BY <1>a, <1>5
  <2> QED BY <1>6, <1>7, <2>1 DEF Tree
<1>9. Below(q, r)
  BY <1>a, <1>2, <1>5, <1>7 DEF Below
<1> QED BY <1>a, <1>4, <1>5, <1>7, <1>8, <1>9

LEMMA TreeRemoved ==
  ASSUME NEW f, Tree(f), NEW q, NEW g, g = [p \in DOMAIN f \ {q} |-> f[p]],
         q # <<>> => \A p \in DOMAIN f : Below(q, p) => p = q
  PROVE  Tree(g)
<1>1. DOMAIN g = DOMAIN f \ {q} /\ \A p \in DOMAIN g : g[p] = f[p]
  OBVIOUS
<1>2. ASSUME NEW p \in DOMAIN g, NEW k \in 1..(Len(p) - 1)
      PROVE  SubSeq(p, 1, k) \in DOMAIN g /\ g[SubSeq(p, 1, k)].kind = "dir"
  <2>a. PICK r : r = SubSeq(p, 1, k)
    OBVIOUS
  <2>1. r \in DOMAIN f /\ f[r].kind = "dir" /\ p \in Path
    BY <1>1, <2>a DEF Tree
  <2>2. Len(p) \in Nat /\ k \in Nat /\ k <= Len(p) /\ k >= 1
    BY <2>1 DEF Path
  <2>3. Len(r) = k
    BY <2>a, <2>1, <2>2, Begins
  <2>4. r # q
    <3> SUFFICES ASSUME r = q PROVE FALSE
      OBVIOUS
    <3>1. Below(q, p)
      BY <2>a, <2>2, <2>3 DEF Below
    <3>2. q # <<>>
      BY <2>2, <2>3
    <3> QED BY <1>1, <3>1, <3>2
  <2> QED BY <1>1, <2>a, <2>1, <2>4
<1> QED BY <1>1, <1>2 DEF Tree

LEMMA TreeAdded ==
  ASSUME NEW f, Tree(f), NEW d \in DOMAIN f, f[d].kind = "dir", NEW n \in Name,
         NEW q, q = Append(d, n), q \in DOMAIN f => f[q].kind = "file",
         NEW new \in Node, NEW g, g = Put(f, q, new)
  PROVE  Tree(g)
<1>1. /\ DOMAIN g = DOMAIN f \cup {q} /\ g[q] = new
      /\ \A p \in DOMAIN f : p # q => g[p] = f[p]
  BY DEF Put
<1>2. d \in Path /\ Len(d) \in Nat
  BY DEF Tree, Path
<1>3. q \in Path /\ Len(q) = Len(d) + 1 /\ \A j \in 1..Len(d) : q[j] = d[j]
  BY <1>2 DEF Path
<1>4. ASSUME NEW p \in DOMAIN f, f[p].kind = "dir" PROVE p \in DOMAIN g /\ g[p].kind = "dir"
  BY <1>1, <1>4
<1>5. ASSUME NEW p \in DOMAIN f, NEW k \in 1..(Len(p) - 1)
      PROVE  SubSeq(p, 1, k) \in DOMAIN g /\ g[SubSeq(p, 1, k)].kind = "dir"
  BY <1>4 DEF Tree
<1>6. SubSeq(q, 1, Len(d)) = d
  <2>a. PICK m \in Nat : m = Len(d)
    BY <1>2
  <2>b. m <= Len(q) /\ m <= m
    BY <1>2, <1>3, <2>a
  <2>1. /\ SubSeq(q, 1, m) \in Path /\ Len(SubSeq(q, 1, m)) = m
        /\ \A j \in 1..m : SubSeq(q, 1, m)[j] = q[j]
    BY <1>3, <2>b, Begins
  <2> QED BY <1>2, <1>3, <2>a, <2>1, SeqEqual DEF Path
<1>7. ASSUME NEW k \in 1..(Len(q) - 1)
      PROVE  SubSeq(q, 1, k) \in DOMAIN g /\ g[SubSeq(q, 1, k)].kind = "dir"
  <2>1. k \in 1..Len(d) /\ k \in Nat
    BY <1>2, <1>3
  <2>2. CASE k = Len(d)
    BY <1>4, <1>6, <2>2
  <2>3. CASE k # Len(d)
    <3>1. k \in 1..(Len(d) - 1)
      BY <1>2, <2>1, <2>3
    <3>a. PICK m \in Nat : m = Len(d)
      BY <1>2
    <3>2. SubSeq(SubSeq(q, 1, m), 1, k) = SubSeq(q, 1, k)
      BY <1>3, <2>1, <3>a, Begins
    <3>3. SubSeq(q, 1, k) = SubSeq(d, 1, k)
      BY <1>6, <3>a, <3>2
    <3> QED BY <1>5, <3>1, <3>3
  <2> QED BY <2>2, <2>3
<1> QED BY <1>1, <1>3, <1>5, <1>7, ZenonT(40) DEF Tree

-----------------------------------------------------------------------------
(* What makes DeleteLeaves inductive: the calls under way are below what   *)
(* was asked, an errno that is not zero was trouble, and without trouble   *)
(* what is left in a directory is what it has still to read, and the       *)
(* directory of the next call.                                             *)
Left(s, f) ==
  \A k \in 1..Len(s) : \A p \in Inside(f, s[k].path) :
    p \in s[k].todo \/ (k < Len(s) /\ p = s[k + 1].path)
Under(s, a) == s # <<>> => a = s[1].path /\ \A k \in 1..Len(s) : Below(a, s[k].path)
DeleteInv ==
  /\ Tree(fs) /\ Under(stack, asked)
  /\ stack # <<>> => (errno => trouble) /\ (trouble \/ Left(stack, fs))
  /\ DeleteLeaves

LEMMA LowerIs ==
  ASSUME NEW f, NEW s, Frames(s, f), s # <<>>, NEW c, c = Lower(s)
  PROVE  /\ s \in Seq(Frame) /\ Len(s) \in Nat \ {0} /\ Len(c) = Len(s) - 1 /\ Len(c) \in Nat
         /\ (c = <<>> <=> Len(c) = 0)
         /\ \A k \in 1..Len(c) : k \in 1..Len(s) /\ c[k] = s[k] /\ k < Len(s)
<1>1. Frames(c, f) /\ Len(c) = Len(s) - 1 /\ Len(s) \in Nat \ {0}
  BY Popped
<1>2. c \in Seq(Frame) /\ s \in Seq(Frame)
  BY <1>1 DEF Frames
<1>3. ASSUME NEW k \in 1..Len(c) PROVE k \in 1..Len(s) /\ c[k] = s[k] /\ k < Len(s)
  <2>1. c[k] = s[k]
    BY <1>1, Popped
  <2> QED BY <1>1, <2>1
<1>4. c = <<>> <=> Len(c) = 0
  BY <1>2
<1> QED BY <1>1, <1>2, <1>3, <1>4

LEMMA GaveIs ==
  ASSUME NEW f, NEW s, Frames(s, f), s # <<>>, NEW p, NEW h, h = Gave(s, p)
  PROVE  /\ Frames(h, f) /\ h # <<>> /\ Len(h) = Len(s) /\ Len(s) \in Nat \ {0}
         /\ h[Len(s)].path = s[Len(s)].path /\ h[Len(s)].todo = s[Len(s)].todo \ {p}
         /\ \A k \in 1..Len(s) : h[k].path = s[k].path
         /\ \A k \in 1..Len(s) : k < Len(s) => h[k] = s[k]
<1>1. Len(s) \in Nat \ {0}
  BY DEF Frames
<1>2. Frames(h, f) /\ h # <<>> /\ Len(h) = Len(s)
  BY Given
<1>3. h[Len(h)].path = s[Len(s)].path /\ h[Len(h)].todo = s[Len(s)].todo \ {p}
  BY Given
<1>4. ASSUME NEW k \in 1..Len(s) PROVE h[k].path = s[k].path
  BY Given
<1>5. ASSUME NEW k \in 1..Len(s), k < Len(s) PROVE h[k] = s[k]
  BY <1>5, Given
<1> QED BY <1>1, <1>2, <1>3, <1>4, <1>5

LEMMA UnderLower ==
  ASSUME NEW f, NEW s, Frames(s, f), s # <<>>, NEW a, Under(s, a)
  PROVE  Under(Lower(s), a)
<1>a. PICK c : c = Lower(s)
  OBVIOUS
<1>1. /\ Len(c) \in Nat /\ (c = <<>> <=> Len(c) = 0)
      /\ \A k \in 1..Len(c) : k \in 1..Len(s) /\ c[k] = s[k] /\ k < Len(s)
  BY <1>a, LowerIs
<1>2. c # <<>> => 1 \in 1..Len(c)
  BY <1>1
<1> QED BY <1>a, <1>1, <1>2 DEF Under

LEMMA UnderGave ==
  ASSUME NEW f, NEW s, Frames(s, f), s # <<>>, NEW a, Under(s, a), NEW p
  PROVE  Under(Gave(s, p), a)
<1>a. PICK h : h = Gave(s, p)
  OBVIOUS
<1>1. Len(h) = Len(s) /\ Len(s) \in Nat \ {0} /\ \A k \in 1..Len(s) : h[k].path = s[k].path
  BY <1>a, GaveIs
<1>2. 1 \in 1..Len(s)
  BY <1>1
<1> QED BY <1>a, <1>1, <1>2 DEF Under

LEMMA UnderPushed ==
  ASSUME NEW f, NEW s, Frames(s, f), DOMAIN f \subseteq Path, s # <<>>, NEW a, Under(s, a),
         NEW p \in Inside(f, s[Len(s)].path), NEW todo
  PROVE  Under(Append(s, [path |-> p, todo |-> todo]), a)
<1>a. PICK last : last = [path |-> p, todo |-> todo]
  OBVIOUS
<1>b. PICK t : t = Append(s, last)
  OBVIOUS
<1>1. s \in Seq(Frame) /\ Len(s) \in Nat \ {0} /\ 1 \in 1..Len(s) /\ Len(s) \in 1..Len(s)
  BY DEF Frames
<1>2. Len(t) = Len(s) + 1 /\ t[Len(s) + 1] = last /\ \A k \in 1..Len(s) : t[k] = s[k]
  BY <1>b, <1>1
<1>3. s[Len(s)].path \in Path /\ a \in Path /\ p \in Path
  <2>1. s[1] \in Frame /\ s[Len(s)] \in Frame
    BY <1>1
  <2>2. s[1].path \in Path /\ s[Len(s)].path \in Path
    BY <2>1 DEF Frame
  <2>3. p \in Path
    BY DEF Inside
  <2> QED BY <2>2, <2>3 DEF Under
<1>4. Below(a, s[Len(s)].path) /\ Below(s[Len(s)].path, p)
  BY <1>1 DEF Under, Inside
<1>5. Below(a, p)
  BY <1>3, <1>4, BelowIs
<1>6. last.path = p
  BY <1>a
<1>7. a = t[1].path
  BY <1>1, <1>2 DEF Under
<1>8. ASSUME NEW k \in 1..Len(t) PROVE Below(a, t[k].path)
  <2>1. k = Len(s) + 1 \/ k \in 1..Len(s)
    BY <1>1, <1>2
  <2> QED BY <1>2, <1>5, <1>6, <2>1 DEF Under
<1>9. Under(t, a)
  BY <1>7, <1>8 DEF Under
<1> QED BY <1>a, <1>b, <1>9

LEMMA LeftPushed ==
  ASSUME NEW f, NEW s, Frames(s, f), s # <<>>, Left(s, f), NEW p
  PROVE  Left(Append(Gave(s, p), [path |-> p, todo |-> Inside(f, p)]), f)
<1>a. PICK last : last = [path |-> p, todo |-> Inside(f, p)]
  OBVIOUS
<1>b. PICK h : h = Gave(s, p)
  OBVIOUS
<1>c. PICK t : t = Append(h, last)
  OBVIOUS
<1>1. /\ Frames(h, f) /\ Len(h) = Len(s) /\ Len(s) \in Nat \ {0}
      /\ h[Len(s)].todo = s[Len(s)].todo \ {p}
      /\ \A k \in 1..Len(s) : h[k].path = s[k].path
      /\ \A k \in 1..Len(s) : k < Len(s) => h[k] = s[k]
  BY <1>b, GaveIs
<1>2. h \in Seq(Frame)
  BY <1>1 DEF Frames
<1>3. Len(t) = Len(s) + 1 /\ t[Len(s) + 1] = last /\ \A k \in 1..Len(s) : t[k] = h[k]
  BY <1>c, <1>1, <1>2
<1>4. last.path = p /\ last.todo = Inside(f, p)
  BY <1>a
<1>5. ASSUME NEW k \in 1..Len(t), NEW q \in Inside(f, t[k].path)
      PROVE  q \in t[k].todo \/ (k < Len(t) /\ q = t[k + 1].path)
  <2>1. CASE k = Len(s) + 1
    BY <1>3, <1>4, <2>1
  <2>2. CASE k \in 1..Len(s)
    <3>1. t[k] = h[k] /\ h[k].path = s[k].path
      BY <1>1, <1>3, <2>2
    <3>2. q \in s[k].todo \/ (k < Len(s) /\ q = s[k + 1].path)
      BY <2>2, <3>1 DEF Left
    <3>3. CASE k < Len(s)
      <4>1. k + 1 \in 1..Len(s) /\ h[k] = s[k]
        BY <1>1, <2>2, <3>3
      <4>2. t[k + 1].path = s[k + 1].path
        BY <1>1, <1>3, <4>1
      <4> QED BY <1>1, <1>3, <2>2, <3>1, <3>2, <4>1, <4>2
    <3>4. CASE k = Len(s)
      <4>1. q \in s[k].todo
        BY <3>2, <3>4
      <4>2. q \in t[k].todo \/ q = p
        BY <1>1, <3>1, <3>4, <4>1
      <4>3. t[k + 1].path = p /\ k < Len(t)
        BY <1>1, <1>3, <1>4, <3>4
      <4> QED BY <4>2, <4>3
    <3> QED BY <1>1, <2>2, <3>3, <3>4
  <2> QED BY <1>1, <1>3, <2>1, <2>2
<1> QED BY <1>a, <1>b, <1>c, <1>5 DEF Left

LEMMA LeftGave ==
  ASSUME NEW f, NEW s, Frames(s, f), s # <<>>, Left(s, f), NEW p,
         NEW g, g = [r \in DOMAIN f \ {p} |-> f[r]]
  PROVE  Left(Gave(s, p), g)
<1>b. PICK h : h = Gave(s, p)
  OBVIOUS
<1>1. /\ Len(h) = Len(s) /\ Len(s) \in Nat \ {0}
      /\ h[Len(s)].todo = s[Len(s)].todo \ {p}
      /\ \A k \in 1..Len(s) : h[k].path = s[k].path
      /\ \A k \in 1..Len(s) : k < Len(s) => h[k] = s[k]
  BY <1>b, GaveIs
<1>2. ASSUME NEW k \in 1..Len(h), NEW q \in Inside(g, h[k].path)
      PROVE  q \in h[k].todo \/ (k < Len(h) /\ q = h[k + 1].path)
  <2>1. q # p /\ q \in Inside(f, s[k].path)
    BY <1>1 DEF Inside
  <2>2. q \in s[k].todo \/ (k < Len(s) /\ q = s[k + 1].path)
    BY <1>1, <2>1 DEF Left
  <2>3. CASE k < Len(s)
    <3>1. k + 1 \in 1..Len(s) /\ h[k] = s[k]
      BY <1>1, <2>3
    <3> QED BY <1>1, <2>2, <2>3, <3>1
  <2>4. CASE k = Len(s)
    BY <1>1, <2>1, <2>2, <2>4
  <2> QED BY <1>1, <2>3, <2>4
<1> QED BY <1>b, <1>2 DEF Left

LEMMA LeftLower ==
  ASSUME NEW f, NEW s, Frames(s, f), s # <<>>, Left(s, f),
         NEW g, g = [r \in DOMAIN f \ {s[Len(s)].path} |-> f[r]]
  PROVE  Left(Lower(s), g)
<1>a. PICK c : c = Lower(s)
  OBVIOUS
<1>1. /\ Len(s) \in Nat \ {0} /\ Len(c) = Len(s) - 1
      /\ \A k \in 1..Len(c) : k \in 1..Len(s) /\ c[k] = s[k] /\ k < Len(s)
  BY <1>a, LowerIs
<1>2. ASSUME NEW k \in 1..Len(c), NEW q \in Inside(g, c[k].path)
      PROVE  q \in c[k].todo \/ (k < Len(c) /\ q = c[k + 1].path)
  <2>1. q # s[Len(s)].path /\ q \in Inside(f, s[k].path) /\ k \in 1..Len(s) /\ c[k] = s[k]
    BY <1>1 DEF Inside
  <2>2. q \in s[k].todo \/ (k < Len(s) /\ q = s[k + 1].path)
    BY <2>1 DEF Left
  <2>3. CASE k = Len(c)
    <3>1. k + 1 = Len(s)
      BY <1>1, <2>3
    <3> QED BY <2>1, <2>2, <3>1
  <2>4. CASE k < Len(c)
    <3>1. k + 1 \in 1..Len(c)
      BY <1>1, <2>4
    <3> QED BY <1>1, <2>1, <2>2, <2>4, <3>1
  <2> QED BY <1>1, <2>3, <2>4
<1> QED BY <1>a, <1>2 DEF Left

(* A call that fails, and one that opens a directory or does not.          *)
LEMMA FailedLeaves ==
  ASSUME WalkInv, DeleteInv, stack # <<>>, Return(Callers, FALSE), fs' = fs, asked' = asked,
         trouble'
  PROVE  DeleteInv'
<1>1. Callers = Lower(stack) /\ Frames(stack, fs)
  BY DEF Callers, Lower, WalkInv
<1>2. Tree(fs') /\ Under(stack', asked')
  BY <1>1, UnderLower DEF DeleteInv, Return
<1>3. DeleteLeaves'
  <2> SUFFICES ASSUME stack' = <<>>
               PROVE  reply' = 500 /\ asked' \in DOMAIN fs'
    BY DEF DeleteLeaves
  <2>1. reply' = 500
    BY DEF Return
  <2>2. 1 \in 1..Len(stack)
    BY <1>1 DEF Frames
  <2>3. asked = stack[1].path /\ stack[1].path \in DOMAIN fs
    BY <1>1, <2>2 DEF DeleteInv, Under, Frames
  <2> QED BY <2>1, <2>3
<1> QED BY <1>2, <1>3 DEF DeleteInv

LEMMA OpenedLeaves ==
  ASSUME WalkInv, DeleteInv, stack # <<>>, NEW p \in Top.todo, opendir(p, Gave(stack, p)),
         fs' = fs, asked' = asked
  PROVE  DeleteInv'
<1>a. PICK h : h = Gave(stack, p)
  OBVIOUS
<1>1. Frames(stack, fs) /\ DOMAIN fs \subseteq Path /\ Len(stack) \in 1..Len(stack)
  <2>1. Frames(stack, fs) /\ DOMAIN fs \subseteq Path
    BY DEF WalkInv
  <2>2. stack \in Seq(Frame)
    BY <2>1 DEF Frames
  <2>3. Len(stack) \in 1..Len(stack)
    BY <2>2
  <2> QED BY <2>1, <2>3
<1>2. /\ Frames(h, fs) /\ h # <<>> /\ Len(h) = Len(stack) /\ h[Len(stack)].path = stack[Len(stack)].path
  BY <1>a, <1>1, GaveIs
<1>3. Under(h, asked)
  BY <1>a, <1>1, UnderGave DEF DeleteInv
<1>4. p \in Inside(fs, stack[Len(stack)].path)
  BY <1>1 DEF Frames, Top
<1>5. Tree(fs')
  BY DEF DeleteInv
<1>6. CASE /\ errno' = Reset /\ stack' = Append(h, [path |-> p, todo |-> Entries(p)])
           /\ trouble' = (h # <<>> /\ trouble)
  <2>1. Entries(p) = Inside(fs, p)
    BY DEF Entries, Inside
  <2>2. p \in Inside(fs, h[Len(h)].path)
    BY <1>2, <1>4
  <2>3. Under(stack', asked')
    BY <1>1, <1>2, <1>3, <1>6, <2>2, UnderPushed
  <2>4. trouble => trouble'
    BY <1>2, <1>6, Zenon
  <2>5. Left(stack, fs) => Left(stack', fs')
    BY <1>a, <1>1, <1>6, <2>1, LeftPushed
  <2>6. stack' # <<>> /\ ~errno'
    <3>1. h \in Seq(Frame) /\ [path |-> p, todo |-> Entries(p)] \in Frame
      BY <1>1, <1>2, <1>4 DEF Frames, Frame, Inside, Entries
    <3> QED BY <1>6, <3>1 DEF Reset
  <2> QED BY <1>5, <2>3, <2>4, <2>5, <2>6 DEF DeleteInv, DeleteLeaves
<1>7. CASE trouble' = TRUE /\ stack' = h
  BY <1>2, <1>3, <1>5, <1>7 DEF DeleteInv, DeleteLeaves
<1> QED BY <1>a, <1>6, <1>7 DEF opendir, Return

LEMMA ReaddirLeaves ==
  ASSUME WalkInv, DeleteInv, stack # <<>>, NEW p \in Top.todo, readdir(p), asked' = asked
  PROVE  DeleteInv'
<1>a. PICK h : h = Gave(stack, p)
  OBVIOUS
<1>b. h = Append(Callers, [Top EXCEPT !.todo = @ \ {p}])
  BY <1>a DEF Gave, Lower, Callers, Top
<1>1. Frames(stack, fs) /\ DOMAIN fs \subseteq Path /\ Len(stack) \in 1..Len(stack)
  BY DEF WalkInv, Frames
<1>2. h # <<>> /\ Under(h, asked)
  BY <1>a, <1>1, UnderGave, GaveIs DEF DeleteInv
<1>3. CASE opendir(p, h) /\ UNCHANGED fs
  BY <1>a, <1>3, OpenedLeaves
<1>4. CASE fs[p].kind = "file" /\ unlink(p) /\ stack' = h /\ errno' = errno /\ trouble' = trouble
  <2>1. fs' = [r \in DOMAIN fs \ {p} |-> fs[r]]
    BY <1>4 DEF unlink
  <2>2. p \in DOMAIN fs /\ p \in Path /\ Len(p) >= 1
    <3>1. p \in Inside(fs, Top.path) /\ Top.path \in Path
      BY <1>1 DEF Frames, Top
    <3>2. Len(p) = Len(Top.path) + 1 /\ Len(Top.path) \in Nat
      BY <3>1 DEF Inside, Path
    <3> QED BY <1>1, <3>1, <3>2 DEF Inside
  <2>3. \A r \in DOMAIN fs : Below(p, r) => r = p
    BY <1>4, <2>2, NextBelow DEF DeleteInv
  <2>4. Tree(fs')
    BY <2>1, <2>3, TreeRemoved DEF DeleteInv
  <2>5. Left(stack, fs) => Left(h, fs')
    BY <1>a, <1>1, <2>1, LeftGave
  <2> QED BY <1>2, <1>4, <2>4, <2>5 DEF DeleteInv, DeleteLeaves
<1>5. CASE trouble' = TRUE /\ Return(Callers, FALSE) /\ UNCHANGED fs
  BY <1>5, FailedLeaves
<1>6. CASE stack' = h /\ trouble' = TRUE /\ UNCHANGED fs
  BY <1>2, <1>6 DEF DeleteInv, DeleteLeaves
<1> QED BY <1>b, <1>3, <1>4, <1>5, <1>6 DEF readdir

LEMMA RmdirLeaves ==
  ASSUME WalkInv, DeleteInv, stack # <<>>, rmdir, asked' = asked
  PROVE  DeleteInv'
<1>1. /\ Frames(stack, fs) /\ Len(stack) \in 1..Len(stack) /\ 1 \in 1..Len(stack)
      /\ DOMAIN fs \subseteq Path
  BY DEF WalkInv, Frames
<1>2. Top.path \in DOMAIN fs /\ Top.path \in Path
  BY <1>1 DEF Frames, Top
<1>3. Entries(Top.path) = Inside(fs, Top.path)
  BY DEF Entries, Inside
<1>4. CASE errno /\ Return(Callers, FALSE) /\ UNCHANGED <<fs, errno, trouble>>
  <2>1. trouble'
    BY <1>4, Zenon DEF DeleteInv
  <2> QED BY <1>4, <2>1, FailedLeaves
<1>5. CASE /\ ~errno /\ Entries(Top.path) = {} /\ unlink(Top.path)
           /\ Return(Callers, TRUE) /\ UNCHANGED <<errno, trouble>>
  <2>1. fs' = [r \in DOMAIN fs \ {Top.path} |-> fs[r]]
    BY <1>5 DEF unlink
  <2>2. \A r \in DOMAIN fs : Below(Top.path, r) => r = Top.path
    <3> SUFFICES ASSUME NEW r \in DOMAIN fs, Below(Top.path, r), r # Top.path PROVE FALSE
      OBVIOUS
    <3>1. \E e \in DOMAIN fs : Len(e) = Len(Top.path) + 1 /\ Below(Top.path, e)
      BY <1>2, NextBelow DEF DeleteInv
    <3> QED BY <1>5, <3>1 DEF Entries
  <2>3. Tree(fs')
    BY <2>1, <2>2, TreeRemoved DEF DeleteInv
  <2>4. Callers = Lower(stack) /\ stack' = Callers
    BY <1>5 DEF Callers, Lower, Return
  <2>5. Under(stack', asked')
    BY <1>1, <2>4, UnderLower DEF DeleteInv
  <2>6. Left(stack, fs) => Left(stack', fs')
    BY <1>1, <2>1, <2>4, LeftLower DEF Top
  <2>7. DeleteLeaves'
    <3> SUFFICES ASSUME stack' = <<>>
                 PROVE  reply' = 205 /\ \A r \in DOMAIN fs' : ~Below(asked', r)
      BY DEF DeleteLeaves
    <3>1. reply' = 205
      BY <1>5, <2>4 DEF Return
    <3>2. Len(stack) = 1
      <4>1. Len(stack') = 0 /\ Len(stack') = Len(stack) - 1 /\ Len(stack) \in Nat
        BY <1>1, <2>4, LowerIs
      <4> QED BY <4>1
    <3>3. asked = Top.path
      BY <3>2 DEF DeleteInv, Under, Top
    <3>4. \A r \in DOMAIN fs' : r \in DOMAIN fs /\ r # Top.path
      BY <2>1
    <3> QED BY <2>2, <3>1, <3>3, <3>4
  <2> QED BY <1>5, <2>3, <2>5, <2>6, <2>7 DEF DeleteInv
<1>6. CASE /\ Top.todo = {} /\ trouble' = (trouble \/ Entries(Top.path) = {})
           /\ Return(Callers, FALSE) /\ UNCHANGED fs
  <2>1. trouble \/ Entries(Top.path) = {}
    <3> SUFFICES ASSUME ~trouble, NEW r \in Entries(Top.path) PROVE FALSE
      OBVIOUS
    <3>1. Left(stack, fs)
      BY DEF DeleteInv
    <3>2. r \in Top.todo \/ Len(stack) < Len(stack)
      BY <1>1, <1>3, <3>1 DEF Left, Top
    <3> QED BY <1>1, <1>6, <3>2
  <2>2. trouble'
    BY <1>6, <2>1, Zenon
  <2> QED BY <1>6, <2>2, FailedLeaves
<1> QED BY <1>4, <1>5, <1>6 DEF rmdir

LEMMA DeleteStarts ==
  ASSUME WalkInv, DeleteInv, NEW path \in DOMAIN fs, Delete(path)
  PROVE  DeleteInv'
<1>1. stack = <<>> /\ fs[path].kind # "other"
  BY DEF Delete
<1>2. Tree(fs) /\ path \in Path
  BY DEF DeleteInv, Tree
<1>3. CASE asked' = <<>> /\ UNCHANGED <<fs, stack>>
  BY <1>1, <1>2, <1>3 DEF DeleteInv, DeleteLeaves, Under
<1>4. CASE fs[path].kind = "file" /\ asked' = path /\ stack' = stack /\ unlink(path) /\ reply' = 205
  <2>1. fs' = [r \in DOMAIN fs \ {path} |-> fs[r]]
    BY <1>4 DEF unlink
  <2>2. path # <<>> => \A r \in DOMAIN fs : Below(path, r) => r = path
    <3>1. path # <<>> => Len(path) >= 1
      BY <1>2 DEF Path
    <3> QED BY <1>2, <1>4, <3>1, NextBelow
  <2>3. Tree(fs')
    BY <1>2, <2>1, <2>2, TreeRemoved
  <2>4. \A r \in DOMAIN fs' : r \in DOMAIN fs /\ r # path
    BY <2>1
  <2> QED BY <1>1, <1>4, <2>2, <2>3, <2>4 DEF DeleteInv, DeleteLeaves, Under
<1>5. CASE reply' = 500 /\ trouble' = TRUE /\ asked' = path /\ UNCHANGED <<fs, stack>>
  BY <1>1, <1>2, <1>5 DEF DeleteInv, DeleteLeaves, Under
<1>6. CASE asked' = path /\ opendir(path, <<>>) /\ UNCHANGED fs
  <2>1. CASE errno' = Reset /\ stack' = Append(<<>>, [path |-> path, todo |-> Entries(path)])
    <3>a. PICK last : last = [path |-> path, todo |-> Entries(path)]
      OBVIOUS
    <3>1. stack' = <<last>> /\ Len(stack') = 1 /\ stack'[1] = last
      BY <2>1, <3>a
    <3>2. last.path = path /\ last.todo = Inside(fs, path)
      BY <3>a DEF Entries, Inside
    <3>3. Left(stack', fs')
      BY <1>6, <3>1, <3>2 DEF Left
    <3>4. Below(path, path)
      <4>a. PICK n \in Nat : n = Len(path)
        BY <1>2 DEF Path
      <4>1. SubSeq(path, 1, n) = path
        BY <1>2, <4>a, Begins
      <4> QED BY <4>a, <4>1 DEF Below
    <3>5. Under(stack', asked')
      BY <1>6, <3>1, <3>2, <3>4 DEF Under
    <3>6. stack' # <<>> /\ ~errno'
      BY <2>1, <3>1 DEF Reset
    <3> QED BY <1>2, <1>6, <3>3, <3>5, <3>6 DEF DeleteInv, DeleteLeaves
  <2>2. CASE trouble' = TRUE /\ stack' = <<>> /\ reply' = 500
    BY <1>2, <1>6, <2>2 DEF DeleteInv, DeleteLeaves, Under
  <2> QED BY <1>6, <2>1, <2>2 DEF opendir, Return
<1> QED BY <1>3, <1>4, <1>5, <1>6 DEF Delete, Accept

LEMMA UploadLeaves ==
  ASSUME WalkInv, DeleteInv, NEW file \in Filenames, NEW now \in Seconds, uploadFile(file, now)
  PROVE  DeleteInv'
<1>1. stack' = <<>> /\ asked' = <<>> /\ Tree(fs)
  BY DEF uploadFile, DeleteInv
<1>2. Tree(fs')
  <2>1. ASSUME NEW n \in Name, NEW new \in Node, Opens(file, now, n, new) PROVE Tree(fs')
    <3>1. /\ Folder \in DOMAIN fs /\ fs[Folder].kind = "dir" /\ ofs' = Append(Folder, n)
          /\ ofs' \in DOMAIN fs => fs[ofs'].kind = "file"
          /\ fs' = Put(fs, ofs', new)
      BY <2>1, Zenon DEF Opens
    <3> QED BY <1>1, <3>1, TreeAdded, Zenon
  <2>2. CASE UNCHANGED fs
    BY <1>1, <2>2
  <2> QED BY <2>1, <2>2, UploadIs
<1> QED BY <1>1, <1>2 DEF DeleteInv, DeleteLeaves, Under

LEMMA WriteLeaves ==
  ASSUME WalkInv, DeleteInv, write
  PROVE  DeleteInv'
<1>1. OfsInv /\ Tree(fs)
  BY DEF WalkInv, DeleteInv
<1>2. /\ stack = <<>> /\ asked = <<>> /\ ofs \in DOMAIN fs /\ DOMAIN fs' = DOMAIN fs
      /\ fs'[ofs] \in Node /\ fs'[ofs].kind = "file" /\ fs[ofs].kind = "file"
      /\ \A p \in DOMAIN fs : p # ofs => fs'[p] = fs[p]
  BY <1>1, WriteIs DEF OfsInv, write
<1>3. \A p \in DOMAIN fs : fs'[p] \in Node /\ fs'[p].kind = fs[p].kind
  BY <1>1, <1>2 DEF Tree
<1>4. Tree(fs')
  BY <1>1, <1>2, <1>3 DEF Tree
<1>5. stack' = <<>> /\ asked' = <<>>
  BY <1>2 DEF write
<1> QED BY <1>4, <1>5 DEF DeleteInv, DeleteLeaves, Under

LEMMA DeleteStep ==
  ASSUME WalkInv, DeleteInv, [Next]_vars
  PROVE  DeleteInv'
<1>1. ASSUME UNCHANGED <<fs, stack, reply, asked, trouble>>, stack = <<>> \/ errno' = errno
      PROVE  DeleteInv'
  BY <1>1 DEF DeleteInv, DeleteLeaves, Under, Left
<1>2. CASE deleteRecursive
  <2>1. stack # <<>> /\ asked' = asked
    BY <1>2 DEF deleteRecursive
  <2>2. CASE readdir_fails
    <3>1. trouble'
      BY <2>2 DEF readdir_fails
    <3> QED BY <2>1, <2>2, <3>1, FailedLeaves DEF readdir_fails
  <2> QED BY <1>2, <2>1, <2>2, ReaddirLeaves, RmdirLeaves DEF deleteRecursive
<1>3. CASE close_upload
  <2>1. stack' = <<>> /\ asked' = <<>> /\ fs' = fs
    BY <1>3 DEF close_upload, WalkInv, OfsInv
  <2> QED BY <2>1 DEF DeleteInv, DeleteLeaves, Under
<1>4. CASE Elsewhere
  BY <1>1, <1>4 DEF Elsewhere
<1>5. CASE Restart
  BY <1>5 DEF Restart, DeleteInv, DeleteLeaves, Under
<1>6. CASE UNCHANGED vars
  BY <1>1, <1>6 DEF vars
<1> QED BY <1>2, <1>3, <1>4, <1>5, <1>6, DeleteStarts, UploadLeaves, WriteLeaves DEF Next

LEMMA Deletes == Spec => []DeleteInv
<1>1. Init => DeleteInv
  BY FilesAssumption DEF Init, DeleteInv, DeleteLeaves, Under
<1>2. WalkInv /\ DeleteInv /\ [Next]_vars => DeleteInv'
  BY DeleteStep
<1> QED BY <1>1, <1>2, Walks, PTL DEF Spec

(* For any tree, any calls that fail and any new starts: a DELETE that     *)
(* succeeds leaves nothing of what was named, and one that fails leaves at *)
(* least that and has met trouble (Handler.cpp 322-342, 344-384).          *)
THEOREM DeletesWhole == Spec => []DeleteLeaves
<1>1. DeleteInv => DeleteLeaves
  BY DEF DeleteInv
<1> QED BY <1>1, Deletes, PTL

-----------------------------------------------------------------------------
(* The kinds of the values that are left, and the directories that are     *)
(* open.                                                                   *)
BoolInv == errno \in BOOLEAN /\ trouble \in BOOLEAN
RestInv ==
  /\ old \in Seconds \cup {0} /\ lost \in Nat
  /\ reply \in {0, 201, 205, 403, 500} /\ asked \in Path /\ ofs \in Path
  /\ open = Len(stack) + lost

LEMMA BoolStep == BoolInv /\ [Next]_vars => BoolInv'
<1> SUFFICES ASSUME BoolInv, [Next]_vars PROVE BoolInv'
  OBVIOUS
<1>1. ASSUME NEW path, NEW callers, opendir(path, callers) PROVE BoolInv'
  <2>1. errno' \in BOOLEAN
    BY <1>1, Zenon DEF opendir, Reset
  <2>2. trouble' \in BOOLEAN
    BY <1>1, Zenon DEF opendir
  <2> QED BY <2>1, <2>2, Zenon DEF BoolInv
<1>2. ASSUME NEW file, NEW now, uploadFile(file, now) PROVE BoolInv'
  BY <1>2, Zenon DEF uploadFile, BoolInv
<1>3. ASSUME NEW path \in DOMAIN fs, Delete(path) PROVE BoolInv'
  BY <1>1, <1>3, Zenon DEF Delete, BoolInv
<1>4. CASE deleteRecursive
  <2>1. ASSUME NEW p \in Top.todo, readdir(p) PROVE BoolInv'
    BY <1>1, <2>1, Zenon DEF readdir, BoolInv
  <2>2. CASE readdir_fails
    BY <2>2, Zenon DEF readdir_fails, BoolInv
  <2>3. CASE rmdir
    BY <2>3, Zenon DEF rmdir, BoolInv
  <2> QED BY <1>4, <2>1, <2>2, <2>3 DEF deleteRecursive
<1>5. CASE write \/ close_upload
  BY <1>5, Zenon DEF write, close_upload, BoolInv
<1>6. CASE Elsewhere
  BY <1>6, Zenon DEF Elsewhere, BoolInv
<1>7. CASE Restart
  BY <1>7, Zenon DEF Restart, BoolInv
<1>8. CASE UNCHANGED vars
  BY <1>8, Zenon DEF vars, BoolInv
<1> QED BY <1>2, <1>3, <1>4, <1>5, <1>6, <1>7, <1>8 DEF Next

(* A deletion opens a directory for each call, and closes it or loses it.  *)
LEMMA RestWalks ==
  ASSUME WalkInv, RestInv, deleteRecursive
  PROVE  RestInv'
<1>1. stack # <<>> /\ Frames(stack, fs) /\ UNCHANGED <<old, asked, ofs>>
  BY DEF deleteRecursive, WalkInv
<1>2. Callers = Lower(stack)
  BY DEF Callers, Lower
<1>3. Len(stack) \in Nat \ {0} /\ Len(Callers) = Len(stack) - 1
  BY <1>1, <1>2, LowerIs
<1>4. reply' \in {0, 201, 205, 403, 500}
  <2>1. ASSUME NEW callers, NEW ok, Return(callers, ok) PROVE reply' \in {reply, 205, 500}
    BY <2>1 DEF Return
  <2>2. ASSUME NEW p, NEW callers, opendir(p, callers) PROVE reply' \in {reply, 0, 205, 500}
    BY <2>1, <2>2 DEF opendir
  <2>3. ASSUME NEW p \in Top.todo, readdir(p) PROVE reply' \in {reply, 0, 205, 500}
    BY <2>1, <2>2, <2>3 DEF readdir
  <2>4. ASSUME readdir_fails PROVE reply' \in {reply, 0, 205, 500}
    <3>1. Return(Callers, FALSE)
      BY <2>4, Zenon DEF readdir_fails
    <3> QED BY <3>1, Zenon DEF Return
  <2>5. ASSUME rmdir PROVE reply' \in {reply, 0, 205, 500}
    <3>1. Return(Callers, FALSE) \/ Return(Callers, TRUE)
      BY <2>5, Zenon DEF rmdir
    <3>2. reply' = reply \/ reply' = 205 \/ reply' = 500
      BY <3>1, Zenon DEF Return
    <3> QED BY <3>2
  <2>6. (\E p \in Top.todo : readdir(p)) \/ readdir_fails \/ rmdir
    BY DEF deleteRecursive
  <2>7. reply' \in {reply, 0, 205, 500}
    BY <2>3, <2>4, <2>5, <2>6, Zenon
  <2> QED BY <2>7 DEF RestInv
<1>5. open' = Len(stack') + lost' /\ lost' \in Nat
  <2>1. ASSUME NEW p \in Top.todo, readdir(p) PROVE open' = Len(stack') + lost' /\ lost' \in Nat
    <3>a. PICK h : h = Gave(stack, p)
      OBVIOUS
    <3>b. h = Append(Callers, [Top EXCEPT !.todo = @ \ {p}])
      BY <3>a DEF Gave, Lower, Callers, Top
    <3>1. Len(h) = Len(stack) /\ h \in Seq(Frame)
      <4>1. Frames(h, fs) /\ Len(h) = Len(stack)
        BY <1>1, <3>a, GaveIs
      <4> QED BY <4>1 DEF Frames
    <3>2. CASE opendir(p, h) /\ lost' = lost
      <4>1. CASE open' = open + 1 /\ stack' = Append(h, [path |-> p, todo |-> Entries(p)])
        <5>1. Len(stack') = Len(h) + 1
          BY <3>1, <4>1
        <5>2. open = Len(stack) + lost /\ lost \in Nat
          BY DEF RestInv
        <5>3. open' = open + 1 /\ lost' = lost
          BY <3>2, <4>1, Zenon
        <5> QED BY <1>3, <3>1, <5>1, <5>2, <5>3
      <4>2. CASE open' = open /\ stack' = h
        BY <1>3, <3>1, <3>2, <4>2 DEF RestInv
      <4> QED BY <3>2, <4>1, <4>2 DEF opendir, Return
    <3>3. CASE open' = open /\ stack' = h /\ lost' = lost
      BY <1>3, <3>1, <3>3 DEF RestInv
    <3>4. CASE open' = open /\ stack' = Callers /\ lost' = lost + 1
      BY <1>3, <3>4 DEF RestInv
    <3> QED BY <2>1, <3>b, <3>2, <3>3, <3>4 DEF readdir, Return
  <2>2. CASE open' = open - 1 /\ stack' = Callers /\ lost' = lost
    BY <1>3, <2>2 DEF RestInv
  <2>3. (\E p \in Top.todo : readdir(p)) \/ (open' = open - 1 /\ stack' = Callers /\ lost' = lost)
    BY DEF deleteRecursive, readdir_fails, rmdir, Return, closedir
  <2> QED BY <2>1, <2>2, <2>3
<1> QED BY <1>1, <1>4, <1>5 DEF RestInv

LEMMA RestStep ==
  ASSUME WalkInv, RestInv, [Next]_vars
  PROVE  RestInv'
<1>1. ASSUME UNCHANGED <<old, stack, reply, asked, ofs, open, lost>> PROVE RestInv'
  BY <1>1 DEF RestInv
<1>e. <<>> \in Path /\ Len(<<>>) = 0
  BY DEF Path
<1>2. ASSUME NEW file \in Filenames, NEW now \in Seconds, uploadFile(file, now) PROVE RestInv'
  <2>1. UNCHANGED <<stack, open, lost>> /\ asked' = <<>> /\ reply' \in {0, 201, 205, 403, 500}
    BY <1>2 DEF uploadFile
  <2>2. old' \in {old, now}
    BY <1>2 DEF uploadFile, UseStamp
  <2>3. ofs' \in Path
    <3>1. CASE UNCHANGED ofs
      BY <3>1 DEF RestInv
    <3>2. ASSUME NEW n \in Name, NEW new \in Node, Opens(file, now, n, new) PROVE ofs' \in Path
      BY <3>2, FilesAssumption DEF Opens, Path
    <3> QED BY <1>2, <3>1, <3>2, UploadIs
  <2> QED BY <1>e, <2>1, <2>2, <2>3 DEF RestInv
<1>3. ASSUME NEW path \in DOMAIN fs, Delete(path) PROVE RestInv'
  <2>1. UNCHANGED <<old, ofs, lost>> /\ stack = <<>> /\ asked' \in Path
    BY <1>3, <1>e DEF Delete, Accept, WalkInv
  <2>2. reply' \in {0, 201, 205, 403, 500}
    BY <1>3 DEF Delete, opendir, Return
  <2>3. \/ UNCHANGED <<stack, open>>
        \/ open' = open + 1 /\ stack' = Append(<<>>, [path |-> path, todo |-> Entries(path)])
        \/ open' = open /\ stack' = <<>>
    BY <1>3 DEF Delete, opendir, Return
  <2>4. open' = Len(stack') + lost'
    <3>1. CASE UNCHANGED <<stack, open>>
      BY <2>1, <3>1 DEF RestInv
    <3>2. CASE open' = open /\ stack' = <<>>
      BY <2>1, <3>2 DEF RestInv
    <3>3. CASE open' = open + 1 /\ stack' = Append(<<>>, [path |-> path, todo |-> Entries(path)])
      <4>1. Len(stack') = 1 /\ Len(stack) = 0
        BY <2>1, <3>3
      <4> QED BY <2>1, <3>3, <4>1 DEF RestInv
    <3> QED BY <2>3, <3>1, <3>2, <3>3
  <2> QED BY <2>1, <2>2, <2>4 DEF RestInv
<1>4. CASE write
  BY <1>1, <1>4 DEF write
<1>8. CASE close_upload
  BY <1>e, <1>8 DEF close_upload, Leave, RestInv
<1>5. CASE Elsewhere
  BY <1>1, <1>5 DEF Elsewhere
<1>6. CASE Restart
  BY <1>e, <1>6 DEF Restart, Leave, RestInv
<1>7. CASE UNCHANGED vars
  BY <1>1, <1>7 DEF vars
<1> QED BY <1>2, <1>3, <1>4, <1>5, <1>6, <1>7, <1>8, RestWalks DEF Next

(* Every variable has values of its kind, and every directory that is open *)
(* is one of a call under way or was lost by an unlink that failed         *)
(* (Handler.cpp 360-363, 371, 377).                                        *)
THEOREM FilesTypeCorrect == Spec => []TypeOK
<1>1. Init => BoolInv /\ RestInv
  <2> SUFFICES ASSUME Init PROVE BoolInv /\ RestInv
    OBVIOUS
  <2>1. BoolInv
    BY Zenon DEF Init, BoolInv
  <2>2. <<>> \in Path /\ Len(<<>>) = 0
    BY DEF Path
  <2>3. RestInv
    BY <2>2 DEF Init, RestInv
  <2> QED BY <2>1, <2>3
<1>2. WalkInv /\ RestInv /\ [Next]_vars => RestInv'
  BY RestStep
<1>3. WalkInv /\ DeleteInv /\ BoolInv /\ RestInv => TypeOK
  <2> SUFFICES ASSUME WalkInv, DeleteInv, BoolInv, RestInv PROVE TypeOK
    OBVIOUS
  <2>1. count \in Nat
    BY DEF WalkInv, StampsInv, ClockInv
  <2>2. stamps \in Seq([text : Seq(Nat), second : Seconds, run : 1..run])
    <3>1. /\ stamps \in Seq(StampRec) /\ run \in Nat
          /\ \A i \in 1..Len(stamps) : stamps[i].run <= run
      BY DEF WalkInv, StampsInv, ClockInv
    <3>2. ASSUME NEW i \in 1..Len(stamps)
          PROVE  stamps[i] \in [text : Seq(Nat), second : Seconds, run : 1..run]
      <4>1. stamps[i] \in StampRec /\ stamps[i].run <= run
        BY <3>1
      <4>a. PICK s : s = stamps[i]
        OBVIOUS
      <4>2. s = [text |-> s.text, second |-> s.second, run |-> s.run]
            /\ s.text \in Seq(Nat) /\ s.second \in Seconds /\ s.run \in Nat \ {0}
        BY <4>1, <4>a DEF StampRec
      <4>3. s.run \in 1..run
        BY <3>1, <4>1, <4>2, <4>a
      <4> QED BY <4>2, <4>3, <4>a
    <3>a. PICK T : T = [text : Seq(Nat), second : Seconds, run : 1..run]
      OBVIOUS
    <3>3. \A i \in 1..Len(stamps) : stamps[i] \in T
      BY <3>2, <3>a
    <3>4. PICK n \in Nat : n = Len(stamps)
      BY <3>1
    <3>5. stamps = [i \in 1..n |-> stamps[i]]
      BY <3>1, <3>4
    <3>6. stamps \in [1..n -> T]
      BY <3>3, <3>4, <3>5
    <3>7. stamps \in Seq(T)
      BY <3>6
    <3> QED BY <3>7, <3>a, Zenon
  <2>3. ASSUME NEW i \in DOMAIN stack PROVE stack[i].path \in DOMAIN fs /\ stack[i].todo \subseteq DOMAIN fs
    <3>1. i \in 1..Len(stack)
      BY DEF WalkInv, Frames
    <3> QED BY <3>1 DEF WalkInv, Frames, Inside
  <2>4. Tree(fs)
    BY DEF DeleteInv
  <2>5. errno \in BOOLEAN /\ trouble \in BOOLEAN
    BY DEF BoolInv
  <2>6. /\ old \in Seconds \cup {0} /\ lost \in Nat
        /\ reply \in {0, 201, 205, 403, 500} /\ asked \in Path /\ ofs \in Path
        /\ open = Len(stack) + lost
    BY DEF RestInv
  <2> QED BY <2>1, <2>2, <2>3, <2>4, <2>5, <2>6, Zenon DEF TypeOK
<1> QED BY <1>1, <1>2, <1>3, BoolStep, Walks, Deletes, PTL DEF Spec

-----------------------------------------------------------------------------
(* What makes UploadsKept inductive: a file that is kept was left by an    *)
(* upload that was, if any; nothing that is kept is below what is being    *)
(* deleted; and what is being written over was overtaken, or has a name    *)
(* with a number of its own.                                               *)
AsLeft(r) == r.path \in DOMAIN fs /\ fs[r.path] = r.node
Keeps(r) ==
  /\ r.path \in Path /\ r.upload \in 0..Len(stamps)
  /\ Plain(r) /\ ~Overtaken(r) => AsLeft(r) /\ (ofs # <<>> => r.path # ofs)
  /\ stack # <<>> => ~Below(asked, r.path)
KeptInv == \A r \in kept : Keeps(r)

(* A new stamp changes nothing for the files that are kept.                *)
LEMMA SamePlain ==
  ASSUME StampsInv, NEW now \in Seconds, UseStamp(now), NEW r, r.upload \in 0..Len(stamps)
  PROVE  /\ Plain(r) <=> Plain(r)'
         /\ Overtaken(r) => Overtaken(r)'
<1>1. PICK n \in Nat : n = Len(stamps)
  BY DEF StampsInv
<1>2. /\ DOMAIN stamps = 1..n /\ DOMAIN stamps' = 1..(n + 1)
      /\ \A i \in 1..n : stamps'[i] = stamps[i]
  BY <1>1, Stamped
<1>3. Plain(r) <=> Plain(r)'
  <2>1. r.upload # 0 => stamps'[r.upload] = stamps[r.upload]
    BY <1>1, <1>2
  <2> QED BY <2>1 DEF Plain
<1>4. ASSUME Overtaken(r) PROVE Overtaken(r)'
  <2>1. PICK j \in 1..n : /\ r.upload # 0 /\ r.upload < j /\ ~Together(r.upload, j)
                          /\ Local[stamps[r.upload].second] = Local[stamps[j].second]
    BY <1>2, <1>4 DEF Overtaken
  <2>2. PICK i \in 1..n : i = r.upload /\ i < j
    BY <1>1, <2>1
  <2>3. \A k \in i..j : k \in 1..n
    BY <2>2
  <2>4. ~Together(i, j)'
    BY <1>2, <2>1, <2>2, <2>3 DEF Together
  <2>5. j \in 1..(n + 1)
    BY <2>1
  <2> QED BY <1>2, <2>1, <2>2, <2>4, <2>5 DEF Overtaken
<1> QED BY <1>3, <1>4

(* A file whose name a new upload takes is overtaken by it.                *)
LEMMA TakenOver ==
  ASSUME StampsInv, NEW now \in Seconds, UseStamp(now),
         NEW n \in Name, NEW m \in Seq(Nat), n.nums = Stamp(now) \o m,
         NEW r, r.upload \in 0..Len(stamps), r.path = Append(Folder, n), Plain(r)
  PROVE  Overtaken(r)'
<1>1. PICK l \in Nat : l = Len(stamps)
  BY DEF StampsInv
<1>2. /\ DOMAIN stamps' = 1..(l + 1) /\ stamps'[l + 1].second = now /\ stamps'[l + 1].run = run
      /\ \A i \in 1..l : stamps'[i] = stamps[i]
  BY <1>1, Stamped
<1>3. r.path # <<>> /\ r.path[Len(r.path)] = n
  <2>1. Folder \in Seq(Name)
    BY FilesAssumption DEF Path
  <2>2. /\ Append(Folder, n) \in Seq(Name) /\ Len(Append(Folder, n)) = Len(Folder) + 1
        /\ Append(Folder, n)[Len(Folder) + 1] = n /\ Len(Folder) \in Nat
    BY <2>1, AppendProperties
  <2>3. Len(<<>>) = 0
    OBVIOUS
  <2> QED BY <2>2, <2>3
<1>4. n.nums # <<>>
  <2>a. PICK st, s : st = Stamp(now) /\ s = n.nums
    OBVIOUS
  <2>1. st \in Seq(Nat) /\ Len(st) \in {1, 2}
    BY <2>a, StampIs
  <2>b. PICK h \in 1..2, k \in Nat : h = Len(st) /\ k = Len(m)
    <3>1. Len(m) \in Nat
      OBVIOUS
    <3> QED BY <2>1, <3>1
  <2>2. Len(s) = h + k
    BY <2>a, <2>b, <2>1, ConcatProperties
  <2>3. h + k # 0
    OBVIOUS
  <2>4. Len(<<>>) = 0
    OBVIOUS
  <2> QED BY <2>a, <2>2, <2>3, <2>4, Zenon
<1>5. r.upload # 0 /\ n.nums = stamps[r.upload].text
  BY <1>3, <1>4 DEF Plain
<1>6. PICK i \in 1..l : i = r.upload
  BY <1>1, <1>5
<1>7. Local[stamps[i].second] = Local[now] /\ ~Now(i, now)
  BY <1>1, <1>5, <1>6, NewStamp
<1>8. ASSUME Together(i, l + 1)' PROVE Now(i, now)
  <2>1. \A k \in i..l : k \in i..(l + 1) /\ k \in 1..l
    BY <1>6
  <2> QED BY <1>1, <1>2, <1>8, <2>1 DEF Together, Now
<1>9. l + 1 \in 1..(l + 1) /\ i < l + 1 /\ i # 0
  BY <1>1, <1>6
<1> QED BY <1>2, <1>6, <1>7, <1>8, <1>9 DEF Overtaken

LEMMA KeepsSame ==
  ASSUME NEW r, Keeps(r), UNCHANGED stamps, ofs' = <<>> \/ ofs' = ofs,
         AsLeft(r) => AsLeft(r)', stack' # <<>> => ~Below(asked', r.path)
  PROVE  Keeps(r)'
<1>1. Plain(r)' <=> Plain(r)
  BY DEF Plain
<1>2. Overtaken(r)' <=> Overtaken(r)
  BY DEF Overtaken, Together
<1> QED BY <1>1, <1>2 DEF Keeps

(* To remove another path leaves a file as it was.                         *)
LEMMA AsLeftStill ==
  ASSUME NEW r, NEW q, r.path # q, unlink(q), AsLeft(r)
  PROVE  AsLeft(r)'
<1>1. DOMAIN fs' = DOMAIN fs \ {q} /\ \A p \in DOMAIN fs' : fs'[p] = fs[p]
  BY DEF unlink
<1> QED BY <1>1 DEF AsLeft

LEMMA KeptWalks ==
  ASSUME WalkInv, DeleteInv, KeptInv, deleteRecursive
  PROVE  KeptInv'
<1>1. stack # <<>> /\ UNCHANGED <<asked, ofs, stamps, kept>>
  BY DEF deleteRecursive
<1>2. Frames(stack, fs) /\ DOMAIN fs \subseteq Path
  BY DEF WalkInv
<1>3. Len(stack) \in 1..Len(stack) /\ 1 \in 1..Len(stack) /\ stack \in Seq(Frame)
  <2>1. stack \in Seq(Frame)
    BY <1>2 DEF Frames
  <2> QED BY <1>1, <2>1
<1>4. Top.path \in Path /\ asked \in Path /\ Below(asked, Top.path) /\ Top.path \in DOMAIN fs
  <2>1. stack[1] \in Frame /\ stack[Len(stack)] \in Frame
    BY <1>3
  <2>2. asked = stack[1].path /\ Below(asked, stack[Len(stack)].path)
    BY <1>1, <1>3 DEF DeleteInv, Under
  <2>3. stack[Len(stack)].path \in DOMAIN fs
    BY <1>2, <1>3 DEF Frames
  <2> QED BY <2>1, <2>2, <2>3 DEF Frame, Top
<1>5. ASSUME NEW p \in Top.todo PROVE Below(asked, p)
  <2>1. p \in Inside(fs, Top.path)
    BY <1>2, <1>3 DEF Frames, Top
  <2>2. p \in Path /\ Below(Top.path, p)
    BY <1>2, <2>1 DEF Inside
  <2> QED BY <1>4, <2>2, BelowIs
<1>6. fs' = fs \/ \E q : Below(asked, q) /\ unlink(q)
  <2>1. ASSUME NEW p \in Top.todo, readdir(p) PROVE fs' = fs \/ unlink(p)
    BY <2>1, Zenon DEF readdir
  <2>2. ASSUME readdir_fails PROVE fs' = fs
    BY <2>2, Zenon DEF readdir_fails
  <2>3. ASSUME rmdir PROVE fs' = fs \/ unlink(Top.path)
    BY <2>3, Zenon DEF rmdir
  <2>4. (\E p \in Top.todo : readdir(p)) \/ readdir_fails \/ rmdir
    BY DEF deleteRecursive
  <2> QED BY <1>4, <1>5, <2>1, <2>2, <2>3, <2>4
<1>7. ASSUME NEW r \in kept PROVE Keeps(r)'
  <2>1. Keeps(r) /\ ~Below(asked, r.path)
    BY <1>1 DEF KeptInv, Keeps
  <2>2. AsLeft(r) => AsLeft(r)'
    BY <1>6, <2>1, AsLeftStill DEF AsLeft
  <2> QED BY <1>1, <2>1, <2>2, KeepsSame
<1> QED BY <1>1, <1>7 DEF KeptInv

LEMMA KeptDelete ==
  ASSUME WalkInv, KeptInv, NEW path \in DOMAIN fs, Delete(path)
  PROVE  KeptInv'
<1>1. stack = <<>> /\ UNCHANGED <<stamps, ofs>> /\ path \in Path
  BY DEF Delete, WalkInv
<1>2. CASE UNCHANGED <<kept, fs, stack>>
  <2>1. ASSUME NEW r \in kept PROVE Keeps(r)'
    BY <1>1, <1>2, KeepsSame DEF KeptInv, AsLeft
  <2> QED BY <1>2, <2>1 DEF KeptInv
<1>3. CASE Accept(path) /\ ((unlink(path) /\ stack' = stack) \/ UNCHANGED fs)
  <2>1. asked' = path /\ kept' = {r \in kept : ~Below(path, r.path)}
    BY <1>3 DEF Accept
  <2>2. Below(path, path)
    <3>a. PICK n \in Nat : n = Len(path)
      BY <1>1 DEF Path
    <3>1. SubSeq(path, 1, n) = path
      BY <1>1, <3>a, Begins
    <3> QED BY <3>a, <3>1 DEF Below
  <2>3. ASSUME NEW r \in kept' PROVE Keeps(r)'
    <3>1. Keeps(r) /\ ~Below(asked', r.path) /\ r.path # path
      BY <2>1, <2>2, <2>3 DEF KeptInv
    <3>2. AsLeft(r) => AsLeft(r)'
      BY <1>3, <3>1, AsLeftStill DEF AsLeft
    <3> QED BY <1>1, <3>1, <3>2, KeepsSame
  <2> QED BY <2>3 DEF KeptInv
<1> QED BY <1>2, <1>3 DEF Delete

LEMMA KeptUpload ==
  ASSUME WalkInv, KeptInv, NEW file \in Filenames, NEW now \in Seconds, uploadFile(file, now)
  PROVE  KeptInv'
<1>1. stack' = <<>> /\ kept' = kept /\ ofs = <<>> /\ StampsInv
  BY DEF uploadFile, WalkInv
<1>2. ASSUME NEW r \in kept, UNCHANGED <<fs, ofs>>, stamps' = stamps \/ UseStamp(now)
      PROVE  Keeps(r)'
  <2>1. Keeps(r)
    BY DEF KeptInv
  <2>2. CASE stamps' = stamps
    BY <1>1, <1>2, <2>1, <2>2, KeepsSame DEF AsLeft
  <2>3. CASE UseStamp(now)
    <3>1. r.upload \in 0..Len(stamps) /\ r.path \in Path
      BY <2>1 DEF Keeps
    <3>2. r.upload \in 0..Len(stamps')
      BY <1>1, <2>3, <3>1, Stamped
    <3>3. (Plain(r) <=> Plain(r)') /\ (Overtaken(r) => Overtaken(r)')
      BY <1>1, <2>3, <3>1, SamePlain
    <3> QED BY <1>1, <1>2, <2>1, <3>1, <3>2, <3>3 DEF Keeps, AsLeft
  <2> QED BY <1>2, <2>2, <2>3
<1>3. ASSUME NEW r \in kept, NEW n \in Name, NEW new \in Node, Opens(file, now, n, new)
      PROVE  Keeps(r)'
  <2>1. Keeps(r) /\ r.upload \in 0..Len(stamps) /\ r.path \in Path
    BY DEF KeptInv, Keeps
  <2>2. /\ UseStamp(now) /\ n.nums = Stamp(now) \o file.nums
        /\ ofs' = Append(Folder, n) /\ fs' = Put(fs, ofs', new)
    BY <1>3, Zenon DEF Opens
  <2>3. r.upload \in 0..Len(stamps')
    BY <1>1, <2>1, <2>2, Stamped
  <2>4. (Plain(r) <=> Plain(r)') /\ (Overtaken(r) => Overtaken(r)')
    BY <1>1, <2>1, <2>2, SamePlain
  <2>5. file.nums \in Seq(Nat)
    BY FilesAssumption DEF Name
  <2>6. r.path = ofs' /\ Plain(r) => Overtaken(r)'
    BY <1>1, <2>1, <2>2, <2>5, TakenOver
  <2>7. r.path # ofs' /\ AsLeft(r) => AsLeft(r)'
    <3>1. \A p \in DOMAIN fs : p \in DOMAIN fs' /\ (p # ofs' => fs'[p] = fs[p])
      BY <2>2 DEF Put
    <3> QED BY <3>1 DEF AsLeft
  <2> QED BY <1>1, <2>1, <2>3, <2>4, <2>6, <2>7 DEF Keeps
<1> QED BY <1>1, <1>2, <1>3, UploadIs DEF KeptInv

LEMMA KeptWrite ==
  ASSUME WalkInv, KeptInv, write
  PROVE  KeptInv'
<1>1. UNCHANGED <<kept, ofs, stamps, stack, asked>> /\ ofs # <<>> /\ OfsInv
  BY DEF write, WalkInv
<1>2. ASSUME NEW r \in kept PROVE Keeps(r)'
  <2>1. Keeps(r)
    BY DEF KeptInv
  <2>2. Plain(r)' <=> Plain(r)
    BY <1>1 DEF Plain
  <2>3. Overtaken(r)' <=> Overtaken(r)
    BY <1>1 DEF Overtaken, Together
  <2>4. r.path # ofs /\ AsLeft(r) => AsLeft(r)'
    BY <1>1, WriteIs DEF AsLeft
  <2> QED BY <1>1, <2>1, <2>2, <2>3, <2>4 DEF Keeps
<1> QED BY <1>1, <1>2 DEF KeptInv

(* What is left, by a close or by the end of the program, is kept.         *)
LEMMA KeptLeave ==
  ASSUME WalkInv, KeptInv, Leave, UNCHANGED <<fs, stamps>>, stack' = <<>>
  PROVE  KeptInv'
<1>1. ASSUME NEW r \in kept PROVE Keeps(r)'
  <2>1. Keeps(r) /\ ofs' = <<>>
    BY DEF KeptInv, Leave
  <2> QED BY <2>1, KeepsSame DEF AsLeft
<1>2. ASSUME ofs # <<>>, NEW r, r = [path |-> ofs, node |-> fs[ofs], upload |-> Len(stamps)]
      PROVE  Keeps(r)'
  <2>1. r.path = ofs /\ r.node = fs[ofs] /\ r.upload = Len(stamps)
    BY <1>2, Zenon
  <2>2. ofs \in DOMAIN fs /\ ofs \in Path /\ Len(stamps) \in Nat
    BY <1>2 DEF WalkInv, OfsInv, StampsInv
  <2>3. AsLeft(r)'
    BY <2>1, <2>2 DEF AsLeft
  <2> QED BY <2>1, <2>2, <2>3 DEF Keeps, Leave
<1>3. \A r \in kept' : r \in kept \/ (ofs # <<>> /\ r = [path |-> ofs, node |-> fs[ofs], upload |-> Len(stamps)])
  BY DEF Leave
<1> QED BY <1>1, <1>2, <1>3 DEF KeptInv

(* For any tree, any clients, any clock and local time, and any calls that *)
(* fail and ends of the program between them: a file nobody asked to       *)
(* delete stays as it was left, unless its name begins with a number of    *)
(* its own or the local time of its upload came back (Handler.cpp 252-264, *)
(* 277-305, 344-384).                                                      *)
THEOREM UploadsAlwaysKept == Spec => []UploadsKept
<1>1. Init => KeptInv
  <2> SUFFICES ASSUME Init PROVE KeptInv
    OBVIOUS
  <2>1. stack = <<>> /\ ofs = <<>> /\ stamps = <<>> /\ DOMAIN fs \subseteq Path
    BY FilesAssumption DEF Init, Tree
  <2>2. ASSUME NEW r \in kept PROVE r.path \in DOMAIN fs /\ fs[r.path] = r.node /\ r.upload = 0
    BY <2>2 DEF Init
  <2>3. 0 \in 0..Len(stamps)
    BY <2>1
  <2> QED BY <2>1, <2>2, <2>3 DEF KeptInv, Keeps, AsLeft
<1>2. WalkInv /\ DeleteInv /\ KeptInv /\ [Next]_vars => KeptInv'
  <2> SUFFICES ASSUME WalkInv, DeleteInv, KeptInv, [Next]_vars PROVE KeptInv'
    OBVIOUS
  <2>1. ASSUME UNCHANGED <<fs, stack, stamps, asked, kept, ofs>> PROVE KeptInv'
    <3>1. ASSUME NEW r \in kept PROVE Keeps(r)'
      BY <2>1, KeepsSame DEF KeptInv, Keeps, AsLeft
    <3> QED BY <2>1, <3>1 DEF KeptInv
  <2>2. CASE close_upload
    <3>1. stack' = <<>>
      BY <2>2 DEF close_upload, WalkInv, OfsInv
    <3> QED BY <2>2, <3>1, KeptLeave DEF close_upload
  <2>3. CASE Elsewhere
    BY <2>1, <2>3 DEF Elsewhere
  <2>4. CASE Restart
    BY <2>4, KeptLeave DEF Restart
  <2>5. CASE UNCHANGED vars
    BY <2>1, <2>5 DEF vars
  <2> QED BY <2>2, <2>3, <2>4, <2>5, KeptWalks, KeptDelete, KeptUpload, KeptWrite DEF Next
<1>3. KeptInv => UploadsKept
  BY DEF KeptInv, UploadsKept, Keeps, AsLeft
<1> QED BY <1>1, <1>2, <1>3, Walks, Deletes, PTL DEF Spec
=============================================================================
