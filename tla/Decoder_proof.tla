----------------------------- MODULE Decoder_proof -----------------------------
(***************************************************************************)
(* Theorems about Decoder, for every stream, every fault and every order   *)
(* of the caller's calls.                                                  *)
(***************************************************************************)
EXTENDS Decoder, SequenceTheorems, FiniteSetTheorems, WellFoundedInduction, TLAPS

-----------------------------------------------------------------------------
(* Induction, said with a set: none of the provers can instantiate the     *)
(* library's theorems, which take a predicate.                             *)

LEMMA Least == ASSUME NEW T \in SUBSET Nat, T # {} PROVE \E k \in T : \A n \in T : k <= n
<1>1. IsWellFoundedOn(OpToRel(<, Nat), Nat)
  BY NatLessThanWellFounded
<1>2. PICK k \in T : \A n \in T : <<n, k>> \notin OpToRel(<, Nat)
  BY <1>1, WFMin
<1>3. \A n \in T : ~(n < k)
  BY <1>2 DEF OpToRel
<1> QED
  BY <1>3

LEMMA Induct ==
    ASSUME NEW T \in SUBSET Nat, 0 \in T, \A n \in T : n + 1 \in T
    PROVE  T = Nat
<1>1. SUFFICES ASSUME Nat \ T # {} PROVE FALSE
  OBVIOUS
<1>2. PICK k \in Nat \ T : \A n \in Nat \ T : k <= n
  BY <1>1, Least
<1>3. k # 0 /\ k - 1 \in Nat
  BY <1>2
<1>4. k - 1 \in T
  BY <1>2, <1>3
<1> QED
  BY <1>2, <1>3, <1>4

LEMMA Greatest ==
    ASSUME NEW n \in Nat, NEW T \in SUBSET (1 .. n), T # {}
    PROVE  \E k \in T : \A j \in T : j <= k
<1> DEFINE U == {u \in Nat : \E k \in T : u = n - k}
<1>1. \A k \in T : k \in Nat /\ k <= n /\ n - k \in U
  OBVIOUS
<1>2. U \in SUBSET Nat /\ U # {}
  BY <1>1
<1>3. PICK u \in U : \A v \in U : u <= v
  <2> HIDE DEF U
  <2> QED
    BY <1>2, Least
<1>4. PICK k \in T : u = n - k
  OBVIOUS
<1>5. \A j \in T : u <= n - j
  <2> HIDE DEF U
  <2> QED
    BY <1>1, <1>3
<1> HIDE DEF U
<1>6. \A j \in T : j <= k
  BY <1>1, <1>4, <1>5
<1> QED
  BY <1>6

-----------------------------------------------------------------------------
(* Sequences of anything.                                                  *)

IsSeq(s) == Len(s) \in Nat /\ s = [i \in 1 .. Len(s) |-> s[i]]

LEMMA SeqFrom ==
    ASSUME NEW n, NEW f, n \in Nat, f = [i \in 1 .. n |-> f[i]]
    PROVE  IsSeq(f) /\ Len(f) = n /\ DOMAIN f = 1 .. n
<1>1. f \in Seq({f[i] : i \in 1 .. n})
  BY SeqDef
<1>2. Len(f) \in Nat /\ DOMAIN f = 1 .. Len(f)
  BY <1>1, LenProperties
<1>3. 1 .. n = 1 .. Len(f)
  BY <1>2
<1>4. n = Len(f)
  BY <1>2, <1>3
<1> QED
  BY <1>2, <1>4 DEF IsSeq

LEMMA SeqIs ==
    ASSUME NEW s, IsSeq(s)
    PROVE  /\ s \in Seq(ToSet(s)) /\ DOMAIN s = 1 .. Len(s) /\ Len(s) \in Nat
           /\ ToSet(s) = {s[i] : i \in 1 .. Len(s)}
<1>1. DOMAIN s = 1 .. Len(s)
  BY DEF IsSeq
<1>2. ToSet(s) = {s[i] : i \in 1 .. Len(s)}
  BY <1>1 DEF ToSet
<1>3. s \in [1 .. Len(s) -> {s[i] : i \in 1 .. Len(s)}]
  BY DEF IsSeq
<1>4. s \in Seq({s[i] : i \in 1 .. Len(s)})
  BY <1>3, SeqDef DEF IsSeq
<1> QED
  BY <1>1, <1>2, <1>4 DEF IsSeq

LEMMA SeqTyped == ASSUME NEW S, NEW s \in Seq(S) PROVE IsSeq(s)
  BY LenProperties, SeqDef DEF IsSeq

LEMMA SeqEmpty == IsSeq(<<>>) /\ Len(<<>>) = 0 /\ DOMAIN <<>> = {}
  BY DEF IsSeq

LEMMA SeqAppend ==
    ASSUME NEW s, IsSeq(s), NEW x
    PROVE  /\ IsSeq(Append(s, x)) /\ Len(Append(s, x)) = Len(s) + 1
           /\ \A i \in 1 .. Len(s) : Append(s, x)[i] = s[i]
           /\ Append(s, x)[Len(s) + 1] = x
           /\ ToSet(Append(s, x)) = ToSet(s) \cup {x}
<1> DEFINE S == ToSet(s) \cup {x}
           t == Append(s, x)
<1>1. s \in Seq(S) /\ x \in S /\ Len(s) \in Nat
  <2>1. s \in Seq(ToSet(s))
    BY SeqIs
  <2> QED
    BY <2>1, SeqIs, SeqDef
<1>2. /\ t \in Seq(S) /\ Len(t) = Len(s) + 1
      /\ \A i \in 1 .. Len(s) : t[i] = s[i]
      /\ t[Len(s) + 1] = x
  BY <1>1, AppendProperties
<1>3. IsSeq(t)
  BY <1>2, SeqTyped
<1>4. ToSet(t) = ToSet(s) \cup {x}
  <2>1. ToSet(t) = {t[i] : i \in 1 .. Len(s) + 1} /\ ToSet(s) = {s[i] : i \in 1 .. Len(s)}
    BY <1>2, <1>3, SeqIs
  <2> HIDE DEF t
  <2> QED
    BY <1>1, <1>2, <2>1
<1> QED
  BY <1>2, <1>3, <1>4

LEMMA SeqExcept ==
    ASSUME NEW s, IsSeq(s), NEW k, NEW x
    PROVE  /\ IsSeq([s EXCEPT ![k] = x]) /\ Len([s EXCEPT ![k] = x]) = Len(s)
           /\ \A i \in 1 .. Len(s) : [s EXCEPT ![k] = x][i] = IF i = k THEN x ELSE s[i]
<1> DEFINE t == [s EXCEPT ![k] = x]
<1>1. Len(s) \in Nat /\ DOMAIN s = 1 .. Len(s)
  BY SeqIs
<1>2. t = [i \in 1 .. Len(s) |-> t[i]] /\ \A i \in 1 .. Len(s) : t[i] = IF i = k THEN x ELSE s[i]
  BY <1>1
<1> QED
  BY <1>1, <1>2, SeqFrom

LEMMA SeqFront ==
    ASSUME NEW s, IsSeq(s), Len(s) > 0
    PROVE  /\ IsSeq(Front(s)) /\ Len(Front(s)) = Len(s) - 1
           /\ \A i \in 1 .. Len(s) - 1 : Front(s)[i] = s[i]
<1>1. Len(s) \in Nat /\ s \in Seq(ToSet(s)) /\ DOMAIN s = 1 .. Len(s)
  BY SeqIs
<1>2. Front(s) = [i \in 1 .. Len(s) - 1 |-> s[i]]
  BY <1>1, SubSeqProperties DEF Front
<1>3. Front(s) = [i \in 1 .. Len(s) - 1 |-> Front(s)[i]] /\ Len(s) - 1 \in Nat
  BY <1>1, <1>2
<1>4. IsSeq(Front(s)) /\ Len(Front(s)) = Len(s) - 1
  BY <1>3, SeqFrom
<1> QED
  BY <1>2, <1>4

-----------------------------------------------------------------------------
(* What holds of a decoder state d between any two of the steps a call is   *)
(* made of.                                                                 *)

Fields == {"sps", "pps", "cur", "curOut", "curLsb", "ctu", "prevSlic", "dpb", "free", "poc",
           "curRPS", "seenPicture", "skipRASL", "maxReorder", "maxLatency", "maxDecPicBuf",
           "pics", "shown", "cvs"}
PicFields == {"poc", "tag", "corrupt", "refs", "released", "buf", "want", "cvs", "units", "good"}
EntryFields == {"pic", "ref", "longTerm", "output", "latency"}

Shape(d) ==
    /\ DOMAIN d = Fields
    /\ IsSeq(d.pics) /\ IsSeq(d.dpb) /\ IsSeq(d.shown) /\ IsSeq(d.free)
    /\ \A i \in DOMAIN d.pics : /\ DOMAIN d.pics[i] = PicFields
                                /\ d.pics[i].refs \in Nat
                                /\ d.pics[i].poc \in Int
    /\ \A k \in DOMAIN d.dpb : /\ DOMAIN d.dpb[k] = EntryFields
                               /\ d.dpb[k].pic \in DOMAIN d.pics
    /\ \A k \in DOMAIN d.shown : d.shown[k] \in DOMAIN d.pics
    /\ d.cur \in DOMAIN d.pics \cup {None}

\* The planes: whoever counts a hold has some of its own, and what is in the
\* pool is nobody's.
Planes(d) ==
    /\ \A i \in DOMAIN d.pics : d.pics[i].refs > 0 <=> d.pics[i].buf # NoBuf
    /\ \A i, j \in DOMAIN d.pics : d.pics[i].buf = d.pics[j].buf /\ i # j => d.pics[i].buf = NoBuf
    /\ \A i \in DOMAIN d.pics, k \in DOMAIN d.free : d.pics[i].buf # d.free[k]
    /\ \A k \in DOMAIN d.free : d.free[k] # NoBuf
    /\ \A j, k \in DOMAIN d.free : d.free[j] = d.free[k] => j = k

\* Everything but the planes and their counts stays as it was.
Frame(d, e) ==
    /\ DOMAIN e = Fields
    /\ \A f \in Fields \ {"pics", "free"} : e[f] = d[f]
    /\ IsSeq(e.pics) /\ Len(e.pics) = Len(d.pics)
    /\ \A i \in DOMAIN d.pics :
          /\ DOMAIN e.pics[i] = PicFields
          /\ \A f \in PicFields \ {"refs", "buf"} : e.pics[i][f] = d.pics[i][f]

RpsType == [before : Seq(Int), after : Seq(Int), lt : Seq(Int), foll : Seq(Int), ltFoll : Seq(Int)]

\* The decoder's own state.
Types(d) ==
    /\ d.sps \in [SpsIds -> Sps \cup {NoSps}]
    /\ d.pps \in [PpsIds -> SpsIds \cup {None}]
    /\ d.prevSlic = NoSlice \/ d.prevSlic \in Slice
    /\ \/ d.ctu = NoCtu
       \/ d.ctu \in [sps : Sps, pps : PpsIds, next : Nat] /\ d.ctu.next <= d.ctu.sps.size
    /\ d.cur = None <=> d.ctu = NoCtu
    /\ d.poc \in [prevLsb : Int, prevMsb : Int]
    /\ d.curRPS \in RpsType
    /\ d.curOut \in BOOLEAN
    /\ d.cvs \in Nat

Buffered(d) == {d.dpb[k].pic : k \in DOMAIN d.dpb}
Returned(d) == {d.shown[k] : k \in DOMAIN d.shown}
InDecoder(d) == Buffered(d) \cup ({d.cur} \ {None})

\* The holds on each picture, if the decoder's are on those of H.
Held(d, H) ==
    \A i \in DOMAIN d.pics :
        d.pics[i].refs = (IF i \in H THEN 1 ELSE 0)
                         + (IF i \in Returned(d) /\ ~d.pics[i].released THEN 1 ELSE 0)

\* A picture is in one place of the decoder at most, and returned at most once.
Distinct(d) ==
    /\ \A j, k \in DOMAIN d.dpb : d.dpb[j].pic = d.dpb[k].pic => j = k
    /\ d.cur \notin Buffered(d)
    /\ \A j, k \in DOMAIN d.shown : d.shown[j] = d.shown[k] => j = k

\* What waits is to be output and was not; nothing else is returned.
Output(d) ==
    /\ \A k \in DOMAIN d.dpb : d.dpb[k].output => /\ d.pics[d.dpb[k].pic].want
                                                  /\ d.dpb[k].pic \notin Returned(d)
    /\ d.cur # None => d.cur \notin Returned(d) /\ d.curOut = d.pics[d.cur].want
    /\ \A i \in Returned(d) : d.pics[i].want
    /\ \A i \in DOMAIN d.pics : d.pics[i].released => i \in Returned(d)

\* Whatever is to be output was returned, or can still be, or is in X.
Due(d, X) ==
    \A i \in DOMAIN d.pics :
        d.pics[i].want => \/ i \in Returned(d) \/ i = d.cur \/ i \in X
                          \/ \E k \in DOMAIN d.dpb : d.dpb[k].pic = i /\ d.dpb[k].output

Safe(d, X) == /\ Shape(d) /\ Planes(d) /\ Held(d, InDecoder(d)) /\ Distinct(d)
              /\ Output(d) /\ Due(d, X)

-----------------------------------------------------------------------------
(* The pool.                                                               *)

\* A pool of different planes, none of them one of B.
Pool(free, B) ==
    /\ IsSeq(free)
    /\ \A k \in DOMAIN free : free[k] # NoBuf /\ free[k] \notin B
    /\ \A j, k \in DOMAIN free : free[j] = free[k] => j = k

LEMMA PutPool ==
    ASSUME NEW free, NEW B, NEW buf, buf # NoBuf, Pool(free, B \cup {buf})
    PROVE  Pool(Put(free, buf), B \ {buf})
<1>1. IsSeq(free) /\ DOMAIN free = 1 .. Len(free) /\ Len(free) \in Nat
  BY SeqIs DEF Pool
<1>2. CASE Len(free) < PoolDepth
  <2>1. Put(free, buf) = Append(free, buf)
    BY <1>2 DEF Put
  <2>2. /\ IsSeq(Append(free, buf)) /\ DOMAIN Append(free, buf) = 1 .. Len(free) + 1
        /\ \A i \in 1 .. Len(free) : Append(free, buf)[i] = free[i]
        /\ Append(free, buf)[Len(free) + 1] = buf
    BY <1>1, SeqAppend, SeqIs
  <2> QED
    BY <1>1, <2>1, <2>2 DEF Pool
<1>3. ASSUME NEW k PROVE Pool([free EXCEPT ![k] = buf], B \ {buf})
  <2>1. /\ IsSeq([free EXCEPT ![k] = buf]) /\ DOMAIN [free EXCEPT ![k] = buf] = 1 .. Len(free)
        /\ \A i \in 1 .. Len(free) :
               [free EXCEPT ![k] = buf][i] = IF i = k THEN buf ELSE free[i]
    BY <1>1, SeqExcept, SeqIs
  <2> QED
    BY <1>1, <2>1 DEF Pool
<1>4. Pool(free, B \ {buf})
  BY DEF Pool
<1> QED
  BY <1>2, <1>3, <1>4 DEF Put

\* The recursive function in PutAll is the one its equation describes.
LEMMA PutAllRuns ==
    ASSUME NEW d, NEW gone, Len(d.pics) \in Nat
    PROVE  \E pool :
             /\ pool = [n \in 0 .. Len(d.pics) |->
                           IF n = 0 THEN d.free
                           ELSE IF n \in gone THEN Put(pool[n - 1], d.pics[n].buf)
                           ELSE pool[n - 1]]
             /\ PutAll(d, gone) = pool[Len(d.pics)]
<1> DEFINE Step(x, n) == IF n \in gone THEN Put(x, d.pics[n].buf) ELSE x
           Run(g, l) == g = [n \in 0 .. l |-> IF n = 0 THEN d.free ELSE Step(g[n - 1], n)]
           T == {l \in Nat : \E g : Run(g, l)}
<1>1. 0 \in T
  <2>1. Run([n \in 0 .. 0 |-> d.free], 0)
    OBVIOUS
  <2> QED
    BY <2>1
<1>2. ASSUME NEW l \in T PROVE l + 1 \in T
  <2>1. PICK g : Run(g, l)
    OBVIOUS
  <2> HIDE DEF Step
  <2> DEFINE h == [n \in 0 .. l + 1 |-> IF n = l + 1 THEN Step(g[l], l + 1) ELSE g[n]]
  <2>2. l \in Nat
    OBVIOUS
  <2>3. ASSUME NEW n \in 0 .. l + 1 PROVE h[n] = IF n = 0 THEN d.free ELSE Step(h[n - 1], n)
    BY <2>1, <2>2
  <2>4. Run(h, l + 1)
    BY <2>3
  <2> HIDE DEF h, Run
  <2> QED
    BY <2>2, <2>4
<1>3. Len(d.pics) \in T
  <2> HIDE DEF T
  <2>1. T = Nat
    BY <1>1, <1>2, Induct DEF T
  <2> QED
    BY <2>1
<1> QED
  BY <1>3 DEF PutAll

LEMMA PutAllPool ==
    ASSUME NEW d, Shape(d), Planes(d), NEW gone,
           \A i \in gone : i \in DOMAIN d.pics /\ d.pics[i].refs = 1
    PROVE  Pool(PutAll(d, gone), {d.pics[i].buf : i \in DOMAIN d.pics \ gone})
<1>1. DOMAIN d.pics = 1 .. Len(d.pics) /\ Len(d.pics) \in Nat
  BY SeqIs DEF Shape
<1>2. PICK pool : /\ pool = [n \in 0 .. Len(d.pics) |->
                           IF n = 0 THEN d.free
                           ELSE IF n \in gone THEN Put(pool[n - 1], d.pics[n].buf)
                           ELSE pool[n - 1]]
                  /\ PutAll(d, gone) = pool[Len(d.pics)]
  BY <1>1, PutAllRuns
<1> DEFINE Rest(n) == {d.pics[i].buf : i \in {i \in DOMAIN d.pics : i \notin gone \/ i > n}}
           T == {n \in Nat : n <= Len(d.pics) => Pool(pool[n], Rest(n))}
<1>3. 0 \in T
  <2>1. pool[0] = d.free
    BY <1>1, <1>2
  <2>2. Pool(d.free, Rest(0))
    BY DEF Shape, Planes, Pool
  <2> QED
    BY <2>1, <2>2
<1>4. ASSUME NEW n \in T PROVE n + 1 \in T
  <2> SUFFICES ASSUME n + 1 <= Len(d.pics) PROVE Pool(pool[n + 1], Rest(n + 1))
    OBVIOUS
  <2>1. Pool(pool[n], Rest(n)) /\ n \in Nat
    BY <1>1
  <2>2. n + 1 \in DOMAIN d.pics /\ n + 1 \in 0 .. Len(d.pics) /\ n + 1 # 0
    BY <1>1, <2>1
  <2>3. pool[n + 1] = IF n + 1 \in gone THEN Put(pool[n], d.pics[n + 1].buf) ELSE pool[n]
    BY <1>2, <2>1, <2>2
  <2>4. CASE n + 1 \notin gone
    <3>1. Rest(n + 1) \subseteq Rest(n)
      BY <1>1, <2>1
    <3> HIDE DEF Rest
    <3> QED
      BY <2>1, <2>3, <2>4, <3>1 DEF Pool
  <2>5. CASE n + 1 \in gone
    <3> DEFINE b == d.pics[n + 1].buf
    <3>1. b # NoBuf
      BY <2>2, <2>5 DEF Planes
    <3>2. b \notin Rest(n + 1)
      BY <2>1, <2>2, <2>5, <3>1 DEF Planes
    <3>3. Rest(n) = Rest(n + 1) \cup {b}
      BY <1>1, <2>1, <2>2, <2>5
    <3>4. pool[n + 1] = Put(pool[n], b)
      BY <2>3, <2>5
    <3> HIDE DEF Rest, b
    <3>5. Pool(Put(pool[n], b), Rest(n + 1) \ {b})
      BY <2>1, <3>1, <3>3, PutPool
    <3> QED
      BY <3>2, <3>4, <3>5 DEF Pool
  <2> QED
    BY <2>4, <2>5
<1>5. Pool(pool[Len(d.pics)], Rest(Len(d.pics)))
  <2> HIDE DEF T
  <2>1. T = Nat
    BY <1>3, <1>4, Induct DEF T
  <2>2. Len(d.pics) \in T
    BY <1>1, <2>1
  <2> HIDE DEF Rest
  <2> QED
    BY <1>1, <2>2 DEF T
<1>6. Rest(Len(d.pics)) = {d.pics[i].buf : i \in DOMAIN d.pics \ gone}
  BY <1>1
<1> QED
  BY <1>2, <1>5, <1>6

LEMMA FrameShape ==
    ASSUME NEW d, NEW e, Shape(d), Frame(d, e), IsSeq(e.free),
           \A i \in DOMAIN d.pics : e.pics[i].refs \in Nat
    PROVE  Shape(e) /\ DOMAIN e.pics = DOMAIN d.pics
<1>1. /\ e.dpb = d.dpb /\ e.shown = d.shown /\ e.cur = d.cur
      /\ \A i \in DOMAIN d.pics : e.pics[i].poc = d.pics[i].poc
  BY DEF Frame, Fields, PicFields
<1>2. DOMAIN e.pics = 1 .. Len(e.pics) /\ DOMAIN d.pics = 1 .. Len(d.pics)
  BY SeqIs DEF Frame, Shape
<1>3. DOMAIN e.pics = DOMAIN d.pics
  BY <1>2 DEF Frame
<1> QED
  BY <1>1, <1>3 DEF Shape, Frame

\* release takes one hold away from each picture of S, and pools the planes
\* nobody holds any more.
LEMMA ReleaseEffect ==
    ASSUME NEW d, Shape(d), Planes(d), NEW S, S \subseteq DOMAIN d.pics
    PROVE  /\ Frame(d, release(d, S)) /\ Shape(release(d, S)) /\ Planes(release(d, S))
           /\ \A i \in DOMAIN d.pics :
                  release(d, S).pics[i].refs = IF i \in S /\ d.pics[i].refs > 0
                                               THEN d.pics[i].refs - 1 ELSE d.pics[i].refs
<1> DEFINE gone == {i \in S : d.pics[i].refs = 1}
           after(i) == IF i \in gone THEN [d.pics[i] EXCEPT !.refs = 0, !.buf = NoBuf]
                       ELSE IF i \in S /\ d.pics[i].refs > 0
                       THEN [d.pics[i] EXCEPT !.refs = @ - 1] ELSE d.pics[i]
           e == release(d, S)
<1>1. e = [d EXCEPT !.pics = [i \in DOMAIN d.pics |-> after(i)], !.free = PutAll(d, gone)]
  BY DEF release
<1>2. DOMAIN d = Fields /\ DOMAIN d.pics = 1 .. Len(d.pics) /\ Len(d.pics) \in Nat
  BY SeqIs DEF Shape
<1>3. /\ DOMAIN e = Fields
      /\ e.pics = [i \in DOMAIN d.pics |-> after(i)]
      /\ e.free = PutAll(d, gone)
      /\ \A f \in Fields \ {"pics", "free"} : e[f] = d[f]
  BY <1>1, <1>2 DEF Fields
<1>4. \A i \in DOMAIN d.pics :
          /\ DOMAIN after(i) = PicFields
          /\ after(i).refs = IF i \in S /\ d.pics[i].refs > 0 THEN d.pics[i].refs - 1
                             ELSE d.pics[i].refs
          /\ after(i).refs \in Nat
          /\ after(i).buf = IF i \in gone THEN NoBuf ELSE d.pics[i].buf
          /\ \A f \in PicFields \ {"refs", "buf"} : after(i)[f] = d.pics[i][f]
  <2> TAKE i \in DOMAIN d.pics
  <2>1. DOMAIN d.pics[i] = PicFields /\ d.pics[i].refs \in Nat
    BY DEF Shape
  <2>2. CASE i \in gone
    <3>1. after(i) = [d.pics[i] EXCEPT !.refs = 0, !.buf = NoBuf]
      BY <2>2
    <3>2. DOMAIN after(i) = PicFields /\ after(i).refs = 0 /\ after(i).buf = NoBuf
      BY <2>1, <3>1 DEF PicFields
    <3>3. \A f \in PicFields \ {"refs", "buf"} : after(i)[f] = d.pics[i][f]
      BY <2>1, <3>1 DEF PicFields
    <3>4. i \in S /\ d.pics[i].refs = 1
      BY <2>2
    <3> HIDE DEF after
    <3> QED
      BY <2>2, <3>2, <3>3, <3>4
  <2>3. CASE i \notin gone /\ i \in S /\ d.pics[i].refs > 0
    <3>1. after(i) = [d.pics[i] EXCEPT !.refs = d.pics[i].refs - 1]
      BY <2>3
    <3> HIDE DEF after
    <3> QED
      BY <2>1, <2>3, <3>1 DEF PicFields
  <2>4. CASE i \notin gone /\ ~(i \in S /\ d.pics[i].refs > 0)
    BY <2>1, <2>4
  <2> QED
    BY <2>2, <2>3, <2>4
<1> HIDE DEF after, e
<1>5. IsSeq(e.pics) /\ Len(e.pics) = Len(d.pics)
  <2>1. e.pics = [i \in 1 .. Len(d.pics) |-> e.pics[i]]
    BY <1>2, <1>3
  <2> QED
    BY <1>2, <2>1, SeqFrom
<1>6. Frame(d, e)
  BY <1>3, <1>4, <1>5 DEF Frame
<1>7. Pool(e.free, {d.pics[i].buf : i \in DOMAIN d.pics \ gone})
  BY <1>3, PutAllPool
<1>8. Shape(e) /\ DOMAIN e.pics = DOMAIN d.pics
  <2>1. \A i \in DOMAIN d.pics : e.pics[i].refs \in Nat
    BY <1>3, <1>4
  <2>2. IsSeq(e.free)
    BY <1>7 DEF Pool
  <2> QED
    BY <1>6, <2>1, <2>2, FrameShape
<1>9. \A i \in DOMAIN d.pics : /\ e.pics[i].refs = after(i).refs
                               /\ e.pics[i].buf = after(i).buf
  BY <1>3
<1>10. Planes(e)
  <2>1. \A i \in DOMAIN d.pics : e.pics[i].refs > 0 <=> e.pics[i].buf # NoBuf
    BY <1>4, <1>9 DEF Planes, Shape
  <2>2. ASSUME NEW i \in DOMAIN d.pics, NEW j \in DOMAIN d.pics, i # j,
               e.pics[i].buf = e.pics[j].buf
        PROVE  e.pics[i].buf = NoBuf
    BY <1>4, <1>9, <2>2 DEF Planes
  <2>3. ASSUME NEW i \in DOMAIN d.pics, NEW k \in DOMAIN e.free
        PROVE  e.pics[i].buf # e.free[k]
    BY <1>4, <1>7, <1>9 DEF Pool
  <2> QED
    BY <1>7, <1>8, <2>1, <2>2, <2>3 DEF Planes, Pool
<1> QED
  BY <1>4, <1>6, <1>8, <1>9, <1>10 DEF e

LEMMA AcquireEffect ==
    ASSUME NEW d, Shape(d), Planes(d), NEW S, \A i \in S : i \in DOMAIN d.pics /\ d.pics[i].refs > 0
    PROVE  /\ Frame(d, acquire(d, S)) /\ Shape(acquire(d, S)) /\ Planes(acquire(d, S))
           /\ \A i \in DOMAIN d.pics :
                  acquire(d, S).pics[i].refs = IF i \in S THEN d.pics[i].refs + 1
                                               ELSE d.pics[i].refs
<1> DEFINE after(i) == IF i \in S THEN [d.pics[i] EXCEPT !.refs = @ + 1] ELSE d.pics[i]
           e == acquire(d, S)
<1>1. e = [d EXCEPT !.pics = [i \in DOMAIN d.pics |-> after(i)]]
  BY DEF acquire
<1>2. DOMAIN d = Fields /\ DOMAIN d.pics = 1 .. Len(d.pics) /\ Len(d.pics) \in Nat
  BY SeqIs DEF Shape
<1>3. /\ DOMAIN e = Fields
      /\ e.pics = [i \in DOMAIN d.pics |-> after(i)]
      /\ \A f \in Fields \ {"pics"} : e[f] = d[f]
  BY <1>1, <1>2 DEF Fields
<1>4. \A i \in DOMAIN d.pics :
          /\ DOMAIN after(i) = PicFields
          /\ after(i).refs = IF i \in S THEN d.pics[i].refs + 1 ELSE d.pics[i].refs
          /\ after(i).refs \in Nat
          /\ after(i).buf = d.pics[i].buf
          /\ \A f \in PicFields \ {"refs", "buf"} : after(i)[f] = d.pics[i][f]
  BY DEF Shape, PicFields
<1> HIDE DEF after, e
<1>5. IsSeq(e.pics) /\ Len(e.pics) = Len(d.pics)
  <2>1. e.pics = [i \in 1 .. Len(d.pics) |-> e.pics[i]]
    BY <1>2, <1>3
  <2> QED
    BY <1>2, <2>1, SeqFrom
<1>6. Frame(d, e)
  BY <1>3, <1>4, <1>5 DEF Frame
<1>7. e.free = d.free
  BY <1>3 DEF Fields
<1>8. Shape(e) /\ DOMAIN e.pics = DOMAIN d.pics
  <2>1. \A i \in DOMAIN d.pics : e.pics[i].refs \in Nat
    BY <1>3, <1>4
  <2>2. IsSeq(e.free)
    BY <1>7 DEF Shape
  <2> QED
    BY <1>6, <2>1, <2>2, FrameShape
<1>9. Planes(e)
  <2>1. \A i \in DOMAIN d.pics : /\ e.pics[i].buf = d.pics[i].buf
                                 /\ e.pics[i].refs > 0 <=> d.pics[i].refs > 0
    BY <1>3, <1>4 DEF Shape
  <2> QED
    BY <1>7, <1>8, <2>1 DEF Planes
<1> QED
  BY <1>3, <1>4, <1>6, <1>8, <1>9 DEF e

\* The planes taken from the pool are not in it any more.
LEMMA TakePool ==
    ASSUME NEW free, NEW B, Pool(free, B), NEW k \in DOMAIN free
    PROVE  Pool(Take(free, k), B \cup {free[k]})
<1> DEFINE t == [free EXCEPT ![k] = free[Len(free)]]
<1>1. IsSeq(free) /\ DOMAIN free = 1 .. Len(free) /\ Len(free) \in Nat
  BY SeqIs DEF Pool
<1>2. /\ IsSeq(t) /\ Len(t) = Len(free)
      /\ \A i \in 1 .. Len(free) : t[i] = IF i = k THEN free[Len(free)] ELSE free[i]
  BY <1>1, SeqExcept
<1> HIDE DEF t
<1>3. Len(free) > 0
  BY <1>1
<1>4. /\ IsSeq(Front(t)) /\ Len(Front(t)) = Len(free) - 1
      /\ \A i \in 1 .. Len(free) - 1 : Front(t)[i] = t[i]
  BY <1>2, <1>3, SeqFront
<1>5. DOMAIN Front(t) = 1 .. Len(free) - 1
  BY <1>4, SeqIs
<1>6. Take(free, k) = Front(t)
  BY DEF Take, t
<1> QED
  BY <1>1, <1>2, <1>4, <1>5, <1>6 DEF Pool

LEMMA PooledAtFound ==
    ASSUME NEW free, NEW size, IsSeq(free)
    PROVE  PooledAt(free, size) = None \/ PooledAt(free, size) \in DOMAIN free
<1> DEFINE same == {k \in DOMAIN free : free[k][1] = size}
<1>1. DOMAIN free = 1 .. Len(free) /\ Len(free) \in Nat
  BY SeqIs
<1>2. same # {} => \E k \in same : \A j \in same : j <= k
  <2>1. same \in SUBSET (1 .. Len(free))
    BY <1>1
  <2> HIDE DEF same
  <2> QED
    BY <1>1, <2>1, Greatest
<1>3. PooledAt(free, size) = IF same = {} THEN None ELSE CHOOSE k \in same : \A j \in same : j <= k
  BY DEF PooledAt
<1>4. same \subseteq DOMAIN free
  OBVIOUS
<1> HIDE DEF same
<1> QED
  BY <1>2, <1>3, <1>4

LEMMA PrefixFinite == \A n \in Nat : IsFiniteSet(1 .. n) /\ Cardinality(1 .. n) = n
<1> TAKE n \in Nat
<1>1. 1 \in Int /\ n \in Int /\ (1 > n <=> n = 0)
  OBVIOUS
<1> QED
  BY <1>1, FS_Interval

LEMMA SeqFinite == ASSUME NEW s, IsSeq(s) PROVE IsFiniteSet(ToSet(s))
<1>1. s \in Surjection(1 .. Len(s), ToSet(s)) /\ Len(s) \in Nat
  BY SeqIs DEF Surjection, ToSet, IsSeq
<1>2. IsFiniteSet(1 .. Len(s))
  BY <1>1, FS_Interval
<1> QED
  BY <1>1, <1>2, FS_Surjection

\* Among more names than there are, one is new.
LEMMA FreshName ==
    ASSUME NEW names, IsFiniteSet(names), NEW size
    PROVE  \E n \in 1 .. Cardinality(names) + 1 : <<size, n>> \notin names
<1> DEFINE C == Cardinality(names)
           f == [n \in 1 .. C + 1 |-> <<size, n>>]
<1>1. C \in Nat
  BY FS_CardinalityType
<1>2. SUFFICES ASSUME \A n \in 1 .. C + 1 : <<size, n>> \in names PROVE FALSE
  OBVIOUS
<1>3. f \in [1 .. C + 1 -> names]
  BY <1>2
<1>4. IsFiniteSet(1 .. C + 1) /\ Cardinality(1 .. C + 1) = C + 1
  BY <1>1, FS_Interval
<1>5. Cardinality(names) < Cardinality(1 .. C + 1)
  BY <1>1, <1>4
<1>6. \E x, y \in 1 .. C + 1 : x # y /\ f[x] = f[y]
  <2> HIDE DEF C, f
  <2> QED
    BY <1>3, <1>4, <1>5, FS_PigeonHole
<1> QED
  BY <1>6

\* y is d with one more picture, which the decoder holds.
Gained(d, y, want) ==
    /\ Shape(y) /\ Planes(y)
    /\ \A f \in Fields \ {"pics", "free"} : y[f] = d[f]
    /\ Len(d.pics) \in Nat /\ DOMAIN d.pics = 1 .. Len(d.pics)
    /\ Len(y.pics) = Len(d.pics) + 1 /\ DOMAIN y.pics = 1 .. Len(d.pics) + 1
    /\ \A i \in DOMAIN d.pics : y.pics[i] = d.pics[i]
    /\ y.pics[Len(d.pics) + 1].refs = 1
    /\ y.pics[Len(d.pics) + 1].released = FALSE
    /\ y.pics[Len(d.pics) + 1].want = want
    /\ y.pics[Len(d.pics) + 1].cvs = d.cvs

\* newPicture gives it planes nobody else has.
LEMMA NewPictureEffect ==
    ASSUME NEW d, Shape(d), Planes(d), NEW s, NEW poc \in Int, NEW tag, NEW corrupt, NEW want
    PROVE  Gained(d, newPicture(d, s, poc, tag, corrupt, want), want)
<1> DEFINE k     == PooledAt(d.free, s.size)
           names == {d.pics[i].buf : i \in DOMAIN d.pics} \cup ToSet(d.free)
           fresh == CHOOSE b \in {<<s.size, n>> : n \in 1 .. Cardinality(names) + 1} : b \notin names
           buf   == IF k = None THEN fresh ELSE d.free[k]
           pic   == [poc |-> poc, tag |-> tag, corrupt |-> corrupt,
                     refs |-> 1, released |-> FALSE, buf |-> buf,
                     want |-> want, cvs |-> d.cvs, units |-> {}, good |-> tag # None]
           N     == Len(d.pics)
           e     == newPicture(d, s, poc, tag, corrupt, want)
<1>1. e = [d EXCEPT !.free = IF k = None THEN d.free ELSE Take(d.free, k),
                    !.pics = Append(d.pics, pic)]
  BY DEF newPicture
<1>2. /\ DOMAIN d = Fields /\ IsSeq(d.pics) /\ DOMAIN d.pics = 1 .. N /\ N \in Nat
      /\ IsSeq(d.free) /\ DOMAIN d.free = 1 .. Len(d.free) /\ Len(d.free) \in Nat
      /\ ToSet(d.free) = {d.free[i] : i \in DOMAIN d.free}
  BY SeqIs DEF Shape
<1>3. /\ fresh \in {<<s.size, n>> : n \in 1 .. Cardinality(names) + 1} /\ fresh \notin names
      /\ Cardinality(names) \in Nat
  <2> DEFINE cand == {<<s.size, n>> : n \in 1 .. Cardinality(names) + 1}
             g    == [i \in 1 .. N |-> d.pics[i].buf]
  <2>1. g \in Surjection(1 .. N, {d.pics[i].buf : i \in DOMAIN d.pics})
    BY <1>2 DEF Surjection
  <2>2. IsFiniteSet(1 .. N)
    BY <1>2, PrefixFinite
  <2>3. IsFiniteSet(names)
    <3> HIDE DEF g, N
    <3>1. IsFiniteSet({d.pics[i].buf : i \in DOMAIN d.pics})
      BY <2>1, <2>2, FS_Surjection
    <3> QED
      BY <1>2, <3>1, SeqFinite, FS_Union
  <2> HIDE DEF names
  <2>4. \E b \in cand : b \notin names
    BY <2>3, FreshName
  <2>5. Cardinality(names) \in Nat
    BY <2>3, FS_CardinalityType
  <2> HIDE DEF cand
  <2> QED
    BY <2>4, <2>5 DEF cand
<1>4. /\ buf # NoBuf /\ \A i \in DOMAIN d.pics : d.pics[i].buf # buf
      /\ Pool(e.free, {d.pics[i].buf : i \in DOMAIN d.pics} \cup {buf})
  <2>1. e.free = IF k = None THEN d.free ELSE Take(d.free, k)
    <3> HIDE DEF k, pic
    <3> QED
      BY <1>1, <1>2 DEF Fields
  <2>2. Pool(d.free, {d.pics[i].buf : i \in DOMAIN d.pics})
    BY <1>2 DEF Planes, Pool
  <2>3. CASE k = None
    <3>1. buf = fresh
      BY <2>3
    <3>2. (\A i \in DOMAIN d.pics : d.pics[i].buf \in names) /\ \A j \in DOMAIN d.free : d.free[j] \in names
      BY <1>2
    <3> HIDE DEF k, buf, names, fresh
    <3>3. buf # NoBuf
      BY <1>3, <3>1 DEF NoBuf
    <3>4. \A j \in DOMAIN d.free : d.free[j] # buf
      BY <1>3, <3>1, <3>2
    <3>5. \A i \in DOMAIN d.pics : d.pics[i].buf # buf
      BY <1>3, <3>1, <3>2
    <3> QED
      BY <2>1, <2>2, <2>3, <3>3, <3>4, <3>5 DEF Pool
  <2>4. CASE k # None
    <3>1. k \in DOMAIN d.free /\ buf = d.free[k]
      BY <1>2, <2>4, PooledAtFound
    <3> HIDE DEF k, buf
    <3>2. buf # NoBuf /\ \A i \in DOMAIN d.pics : d.pics[i].buf # buf
      BY <3>1 DEF Planes
    <3> QED
      BY <2>1, <2>2, <2>4, <3>1, <3>2, TakePool
  <2> QED
    BY <2>3, <2>4
<1>5. /\ DOMAIN pic = PicFields /\ pic.refs = 1 /\ pic.released = FALSE /\ pic.want = want
      /\ pic.poc = poc /\ pic.buf = buf /\ pic.cvs = d.cvs
  <2> HIDE DEF buf
  <2> QED
    BY DEF PicFields
<1> HIDE DEF k, names, fresh, buf, pic, N, e
<1>6. /\ DOMAIN e = Fields /\ e.pics = Append(d.pics, pic)
      /\ \A f \in Fields \ {"pics", "free"} : e[f] = d[f]
  BY <1>1, <1>2 DEF Fields
<1>7. /\ IsSeq(e.pics) /\ Len(e.pics) = N + 1 /\ DOMAIN e.pics = 1 .. N + 1
      /\ \A i \in DOMAIN d.pics : e.pics[i] = d.pics[i]
      /\ e.pics[N + 1] = pic
  <2>1. /\ IsSeq(e.pics) /\ Len(e.pics) = N + 1
        /\ \A i \in DOMAIN d.pics : e.pics[i] = d.pics[i]
        /\ e.pics[N + 1] = pic
    BY <1>2, <1>6, SeqAppend DEF N
  <2> QED
    BY <2>1, SeqIs
<1>8. e.dpb = d.dpb /\ e.shown = d.shown /\ e.cur = d.cur
  BY <1>6 DEF Fields
<1>9. DOMAIN d.pics \subseteq DOMAIN e.pics
  BY <1>2, <1>7
<1>10. \A i \in DOMAIN e.pics : \/ i \in DOMAIN d.pics /\ e.pics[i] = d.pics[i]
                                \/ i = N + 1 /\ e.pics[i] = pic
  BY <1>2, <1>7
<1>11. Shape(e)
  <2>1. \A i \in DOMAIN e.pics : /\ DOMAIN e.pics[i] = PicFields
                                 /\ e.pics[i].refs \in Nat
                                 /\ e.pics[i].poc \in Int
    BY <1>5, <1>10 DEF Shape
  <2>2. IsSeq(e.free)
    BY <1>4 DEF Pool
  <2> QED
    BY <1>6, <1>7, <1>8, <1>9, <2>1, <2>2 DEF Shape
<1>12. Planes(e)
  <2>1. \A i \in DOMAIN e.pics : e.pics[i].refs > 0 <=> e.pics[i].buf # NoBuf
    BY <1>4, <1>5, <1>10 DEF Planes
  <2>2. ASSUME NEW i \in DOMAIN e.pics, NEW j \in DOMAIN e.pics, i # j,
               e.pics[i].buf = e.pics[j].buf
        PROVE  e.pics[i].buf = NoBuf
    BY <1>4, <1>5, <1>10, <2>2 DEF Planes
  <2>3. ASSUME NEW i \in DOMAIN e.pics, NEW j \in DOMAIN e.free
        PROVE  e.pics[i].buf # e.free[j]
    BY <1>4, <1>5, <1>10 DEF Pool
  <2> QED
    BY <1>4, <2>1, <2>2, <2>3 DEF Planes, Pool
<1>13. Gained(d, e, want)
  BY <1>2, <1>5, <1>6, <1>7, <1>11, <1>12 DEF Gained, N
<1> QED
  BY <1>13 DEF e

-----------------------------------------------------------------------------
(* Some elements of a sequence, in their order.                            *)

LEMMA PickedRuns ==
    ASSUME NEW s, NEW S, Len(s) \in Nat
    PROVE  \E picked :
             /\ picked = [n \in 0 .. Len(s) |->
                             IF n = 0 THEN <<>>
                             ELSE IF n \in S THEN Append(picked[n - 1], s[n]) ELSE picked[n - 1]]
             /\ Picked(s, S) = picked[Len(s)]
<1> DEFINE Step(x, n) == IF n \in S THEN Append(x, s[n]) ELSE x
           Run(g, l) == g = [n \in 0 .. l |-> IF n = 0 THEN <<>> ELSE Step(g[n - 1], n)]
           T == {l \in Nat : \E g : Run(g, l)}
<1>1. 0 \in T
  <2>1. Run([n \in 0 .. 0 |-> <<>>], 0)
    OBVIOUS
  <2> QED
    BY <2>1
<1>2. ASSUME NEW l \in T PROVE l + 1 \in T
  <2>1. PICK g : Run(g, l)
    OBVIOUS
  <2> HIDE DEF Step
  <2> DEFINE h == [n \in 0 .. l + 1 |-> IF n = l + 1 THEN Step(g[l], l + 1) ELSE g[n]]
  <2>2. l \in Nat
    OBVIOUS
  <2>3. ASSUME NEW n \in 0 .. l + 1 PROVE h[n] = IF n = 0 THEN <<>> ELSE Step(h[n - 1], n)
    BY <2>1, <2>2
  <2>4. Run(h, l + 1)
    BY <2>3
  <2> HIDE DEF h, Run
  <2> QED
    BY <2>2, <2>4
<1>3. Len(s) \in T
  <2> HIDE DEF T
  <2>1. T = Nat
    BY <1>1, <1>2, Induct DEF T
  <2> QED
    BY <2>1
<1> QED
  BY <1>3 DEF Picked

\* What is picked are the elements at the chosen positions, each as often as
\* it is there.
LEMMA PickedIs ==
    ASSUME NEW s, IsSeq(s), NEW S
    PROVE  /\ IsSeq(Picked(s, S))
           /\ \A j \in DOMAIN Picked(s, S) : \E i \in DOMAIN s \cap S : Picked(s, S)[j] = s[i]
           /\ \A i \in DOMAIN s \cap S : \E j \in DOMAIN Picked(s, S) : Picked(s, S)[j] = s[i]
           /\ (\A i, k \in DOMAIN s : s[i] = s[k] => i = k) =>
                 \A j, k \in DOMAIN Picked(s, S) : Picked(s, S)[j] = Picked(s, S)[k] => j = k
<1> DEFINE Part(p, n) ==
             /\ IsSeq(p)
             /\ \A j \in DOMAIN p : \E i \in 1 .. n : i \in S /\ p[j] = s[i]
             /\ \A i \in 1 .. n : i \in S => \E j \in DOMAIN p : p[j] = s[i]
             /\ (\A i, k \in DOMAIN s : s[i] = s[k] => i = k) =>
                   \A j, k \in DOMAIN p : p[j] = p[k] => j = k
<1>1. Len(s) \in Nat /\ DOMAIN s = 1 .. Len(s)
  BY SeqIs
<1>2. PICK picked :
             /\ picked = [n \in 0 .. Len(s) |->
                             IF n = 0 THEN <<>>
                             ELSE IF n \in S THEN Append(picked[n - 1], s[n]) ELSE picked[n - 1]]
             /\ Picked(s, S) = picked[Len(s)]
  BY <1>1, PickedRuns
<1> DEFINE T == {n \in Nat : n <= Len(s) => Part(picked[n], n)}
<1>3. 0 \in T
  <2>1. picked[0] = <<>>
    BY <1>1, <1>2
  <2>2. Part(<<>>, 0)
    BY SeqEmpty
  <2> HIDE DEF Part
  <2> QED
    BY <2>1, <2>2
<1>4. ASSUME NEW n \in T PROVE n + 1 \in T
  <2> SUFFICES ASSUME n + 1 <= Len(s) PROVE Part(picked[n + 1], n + 1)
    OBVIOUS
  <2>1. Part(picked[n], n) /\ n \in Nat
    BY <1>1
  <2>2. picked[n + 1] = IF n + 1 \in S THEN Append(picked[n], s[n + 1]) ELSE picked[n]
    <3>1. n + 1 \in 0 .. Len(s) /\ n + 1 # 0 /\ (n + 1) - 1 = n
      BY <1>1, <2>1
    <3> HIDE DEF T, Part
    <3> QED
      BY <1>2, <3>1
  <2>3. \A i \in 1 .. n + 1 : i \in 1 .. n \/ i = n + 1
    BY <2>1
  <2>4. CASE n + 1 \notin S
    <3>1. picked[n + 1] = picked[n]
      BY <2>2, <2>4
    <3>2. Part(picked[n], n + 1)
      BY <2>1, <2>3, <2>4
    <3> HIDE DEF Part
    <3> QED
      BY <3>1, <3>2
  <2>5. CASE n + 1 \in S
    <3> DEFINE p == picked[n]
               q == Append(p, s[n + 1])
    <3>1. /\ IsSeq(p) /\ Len(p) \in Nat /\ DOMAIN p = 1 .. Len(p)
      BY <2>1, SeqIs
    <3>2. /\ IsSeq(q) /\ DOMAIN q = 1 .. Len(p) + 1
          /\ \A j \in 1 .. Len(p) : q[j] = p[j]
          /\ q[Len(p) + 1] = s[n + 1]
      BY <3>1, SeqAppend, SeqIs
    <3>3. /\ n + 1 \in 1 .. n + 1 /\ n + 1 \in DOMAIN s /\ 1 .. n \subseteq 1 .. n + 1
          /\ 1 .. n \subseteq DOMAIN s /\ n + 1 \notin 1 .. n
      BY <1>1, <2>1
    <3>4. \A j \in DOMAIN q : (j \in DOMAIN p /\ q[j] = p[j]) \/ (j = Len(p) + 1 /\ q[j] = s[n + 1])
      BY <3>1, <3>2
    <3>5. \A j \in DOMAIN p : j \in DOMAIN q /\ q[j] = p[j]
      BY <3>1, <3>2
    <3>6. Len(p) + 1 \in DOMAIN q
      BY <3>1, <3>2
    <3>7. /\ \A j \in DOMAIN p : \E i \in 1 .. n : i \in S /\ p[j] = s[i]
          /\ \A i \in 1 .. n : i \in S => \E j \in DOMAIN p : p[j] = s[i]
          /\ (\A i, k \in DOMAIN s : s[i] = s[k] => i = k) =>
                   \A j, k \in DOMAIN p : p[j] = p[k] => j = k
      BY <2>1
    <3>8. picked[n + 1] = q
      BY <2>2, <2>5
    <3> HIDE DEF p, q
    <3>9. \A j \in DOMAIN q : \E i \in 1 .. n + 1 : i \in S /\ q[j] = s[i]
      BY <2>5, <3>3, <3>4, <3>7
    <3>10. ASSUME NEW i \in 1 .. n + 1, i \in S PROVE \E j \in DOMAIN q : q[j] = s[i]
      <4>1. CASE i = n + 1
        BY <3>4, <3>5, <3>6, <4>1, <3>1, <3>2
      <4>2. CASE i \in 1 .. n
        <5>1. PICK j \in DOMAIN p : p[j] = s[i]
          BY <3>7, <3>10, <4>2
        <5> QED
          BY <3>5, <5>1
      <4> QED
        BY <2>3, <4>1, <4>2
    <3>11. ASSUME \A i, k \in DOMAIN s : s[i] = s[k] => i = k,
                  NEW j \in DOMAIN q, NEW k \in DOMAIN q, q[j] = q[k]
           PROVE  j = k
      <4>1. \A i \in DOMAIN p : p[i] # s[n + 1]
        BY <3>3, <3>7, <3>11
      <4> QED
        BY <3>4, <3>7, <3>11, <4>1
    <3>12. Part(q, n + 1)
      BY <3>2, <3>9, <3>10, <3>11
    <3> HIDE DEF Part
    <3> QED
      BY <3>8, <3>12
  <2> QED
    BY <2>4, <2>5
<1>5. Part(picked[Len(s)], Len(s))
  <2> HIDE DEF T, Part
  <2>1. T = Nat
    BY <1>3, <1>4, Induct DEF T
  <2>2. Len(s) \in T
    BY <1>1, <2>1
  <2> QED
    BY <1>1, <2>2 DEF T
<1> DEFINE p == picked[Len(s)]
<1>6. Picked(s, S) = p /\ Part(p, Len(s))
  BY <1>2, <1>5
<1> HIDE DEF p
<1>7. \A i : i \in DOMAIN s \cap S <=> i \in 1 .. Len(s) /\ i \in S
  BY <1>1
<1> QED
  BY <1>6, <1>7

-----------------------------------------------------------------------------
(* The buffer.                                                             *)

\* What waits to be output, and for how long.
WaitPics(d) == {d.dpb[k].pic : k \in Waiting(d)}
Waits(d)    == {<<d.dpb[k].pic, d.dpb[k].latency>> : k \in Waiting(d)}

\* Nothing new waits, and what is returned was waiting.
Follows(d, e) ==
    /\ \A i \in DOMAIN d.pics : i \in DOMAIN e.pics /\ e.pics[i].cvs = d.pics[i].cvs
    /\ \A w \in Waits(e) : w \in Waits(d)
    /\ \A j \in DOMAIN d.shown : j \in DOMAIN e.shown /\ e.shown[j] = d.shown[j]
    /\ \A k \in DOMAIN e.shown : \/ k \in DOMAIN d.shown
                                 \/ /\ e.shown[k] \in WaitPics(d)
                                    /\ \A j \in DOMAIN d.shown : ~(k < j)

\* A step that concerns the buffer and the pictures only.
Same(d, e) ==
    /\ \A f \in Fields \ {"pics", "free", "dpb", "shown"} : e[f] = d[f]
    /\ DOMAIN d.pics \subseteq DOMAIN e.pics
    /\ Follows(d, e)

LEMMA WaitPicsOf ==
    ASSUME NEW d, NEW e, \A w \in Waits(e) : w \in Waits(d)
    PROVE  \A p \in WaitPics(e) : p \in WaitPics(d)
<1> SUFFICES ASSUME NEW k \in Waiting(e) PROVE e.dpb[k].pic \in WaitPics(d)
  BY DEF WaitPics
<1> DEFINE p == e.dpb[k].pic
           l == e.dpb[k].latency
<1>1. <<p, l>> \in Waits(d)
  BY DEF Waits
<1> HIDE DEF p, l
<1>2. PICK j \in Waiting(d) : <<p, l>> = <<d.dpb[j].pic, d.dpb[j].latency>>
  BY <1>1 DEF Waits
<1>3. p = d.dpb[j].pic
  BY <1>2
<1> QED
  BY <1>3 DEF WaitPics, p

LEMMA FollowsTrans ==
    ASSUME NEW d, NEW e, NEW f, Follows(d, e), Follows(e, f)
    PROVE  Follows(d, f)
<1>1. \A p \in WaitPics(e) : p \in WaitPics(d)
  BY WaitPicsOf DEF Follows
<1>2. \A i \in DOMAIN d.pics : i \in DOMAIN f.pics /\ f.pics[i].cvs = d.pics[i].cvs
  BY DEF Follows
<1>3. \A w \in Waits(f) : w \in Waits(d)
  BY DEF Follows
<1>4. \A j \in DOMAIN d.shown : j \in DOMAIN f.shown /\ f.shown[j] = d.shown[j]
  BY DEF Follows
<1>5. ASSUME NEW k \in DOMAIN f.shown, k \notin DOMAIN d.shown
      PROVE  f.shown[k] \in WaitPics(d) /\ \A j \in DOMAIN d.shown : ~(k < j)
  <2>1. CASE k \in DOMAIN e.shown
    BY <1>5, <2>1 DEF Follows
  <2>2. CASE k \notin DOMAIN e.shown
    BY <1>1, <2>2 DEF Follows
  <2> QED
    BY <2>1, <2>2
<1> QED
  BY <1>2, <1>3, <1>4, <1>5 DEF Follows

LEMMA SameRefl == ASSUME NEW d PROVE Same(d, d)
  BY DEF Same, Follows

LEMMA SameTypes == ASSUME NEW d, NEW e, Types(d), Same(d, e) PROVE Types(e)
<1>1. /\ e.sps = d.sps /\ e.pps = d.pps /\ e.prevSlic = d.prevSlic /\ e.ctu = d.ctu
      /\ e.cur = d.cur /\ e.poc = d.poc /\ e.curRPS = d.curRPS /\ e.curOut = d.curOut
      /\ e.cvs = d.cvs
  BY DEF Same, Fields
<1> QED
  BY <1>1 DEF Types

LEMMA SameTrans == ASSUME NEW d, NEW e, NEW f, Same(d, e), Same(e, f) PROVE Same(d, f)
  BY FollowsTrans DEF Same

\* What waits is of sequence c, and what was returned is in the order of the
\* sequences, none of them behind c.
Sequenced(d, c) ==
    /\ c \in Nat
    /\ \A p \in WaitPics(d) : p \in DOMAIN d.pics /\ d.pics[p].cvs = c
    /\ \A k \in DOMAIN d.shown : /\ d.shown[k] \in DOMAIN d.pics
                                 /\ d.pics[d.shown[k]].cvs \in 0 .. c
    /\ \A j, k \in DOMAIN d.shown :
          j < k => d.pics[d.shown[j]].cvs <= d.pics[d.shown[k]].cvs

\* Nothing waits that C.5.2.3 would let out.
Calm(d) ==
    /\ d.maxReorder \in Nat
    /\ IsFiniteSet(WaitPics(d)) /\ Cardinality(WaitPics(d)) <= d.maxReorder
    /\ d.maxLatency # 0 =>
          \A w \in Waits(d) : ~(w[2] >= d.maxReorder + d.maxLatency - 1)

Steady(d) ==
    /\ Sequenced(d, d.cvs) /\ Calm(d)
    /\ d.cur # None => d.cur \in DOMAIN d.pics /\ d.pics[d.cur].cvs = d.cvs

LEMMA FollowsSequenced ==
    ASSUME NEW d, NEW e, NEW c, Follows(d, e), Sequenced(d, c)
    PROVE  Sequenced(e, c)
<1>1. \A p \in WaitPics(e) : p \in WaitPics(d)
  BY WaitPicsOf DEF Follows
<1>2. \A i \in DOMAIN d.pics : i \in DOMAIN e.pics /\ e.pics[i].cvs = d.pics[i].cvs
  BY DEF Follows
<1>3. \A p \in WaitPics(e) : p \in DOMAIN e.pics /\ e.pics[p].cvs = c
  BY <1>1, <1>2 DEF Sequenced
<1>4. \A k \in DOMAIN e.shown :
         \/ /\ k \in DOMAIN d.shown /\ e.shown[k] = d.shown[k]
            /\ e.shown[k] \in DOMAIN e.pics
            /\ e.pics[e.shown[k]].cvs = d.pics[d.shown[k]].cvs
            /\ e.pics[e.shown[k]].cvs \in 0 .. c
         \/ /\ e.shown[k] \in DOMAIN e.pics /\ e.pics[e.shown[k]].cvs = c
            /\ \A j \in DOMAIN d.shown : ~(k < j)
  BY <1>2 DEF Follows, Sequenced
<1>5. c \in Nat /\ c \in 0 .. c
  BY DEF Sequenced
<1>6. \A j, k \in DOMAIN e.shown :
         j < k => e.pics[e.shown[j]].cvs <= e.pics[e.shown[k]].cvs
  <2> SUFFICES ASSUME NEW j \in DOMAIN e.shown, NEW k \in DOMAIN e.shown, j < k
               PROVE  e.pics[e.shown[j]].cvs <= e.pics[e.shown[k]].cvs
    OBVIOUS
  <2>1. CASE k \in DOMAIN d.shown
    <3>1. j \in DOMAIN d.shown
      BY <1>4, <2>1
    <3> QED
      BY <1>2, <2>1, <3>1 DEF Follows, Sequenced
  <2>2. CASE k \notin DOMAIN d.shown
    BY <1>4, <1>5, <2>2
  <2> QED
    BY <2>1, <2>2
<1>7. \A k \in DOMAIN e.shown : /\ e.shown[k] \in DOMAIN e.pics
                                /\ e.pics[e.shown[k]].cvs \in 0 .. c
  BY <1>4, <1>5
<1> QED
  BY <1>3, <1>5, <1>6, <1>7 DEF Sequenced

LEMMA SequencedLater ==
    ASSUME NEW d, NEW c, Sequenced(d, c), WaitPics(d) = {}
    PROVE  Sequenced(d, c + 1)
  BY DEF Sequenced

LEMMA SameCalm == ASSUME NEW d, NEW e, Same(d, e), Calm(d) PROVE Calm(e)
<1>1. e.maxReorder = d.maxReorder /\ e.maxLatency = d.maxLatency
  BY DEF Same, Fields
<1>2. \A w \in Waits(e) : w \in Waits(d)
  BY DEF Same, Follows
<1>3. WaitPics(e) \subseteq WaitPics(d)
  BY <1>2, WaitPicsOf
<1>4. /\ IsFiniteSet(WaitPics(e)) /\ Cardinality(WaitPics(e)) <= Cardinality(WaitPics(d))
      /\ Cardinality(WaitPics(e)) \in Nat /\ Cardinality(WaitPics(d)) \in Nat
  BY <1>3, FS_Subset, FS_CardinalityType DEF Calm
<1>5. Cardinality(WaitPics(e)) <= d.maxReorder
  BY <1>4 DEF Calm
<1> QED
  BY <1>1, <1>2, <1>4, <1>5 DEF Calm

LEMMA SameSteady == ASSUME NEW d, NEW e, Same(d, e), Steady(d) PROVE Steady(e)
<1>1. e.cvs = d.cvs /\ e.cur = d.cur /\ Follows(d, e)
  BY DEF Same, Fields
<1>2. Sequenced(e, e.cvs)
  BY <1>1, FollowsSequenced DEF Steady
<1>3. e.cur # None => e.cur \in DOMAIN e.pics /\ e.pics[e.cur].cvs = e.cvs
  BY <1>1 DEF Steady, Follows
<1> QED
  BY <1>2, <1>3, SameCalm DEF Steady

\* Nothing waits in an empty buffer.
LEMMA EmptyCalm ==
    ASSUME NEW d, WaitPics(d) = {}, d.maxReorder \in Nat
    PROVE  Calm(d)
<1>1. Waits(d) = {}
  BY DEF Waits, WaitPics
<1>2. IsFiniteSet({}) /\ Cardinality({}) = 0
  BY FS_EmptySet
<1> QED
  BY <1>1, <1>2 DEF Calm

LEMMA FrameKeeps ==
    ASSUME NEW d, NEW e, Shape(d), Frame(d, e)
    PROVE  /\ Same(d, e) /\ DOMAIN e.pics = DOMAIN d.pics
           /\ e.dpb = d.dpb /\ e.shown = d.shown /\ e.cur = d.cur /\ e.curOut = d.curOut
           /\ Buffered(e) = Buffered(d) /\ Returned(e) = Returned(d) /\ InDecoder(e) = InDecoder(d)
           /\ \A i \in DOMAIN d.pics : /\ e.pics[i].want = d.pics[i].want
                                       /\ e.pics[i].released = d.pics[i].released
                                       /\ e.pics[i].poc = d.pics[i].poc
           /\ Distinct(d) => Distinct(e)
           /\ Output(d) => Output(e)
           /\ \A X : Due(d, X) => Due(e, X)
           /\ WaitPics(e) = WaitPics(d)
<1>1. /\ e.dpb = d.dpb /\ e.shown = d.shown /\ e.cur = d.cur /\ e.curOut = d.curOut
      /\ \A f \in Fields \ {"pics", "free", "dpb", "shown"} : e[f] = d[f]
  BY DEF Frame, Fields
<1>2. DOMAIN e.pics = DOMAIN d.pics
  BY SeqIs DEF Frame, Shape
<1>3. \A i \in DOMAIN d.pics : /\ e.pics[i].want = d.pics[i].want
                               /\ e.pics[i].released = d.pics[i].released
                               /\ e.pics[i].poc = d.pics[i].poc
  BY DEF Frame, PicFields
<1>4. /\ Buffered(e) = Buffered(d) /\ Returned(e) = Returned(d)
  BY <1>1 DEF Buffered, Returned
<1>5. InDecoder(e) = InDecoder(d)
  BY <1>1, <1>4 DEF InDecoder
<1>6. Distinct(d) => Distinct(e)
  BY <1>1, <1>4 DEF Distinct
<1>7. \A i \in Buffered(d) \cup Returned(d) : i \in DOMAIN d.pics
  BY DEF Buffered, Returned, Shape
<1>8. ASSUME Output(d) PROVE Output(e)
  <2>1. \A k \in DOMAIN d.dpb : d.dpb[k].pic \in DOMAIN d.pics
    BY DEF Shape
  <2>2. d.cur # None => d.cur \in DOMAIN d.pics
    BY DEF Shape
  <2> QED
    BY <1>1, <1>2, <1>3, <1>4, <1>7, <1>8, <2>1, <2>2 DEF Output
<1>9. \A X : Due(d, X) => Due(e, X)
  BY <1>1, <1>2, <1>3, <1>4 DEF Due
<1>10. WaitPics(e) = WaitPics(d) /\ Waits(e) = Waits(d)
  BY <1>1 DEF WaitPics, Waits, Waiting
<1>11. \A i \in DOMAIN d.pics : e.pics[i].cvs = d.pics[i].cvs
  BY DEF Frame, PicFields
<1>12. Same(d, e)
  BY <1>1, <1>2, <1>10, <1>11 DEF Same, Follows
<1> QED
  BY <1>1, <1>2, <1>3, <1>4, <1>5, <1>6, <1>8, <1>9, <1>10, <1>12

\* Who gives up a hold had one.
LEMMA ReleaseHeld ==
    ASSUME NEW d, Shape(d), Planes(d), NEW H, Held(d, H), NEW S, S \subseteq H,
           S \subseteq DOMAIN d.pics
    PROVE  /\ Frame(d, release(d, S)) /\ Shape(release(d, S)) /\ Planes(release(d, S))
           /\ Held(release(d, S), H \ S)
<1> DEFINE e == release(d, S)
<1>1. /\ Frame(d, e) /\ Shape(e) /\ Planes(e)
      /\ \A i \in DOMAIN d.pics :
            e.pics[i].refs = IF i \in S /\ d.pics[i].refs > 0 THEN d.pics[i].refs - 1
                             ELSE d.pics[i].refs
  BY ReleaseEffect
<1> HIDE DEF e
<1>2. /\ DOMAIN e.pics = DOMAIN d.pics /\ Returned(e) = Returned(d)
      /\ \A i \in DOMAIN d.pics : e.pics[i].released = d.pics[i].released
  BY <1>1, FrameKeeps
<1>3. ASSUME NEW i \in DOMAIN d.pics
      PROVE  e.pics[i].refs = (IF i \in H \ S THEN 1 ELSE 0)
                              + (IF i \in Returned(d) /\ ~d.pics[i].released THEN 1 ELSE 0)
  <2> DEFINE c == IF i \in Returned(d) /\ ~d.pics[i].released THEN 1 ELSE 0
  <2>1. c \in Nat
    OBVIOUS
  <2>2. d.pics[i].refs = (IF i \in H THEN 1 ELSE 0) + c
    BY DEF Held
  <2> HIDE DEF c
  <2>3. e.pics[i].refs = (IF i \in H \ S THEN 1 ELSE 0) + c
    BY <1>1, <2>1, <2>2
  <2> QED
    BY <2>3 DEF c
<1>4. Held(e, H \ S)
  BY <1>2, <1>3 DEF Held
<1> QED
  BY <1>1, <1>4 DEF e

LEMMA RemoveUnusedSafe ==
    ASSUME NEW d, NEW X, Safe(d, X)
    PROVE  /\ Safe(dpbRemoveUnused(d), X) /\ Same(d, dpbRemoveUnused(d))
           /\ WaitPics(dpbRemoveUnused(d)) = WaitPics(d)
           /\ DOMAIN dpbRemoveUnused(d).pics = DOMAIN d.pics
<1> DEFINE S == {d.dpb[k].pic : k \in DOMAIN d.dpb \ InUse(d)}
           p == Picked(d.dpb, InUse(d))
           b == [d EXCEPT !.dpb = p]
           e == release(b, S)
<1>1. e = dpbRemoveUnused(d)
  BY DEF dpbRemoveUnused
<1>2. /\ IsSeq(d.dpb) /\ DOMAIN d.dpb = 1 .. Len(d.dpb) /\ DOMAIN d = Fields
  BY SeqIs DEF Safe, Shape
<1>3. \A i, k \in DOMAIN d.dpb : d.dpb[i].pic = d.dpb[k].pic => i = k
  BY DEF Safe, Distinct
<1>4. InUse(d) \subseteq DOMAIN d.dpb
  BY DEF InUse
<1>5. /\ IsSeq(p)
      /\ \A j \in DOMAIN p : \E i \in InUse(d) : p[j] = d.dpb[i]
      /\ \A i \in InUse(d) : \E j \in DOMAIN p : p[j] = d.dpb[i]
      /\ \A j, k \in DOMAIN p : p[j] = p[k] => j = k
  <2>1. \A i, k \in DOMAIN d.dpb : d.dpb[i] = d.dpb[k] => i = k
    BY <1>3
  <2>2. DOMAIN d.dpb \cap InUse(d) = InUse(d)
    BY <1>4
  <2> QED
    BY <1>2, <2>1, <2>2, PickedIs
<1> HIDE DEF p
<1>6. /\ DOMAIN b = Fields /\ b.dpb = p
      /\ \A f \in Fields \ {"dpb"} : b[f] = d[f]
  BY <1>2 DEF Fields
<1> HIDE DEF b
<1>7. /\ b.pics = d.pics /\ b.free = d.free /\ b.shown = d.shown /\ b.cur = d.cur
      /\ b.curOut = d.curOut /\ Returned(b) = Returned(d)
  BY <1>6 DEF Fields, Returned
<1>8. \A j \in DOMAIN b.dpb : \E i \in DOMAIN d.dpb : b.dpb[j] = d.dpb[i]
  BY <1>4, <1>5, <1>6
<1>9. Shape(b)
  <2>1. Shape(d)
    BY DEF Safe
  <2>2. \A j \in DOMAIN b.dpb : DOMAIN b.dpb[j] = EntryFields /\ b.dpb[j].pic \in DOMAIN d.pics
    BY <1>8, <2>1 DEF Shape
  <2> QED
    BY <1>5, <1>6, <1>7, <2>1, <2>2 DEF Shape
<1>10. Planes(b)
  BY <1>7 DEF Safe, Planes
<1>11. Distinct(b)
  <2>1. ASSUME NEW j \in DOMAIN p, NEW k \in DOMAIN p, p[j].pic = p[k].pic PROVE j = k
    <3>1. PICK i \in DOMAIN d.dpb : p[j] = d.dpb[i]
      BY <1>4, <1>5
    <3>2. PICK l \in DOMAIN d.dpb : p[k] = d.dpb[l]
      BY <1>4, <1>5
    <3>3. i = l
      BY <1>3, <2>1, <3>1, <3>2
    <3> QED
      BY <1>5, <3>1, <3>2, <3>3
  <2>2. Buffered(b) \subseteq Buffered(d)
    BY <1>8 DEF Buffered
  <2> QED
    BY <1>6, <1>7, <2>1, <2>2 DEF Safe, Distinct
<1>12. Output(b)
  BY <1>7, <1>8 DEF Safe, Output
<1>13. \A i \in Waiting(d) : i \in InUse(d)
  BY DEF Waiting, InUse
<1>14. Due(b, X)
  <2> SUFFICES ASSUME NEW i \in DOMAIN d.pics, NEW k \in DOMAIN d.dpb,
                      d.dpb[k].pic = i, d.dpb[k].output
               PROVE  \E j \in DOMAIN b.dpb : b.dpb[j].pic = i /\ b.dpb[j].output
    BY <1>7 DEF Safe, Due
  <2>1. k \in InUse(d)
    BY DEF InUse
  <2> QED
    BY <1>5, <1>6, <2>1
<1>15. WaitPics(b) = WaitPics(d)
  <2>1. WaitPics(b) \subseteq WaitPics(d)
    BY <1>8 DEF WaitPics, Waiting
  <2>2. WaitPics(d) \subseteq WaitPics(b)
    <3> SUFFICES ASSUME NEW k \in Waiting(d) PROVE d.dpb[k].pic \in WaitPics(b)
      BY DEF WaitPics
    <3>1. PICK j \in DOMAIN p : p[j] = d.dpb[k]
      BY <1>5, <1>13
    <3> QED
      BY <1>6, <3>1 DEF WaitPics, Waiting
  <2> QED
    BY <2>1, <2>2
<1>16. /\ S \subseteq DOMAIN b.pics /\ S \subseteq InDecoder(d)
       /\ Held(b, InDecoder(d))
  <2>1. Held(b, InDecoder(d))
    BY <1>7 DEF Safe, Held
  <2>2. S \subseteq DOMAIN b.pics /\ S \subseteq Buffered(d)
    BY <1>7 DEF Safe, Shape, Buffered
  <2> QED
    BY <2>1, <2>2 DEF InDecoder
<1>17. InDecoder(b) = InDecoder(d) \ S
  <2>1. Buffered(b) = Buffered(d) \ S
    <3>1. ASSUME NEW j \in DOMAIN p PROVE p[j].pic \in Buffered(d) /\ p[j].pic \notin S
      <4>1. PICK i \in InUse(d) : p[j] = d.dpb[i]
        BY <1>5
      <4> QED
        BY <1>3, <1>4, <4>1 DEF Buffered
    <3>2. ASSUME NEW k \in DOMAIN d.dpb, d.dpb[k].pic \notin S
          PROVE  \E j \in DOMAIN p : p[j].pic = d.dpb[k].pic
      <4>1. k \in InUse(d)
        BY <3>2
      <4> QED
        BY <1>5, <4>1
    <3> HIDE DEF S
    <3> QED
      BY <1>6, <3>1, <3>2 DEF Buffered
  <2>2. d.cur \notin S
    BY DEF Safe, Distinct, Buffered
  <2> HIDE DEF S
  <2> QED
    BY <1>7, <2>1, <2>2 DEF InDecoder
<1> HIDE DEF S
<1>18. Frame(b, e) /\ Shape(e) /\ Planes(e) /\ Held(e, InDecoder(d) \ S)
  BY <1>9, <1>10, <1>16, ReleaseHeld
<1> HIDE DEF e
<1>19. /\ Same(b, e) /\ InDecoder(e) = InDecoder(b) /\ Distinct(e) /\ Output(e) /\ Due(e, X)
       /\ WaitPics(e) = WaitPics(b) /\ DOMAIN e.pics = DOMAIN b.pics
  BY <1>9, <1>11, <1>12, <1>14, <1>18, FrameKeeps
<1>20. Safe(e, X)
  BY <1>17, <1>18, <1>19 DEF Safe
<1>21. Same(d, e)
  <2>1. \A w \in Waits(b) : w \in Waits(d)
    BY <1>8 DEF Waits, Waiting
  <2>2. Same(d, b)
    BY <1>6, <1>7, <2>1 DEF Same, Follows, Fields
  <2> QED
    BY <1>19, <2>2, SameTrans
<1> QED
  BY <1>1, <1>7, <1>15, <1>19, <1>20, <1>21

\* The buffer gives up all its holds, and what still waited in it.
LEMMA ClearEffect ==
    ASSUME NEW d, Shape(d), Planes(d), NEW H, Held(d, H), \A i \in Buffered(d) : i \in H,
           NEW e, e = clearDPB(d)
    PROVE  /\ Shape(e) /\ Planes(e) /\ Held(e, H \ Buffered(d)) /\ Same(d, e)
           /\ e.dpb = <<>> /\ e.shown = d.shown /\ DOMAIN e.pics = DOMAIN d.pics
           /\ \A i \in DOMAIN d.pics : /\ e.pics[i].want = d.pics[i].want
                                       /\ e.pics[i].released = d.pics[i].released
<1> DEFINE b == [d EXCEPT !.dpb = <<>>]
<1>1. DOMAIN d.dpb = 1 .. Len(d.dpb) /\ DOMAIN d = Fields
  BY SeqIs DEF Shape
<1>2. {x.pic : x \in ToSet(d.dpb)} = Buffered(d)
  BY DEF ToSet, Buffered
<1>3. e = release(b, Buffered(d))
  BY <1>2 DEF clearDPB
<1>4. /\ DOMAIN b = Fields /\ b.dpb = <<>>
      /\ \A f \in Fields \ {"dpb"} : b[f] = d[f]
  BY <1>1 DEF Fields
<1> HIDE DEF b
<1>5. /\ b.pics = d.pics /\ b.free = d.free /\ b.shown = d.shown /\ b.cur = d.cur
      /\ Returned(b) = Returned(d)
  BY <1>4 DEF Fields, Returned
<1>6. Shape(b) /\ Planes(b) /\ Held(b, H)
  <2>1. Shape(b)
    BY <1>4, <1>5, SeqEmpty DEF Shape
  <2> QED
    BY <1>5, <2>1 DEF Planes, Held
<1>7. Buffered(d) \subseteq DOMAIN b.pics
  BY <1>5 DEF Shape, Buffered
<1>8. Frame(b, e) /\ Shape(e) /\ Planes(e) /\ Held(e, H \ Buffered(d))
  BY <1>3, <1>6, <1>7, ReleaseHeld
<1>9. /\ Same(b, e) /\ DOMAIN e.pics = DOMAIN b.pics /\ e.dpb = b.dpb /\ e.shown = b.shown
      /\ \A i \in DOMAIN b.pics : /\ e.pics[i].want = b.pics[i].want
                                  /\ e.pics[i].released = b.pics[i].released
  BY <1>6, <1>8, FrameKeeps
<1>10. Same(d, e)
  <2>1. Waits(b) = {}
    BY <1>4, SeqEmpty DEF Waits, Waiting
  <2>2. Same(d, b)
    BY <1>4, <1>5, <2>1 DEF Same, Follows, Fields
  <2> QED
    BY <1>9, <2>2, SameTrans
<1> QED
  BY <1>4, <1>5, <1>8, <1>9, <1>10

LEMMA ClearSafe ==
    ASSUME NEW d, NEW X, Safe(d, X), NEW Y, X \cup WaitPics(d) \subseteq Y
    PROVE  Safe(clearDPB(d), Y) /\ Same(d, clearDPB(d)) /\ clearDPB(d).dpb = <<>>
<1> DEFINE e == clearDPB(d)
<1>1. Buffered(d) \subseteq InDecoder(d)
  BY DEF InDecoder
<1>2. /\ Shape(e) /\ Planes(e) /\ Held(e, InDecoder(d) \ Buffered(d)) /\ Same(d, e)
      /\ e.dpb = <<>> /\ e.shown = d.shown /\ DOMAIN e.pics = DOMAIN d.pics
      /\ \A i \in DOMAIN d.pics : /\ e.pics[i].want = d.pics[i].want
                                  /\ e.pics[i].released = d.pics[i].released
  <2>1. Shape(d) /\ Planes(d) /\ Held(d, InDecoder(d))
    BY DEF Safe
  <2>2. e = clearDPB(d)
    OBVIOUS
  <2> DEFINE H == InDecoder(d)
  <2>3. Held(d, H) /\ \A i \in Buffered(d) : i \in H
    BY <1>1, <2>1
  <2> HIDE DEF e, H
  <2>4. /\ Shape(e) /\ Planes(e) /\ Held(e, H \ Buffered(d)) /\ Same(d, e)
        /\ e.dpb = <<>> /\ e.shown = d.shown /\ DOMAIN e.pics = DOMAIN d.pics
        /\ \A i \in DOMAIN d.pics : /\ e.pics[i].want = d.pics[i].want
                                    /\ e.pics[i].released = d.pics[i].released
    BY <2>1, <2>2, <2>3, ClearEffect
  <2> QED
    BY <2>4 DEF H
<1> HIDE DEF e
<1>3. /\ e.cur = d.cur /\ e.curOut = d.curOut /\ Returned(e) = Returned(d) /\ Buffered(e) = {}
      /\ DOMAIN e.dpb = {}
  BY <1>2, SeqEmpty DEF Same, Fields, Returned, Buffered
<1>4. InDecoder(e) = InDecoder(d) \ Buffered(d)
  BY <1>3 DEF InDecoder, Safe, Distinct
<1>5. Distinct(e)
  BY <1>2, <1>3 DEF Safe, Distinct
<1>6. Output(e)
  <2>1. /\ d.cur # None => d.cur \in DOMAIN d.pics
        /\ \A i \in Returned(d) : i \in DOMAIN d.pics
    BY DEF Safe, Shape, Returned
  <2> QED
    BY <1>2, <1>3, <2>1 DEF Safe, Output
<1>7. Due(e, Y)
  <2>1. \A k \in DOMAIN d.dpb : d.dpb[k].output => d.dpb[k].pic \in WaitPics(d)
    BY DEF WaitPics, Waiting
  <2> QED
    BY <1>2, <1>3, <2>1 DEF Safe, Due
<1> QED
  BY <1>2, <1>4, <1>5, <1>6, <1>7 DEF Safe, e

LEMMA MarkSafe ==
    ASSUME NEW d, NEW X, Safe(d, X), NEW rps
    PROVE  Safe(dpbMark(d, rps), X) /\ Same(d, dpbMark(d, rps))
<1> DEFINE e == dpbMark(d, rps)
           long == ToSet(rps.lt \o rps.ltFoll)
           keep == ToSet(rps.before \o rps.after \o rps.foll) \cup long
           q == [i \in DOMAIN d.dpb |-> [d.dpb[i] EXCEPT !.ref = PocOf(d, i) \in keep,
                                                         !.longTerm = PocOf(d, i) \in long]]
<1>1. e = [d EXCEPT !.dpb = q]
  BY DEF dpbMark
<1> HIDE DEF long, keep
<1>2. DOMAIN d.dpb = 1 .. Len(d.dpb) /\ DOMAIN d = Fields /\ Len(d.dpb) \in Nat
  BY SeqIs DEF Safe, Shape
<1>3. \A i \in DOMAIN d.dpb : /\ DOMAIN q[i] = EntryFields /\ q[i].pic = d.dpb[i].pic
                              /\ q[i].output = d.dpb[i].output
                              /\ q[i].latency = d.dpb[i].latency
  BY DEF Safe, Shape, EntryFields
<1>4. IsSeq(q) /\ DOMAIN q = DOMAIN d.dpb
  <2>1. q = [i \in 1 .. Len(d.dpb) |-> q[i]]
    BY <1>2
  <2> HIDE DEF q
  <2> QED
    BY <1>2, <2>1, SeqFrom
<1> HIDE DEF q
<1>5. /\ DOMAIN e = Fields /\ e.dpb = q /\ \A f \in Fields \ {"dpb"} : e[f] = d[f]
  BY <1>1, <1>2 DEF Fields
<1> HIDE DEF e
<1>6. /\ e.pics = d.pics /\ e.free = d.free /\ e.shown = d.shown /\ e.cur = d.cur
      /\ e.curOut = d.curOut /\ Returned(e) = Returned(d)
  BY <1>5 DEF Fields, Returned
<1>7. Buffered(e) = Buffered(d)
  BY <1>3, <1>4, <1>5 DEF Buffered
<1>8. InDecoder(e) = InDecoder(d)
  BY <1>6, <1>7 DEF InDecoder
<1>9. Shape(e)
  BY <1>3, <1>4, <1>5, <1>6 DEF Safe, Shape
<1>10. Planes(e) /\ Held(e, InDecoder(e))
  BY <1>6, <1>8 DEF Safe, Planes, Held
<1>11. Distinct(e)
  BY <1>3, <1>4, <1>5, <1>6, <1>7 DEF Safe, Distinct
<1>12. Output(e)
  BY <1>3, <1>4, <1>5, <1>6 DEF Safe, Output
<1>13. Due(e, X)
  BY <1>3, <1>4, <1>5, <1>6 DEF Safe, Due
<1>14. Waits(e) = Waits(d)
  BY <1>3, <1>4, <1>5 DEF Waits, Waiting
<1>15. Same(d, e)
  BY <1>5, <1>6, <1>14 DEF Same, Follows, Fields
<1> QED
  BY <1>9, <1>10, <1>11, <1>12, <1>13, <1>15 DEF Safe, e

\* Some picture leaves first.
LEMMA FirstOut ==
    ASSUME NEW d, Shape(d), Waiting(d) # {}
    PROVE  \E i \in Waiting(d) : \A j \in Waiting(d) : ~Sooner(d, j, i)
<1> DEFINE W == Waiting(d)
           T == {n \in Nat : \/ W \cap (1 .. n) = {}
                             \/ \E i \in W \cap (1 .. n) :
                                   \A j \in W \cap (1 .. n) : ~Sooner(d, j, i)}
<1>1. DOMAIN d.dpb = 1 .. Len(d.dpb) /\ Len(d.dpb) \in Nat /\ W \subseteq 1 .. Len(d.dpb)
  BY SeqIs DEF Shape, Waiting
<1>2. \A i \in W : PocOf(d, i) \in Int
  BY DEF Waiting, PocOf, Shape
<1> HIDE DEF W
<1>3. 0 \in T
  OBVIOUS
<1>4. ASSUME NEW n \in T PROVE n + 1 \in T
  <2>1. n \in Nat /\ \A j \in 1 .. n + 1 : j \in 1 .. n \/ j = n + 1
    OBVIOUS
  <2>2. CASE n + 1 \notin W
    <3>1. W \cap (1 .. n + 1) = W \cap (1 .. n)
      BY <2>1, <2>2
    <3> QED
      BY <2>1, <3>1
  <2>3. CASE n + 1 \in W /\ W \cap (1 .. n) = {}
    <3>1. W \cap (1 .. n + 1) = {n + 1}
      BY <2>1, <2>3
    <3>2. ~Sooner(d, n + 1, n + 1)
      BY <1>2, <2>1, <2>3 DEF Sooner
    <3> QED
      BY <2>1, <3>1, <3>2
  <2>4. CASE n + 1 \in W /\ W \cap (1 .. n) # {}
    <3>1. PICK i \in W \cap (1 .. n) : \A j \in W \cap (1 .. n) : ~Sooner(d, j, i)
      BY <2>4
    <3>2. i \in W /\ i \in 1 .. n /\ i \in 1 .. n + 1 /\ PocOf(d, i) \in Int
          /\ PocOf(d, n + 1) \in Int /\ i < n + 1
      BY <1>2, <2>1, <2>4
    <3>3. CASE Sooner(d, n + 1, i)
      <4>1. PocOf(d, n + 1) < PocOf(d, i)
        BY <2>1, <3>2, <3>3 DEF Sooner
      <4>2. ASSUME NEW j \in W \cap (1 .. n + 1) PROVE ~Sooner(d, j, n + 1)
        <5>1. j \in Nat /\ PocOf(d, j) \in Int
          BY <1>2, <2>1
        <5>2. CASE j = n + 1
          BY <2>1, <5>1, <5>2 DEF Sooner
        <5>3. CASE j \in 1 .. n
          <6>1. ~Sooner(d, j, i)
            BY <3>1, <5>3
          <6> QED
            BY <3>2, <4>1, <5>1, <6>1 DEF Sooner
        <5> QED
          BY <2>1, <5>2, <5>3
      <4>3. n + 1 \in W \cap (1 .. n + 1)
        BY <2>1, <2>4
      <4> QED
        BY <2>1, <4>2, <4>3
    <3>4. CASE ~Sooner(d, n + 1, i)
      <4>1. \A j \in W \cap (1 .. n + 1) : ~Sooner(d, j, i)
        BY <2>1, <3>1, <3>4
      <4> QED
        BY <2>1, <3>2, <4>1
    <3> QED
      BY <3>3, <3>4
  <2> QED
    BY <2>2, <2>3, <2>4
<1>5. Len(d.dpb) \in T
  <2> HIDE DEF T
  <2>1. T = Nat
    BY <1>3, <1>4, Induct DEF T
  <2> QED
    BY <1>1, <2>1
<1>6. W \cap (1 .. Len(d.dpb)) = W
  BY <1>1
<1> QED
  BY <1>5, <1>6 DEF W

\* The picture that leaves first is returned, held by the caller from now on,
\* and does not wait any more.
LEMMA BumpSafe ==
    ASSUME NEW d, NEW X, Safe(d, X)
    PROVE  /\ Safe(dpbBump(d), X) /\ Same(d, dpbBump(d))
           /\ DOMAIN dpbBump(d).pics = DOMAIN d.pics
           /\ \/ WaitPics(d) = {} /\ WaitPics(dpbBump(d)) = {}
              \/ \E p \in WaitPics(d) : WaitPics(dpbBump(d)) = WaitPics(d) \ {p}
<1> DEFINE W    == Waiting(d)
           best == CHOOSE i \in W : \A j \in W : ~Sooner(d, j, i)
           p    == d.dpb[best].pic
           b    == [d EXCEPT !.dpb[best].output = FALSE, !.shown = Append(d.shown, p)]
           a    == acquire(b, {p})
<1>1. CASE W = {}
  <2>1. dpbBump(d) = d
    BY <1>1 DEF dpbBump
  <2>2. WaitPics(d) = {}
    BY <1>1 DEF WaitPics
  <2> QED
    BY <2>1, <2>2, SameRefl
<1>2. CASE W # {}
  <2>1. dpbBump(d) = dpbRemoveUnused(a)
    BY <1>2 DEF dpbBump
  <2>2. best \in Waiting(d)
    <3>1. \E i \in W : \A j \in W : ~Sooner(d, j, i)
      BY <1>2, FirstOut DEF Safe
    <3> HIDE DEF W
    <3> QED
      BY <3>1 DEF W
  <2> HIDE DEF W, best
  <2>3. best \in DOMAIN d.dpb /\ d.dpb[best].output
    BY <2>2 DEF Waiting
  <2>4. /\ Shape(d) /\ Planes(d) /\ Held(d, InDecoder(d)) /\ Distinct(d) /\ Output(d) /\ Due(d, X)
    BY DEF Safe
  <2>5. /\ IsSeq(d.dpb) /\ DOMAIN d.dpb = 1 .. Len(d.dpb) /\ DOMAIN d = Fields
        /\ IsSeq(d.shown) /\ DOMAIN d.shown = 1 .. Len(d.shown) /\ Len(d.shown) \in Nat
    BY <2>4, SeqIs DEF Shape
  <2>6. p \in DOMAIN d.pics /\ p \in Buffered(d) /\ p \notin Returned(d) /\ d.pics[p].want
        /\ ~d.pics[p].released /\ p # d.cur
    BY <2>3, <2>4 DEF Shape, Buffered, Output, Distinct
  <2>7. d.pics[p].refs > 0
    <3>1. p \in InDecoder(d)
      BY <2>6 DEF InDecoder
    <3> HIDE DEF p
    <3> QED
      BY <2>4, <2>6, <3>1 DEF Held
  <2> DEFINE x == [d.dpb[best] EXCEPT !.output = FALSE]
             q == [d.dpb EXCEPT ![best] = x]
             s == Append(d.shown, p)
  <2>8. b = [d EXCEPT !.dpb = q, !.shown = s]
    OBVIOUS
  <2>9. DOMAIN x = EntryFields /\ x.pic = p /\ x.output = FALSE
    BY <2>3, <2>4 DEF Shape, EntryFields
  <2> HIDE DEF x, p
  <2>10. /\ IsSeq(q) /\ DOMAIN q = DOMAIN d.dpb
         /\ \A i \in DOMAIN d.dpb : q[i] = IF i = best THEN x ELSE d.dpb[i]
    BY <2>5, SeqExcept
  <2>11. /\ IsSeq(s) /\ DOMAIN s = 1 .. Len(d.shown) + 1
         /\ \A i \in DOMAIN d.shown : s[i] = d.shown[i]
         /\ s[Len(d.shown) + 1] = p
    <3>1. /\ IsSeq(s) /\ Len(s) = Len(d.shown) + 1
          /\ \A i \in 1 .. Len(d.shown) : s[i] = d.shown[i]
          /\ s[Len(d.shown) + 1] = p
      BY <2>5, SeqAppend
    <3> QED
      BY <2>5, <3>1, SeqIs
  <2> HIDE DEF q, s
  <2>12. /\ DOMAIN b = Fields /\ b.dpb = q /\ b.shown = s
         /\ \A f \in Fields \ {"dpb", "shown"} : b[f] = d[f]
    <3> HIDE DEF b
    <3> QED
      BY <2>5, <2>8 DEF Fields
  <2> HIDE DEF b
  <2>13. /\ b.pics = d.pics /\ b.free = d.free /\ b.cur = d.cur /\ b.curOut = d.curOut
    BY <2>12 DEF Fields
  <2>14. \A i \in DOMAIN s : (i \in DOMAIN d.shown /\ s[i] = d.shown[i]) \/ i = Len(d.shown) + 1
    BY <2>5, <2>11
  <2>15. Returned(b) = Returned(d) \cup {p}
    <3>1. DOMAIN d.shown \subseteq DOMAIN s /\ Len(d.shown) + 1 \in DOMAIN s
      BY <2>5, <2>11
    <3> QED
      BY <2>11, <2>12, <2>14, <3>1 DEF Returned
  <2>16. Buffered(b) = Buffered(d) /\ InDecoder(b) = InDecoder(d)
    <3>1. \A i \in DOMAIN d.dpb : q[i].pic = d.dpb[i].pic
      BY <2>9, <2>10 DEF p
    <3>2. Buffered(b) = Buffered(d)
      BY <2>10, <2>12, <3>1 DEF Buffered
    <3> QED
      BY <2>13, <3>2 DEF InDecoder
  <2>17. \A i \in DOMAIN d.dpb : /\ DOMAIN q[i] = EntryFields /\ q[i].pic = d.dpb[i].pic
                                 /\ q[i].output => d.dpb[i].output /\ i # best
                                 /\ i # best => q[i].output = d.dpb[i].output
    BY <2>4, <2>9, <2>10 DEF Shape, p
  <2>18. Shape(b)
    <3>1. \A i \in DOMAIN s : s[i] \in DOMAIN d.pics
      BY <2>4, <2>6, <2>11, <2>14 DEF Shape
    <3> QED
      BY <2>4, <2>10, <2>11, <2>12, <2>13, <2>17, <3>1 DEF Shape
  <2>19. Planes(b)
    BY <2>4, <2>13 DEF Planes
  <2>20. Distinct(b)
    <3>1. \A j, k \in DOMAIN b.dpb : b.dpb[j].pic = b.dpb[k].pic => j = k
      BY <2>4, <2>10, <2>12, <2>17 DEF Distinct
    <3>2. b.cur \notin Buffered(b)
      BY <2>4, <2>13, <2>16 DEF Distinct
    <3>3. ASSUME NEW j \in DOMAIN s, NEW k \in DOMAIN s, s[j] = s[k] PROVE j = k
      <4>1. \A i \in DOMAIN d.shown : d.shown[i] # p
        BY <2>6 DEF Returned
      <4> QED
        BY <2>4, <2>11, <2>14, <3>3, <4>1 DEF Distinct
    <3> QED
      BY <2>12, <3>1, <3>2, <3>3 DEF Distinct
  <2>21. Output(b)
    <3>1. \A k \in DOMAIN d.dpb : k # best => d.dpb[k].pic # p
      BY <2>3, <2>4 DEF Distinct, p
    <3>2. \A k \in DOMAIN b.dpb : b.dpb[k].output => /\ b.pics[b.dpb[k].pic].want
                                                     /\ b.dpb[k].pic \notin Returned(b)
      BY <2>4, <2>10, <2>12, <2>13, <2>15, <2>17, <3>1 DEF Output
    <3>3. b.cur # None => b.cur \notin Returned(b) /\ b.curOut = b.pics[b.cur].want
      BY <2>4, <2>6, <2>13, <2>15 DEF Output
    <3>4. /\ \A i \in Returned(b) : b.pics[i].want
          /\ \A i \in DOMAIN b.pics : b.pics[i].released => i \in Returned(b)
      BY <2>4, <2>6, <2>13, <2>15 DEF Output
    <3> QED
      BY <3>2, <3>3, <3>4 DEF Output
  <2>22. Due(b, X)
    <3> SUFFICES ASSUME NEW i \in DOMAIN d.pics, d.pics[i].want
                 PROVE  \/ i \in Returned(b) \/ i = b.cur \/ i \in X
                        \/ \E k \in DOMAIN b.dpb : b.dpb[k].pic = i /\ b.dpb[k].output
      BY <2>13 DEF Due
    <3>1. \/ i \in Returned(d) \/ i = d.cur \/ i \in X
          \/ \E k \in DOMAIN d.dpb : d.dpb[k].pic = i /\ d.dpb[k].output
      BY <2>4 DEF Due
    <3>2. ASSUME NEW k \in DOMAIN d.dpb, d.dpb[k].pic = i, d.dpb[k].output
          PROVE  i = p \/ \E l \in DOMAIN b.dpb : b.dpb[l].pic = i /\ b.dpb[l].output
      BY <2>10, <2>12, <2>17, <3>2 DEF p
    <3> QED
      BY <2>13, <2>15, <3>1, <3>2
  <2>23. \A i \in {p} : i \in DOMAIN b.pics /\ b.pics[i].refs > 0
    BY <2>6, <2>7, <2>13
  <2>24. /\ Frame(b, a) /\ Shape(a) /\ Planes(a)
         /\ \A i \in DOMAIN b.pics : a.pics[i].refs = IF i \in {p} THEN b.pics[i].refs + 1
                                                      ELSE b.pics[i].refs
    BY <2>18, <2>19, <2>23, AcquireEffect
  <2> HIDE DEF a
  <2>25. /\ Same(b, a) /\ DOMAIN a.pics = DOMAIN b.pics /\ Returned(a) = Returned(b)
         /\ InDecoder(a) = InDecoder(b) /\ Distinct(a) /\ Output(a) /\ Due(a, X)
         /\ WaitPics(a) = WaitPics(b)
         /\ \A i \in DOMAIN b.pics : a.pics[i].released = b.pics[i].released
    BY <2>18, <2>20, <2>21, <2>22, <2>24, FrameKeeps
  <2>26. Held(a, InDecoder(a))
    <3> SUFFICES ASSUME NEW i \in DOMAIN d.pics
                 PROVE  a.pics[i].refs = (IF i \in InDecoder(d) THEN 1 ELSE 0)
                                  + (IF i \in Returned(d) \cup {p} /\ ~d.pics[i].released THEN 1 ELSE 0)
      BY <2>13, <2>15, <2>16, <2>25 DEF Held
    <3>1. d.pics[i].refs = (IF i \in InDecoder(d) THEN 1 ELSE 0)
                           + (IF i \in Returned(d) /\ ~d.pics[i].released THEN 1 ELSE 0)
      BY <2>4 DEF Held
    <3>2. CASE i = p
      BY <2>6, <2>13, <2>24, <3>1, <3>2
    <3>3. CASE i # p
      BY <2>13, <2>24, <3>1, <3>3
    <3> QED
      BY <3>2, <3>3
  <2>27. Safe(a, X)
    BY <2>24, <2>25, <2>26 DEF Safe
  <2>28. Same(d, a)
    <3>1. \A w \in Waits(b) : w \in Waits(d)
      <4>1. \A k \in Waiting(b) : k \in Waiting(d) /\ b.dpb[k] = d.dpb[k]
        BY <2>10, <2>12, <2>17 DEF Waiting
      <4> QED
        BY <4>1 DEF Waits
    <3>2. /\ \A j \in DOMAIN d.shown : j \in DOMAIN b.shown /\ b.shown[j] = d.shown[j]
          /\ \A k \in DOMAIN b.shown : \/ k \in DOMAIN d.shown
                                       \/ /\ b.shown[k] = p
                                          /\ \A j \in DOMAIN d.shown : ~(k < j)
      BY <2>5, <2>11, <2>12, <2>14
    <3>3. p \in WaitPics(d)
      BY <2>2 DEF WaitPics, p
    <3>4. Same(d, b)
      BY <2>12, <2>13, <3>1, <3>2, <3>3 DEF Same, Follows, Fields
    <3> QED
      BY <2>25, <3>4, SameTrans
  <2>29. WaitPics(b) = WaitPics(d) \ {p} /\ p \in WaitPics(d)
    <3>1. \A k \in DOMAIN d.dpb : k # best => d.dpb[k].pic # p
      BY <2>3, <2>4 DEF Distinct, p
    <3>2. p \in WaitPics(d)
      BY <2>2 DEF WaitPics, p
    <3>3. Waiting(b) = Waiting(d) \ {best}
      BY <2>10, <2>12, <2>17 DEF Waiting
    <3>4. \A k \in Waiting(d) : k \in DOMAIN d.dpb
      BY DEF Waiting
    <3>5. WaitPics(b) = {d.dpb[k].pic : k \in Waiting(d) \ {best}}
      BY <2>12, <2>17, <3>3, <3>4 DEF WaitPics
    <3>6. {d.dpb[k].pic : k \in Waiting(d) \ {best}} = WaitPics(d) \ {p}
      BY <3>1, <3>4 DEF WaitPics, p
    <3> QED
      BY <3>2, <3>5, <3>6
  <2>30. /\ Safe(dpbRemoveUnused(a), X) /\ Same(a, dpbRemoveUnused(a))
         /\ WaitPics(dpbRemoveUnused(a)) = WaitPics(a)
         /\ DOMAIN dpbRemoveUnused(a).pics = DOMAIN a.pics
    BY <2>27, RemoveUnusedSafe
  <2>31. Same(d, dpbRemoveUnused(a))
    BY <2>28, <2>30, SameTrans
  <2> QED
    BY <2>1, <2>13, <2>25, <2>29, <2>30, <2>31
<1> QED
  BY <1>1, <1>2

LEMMA BumpedRuns ==
    ASSUME NEW d, NEW k \in Nat
    PROVE  \E bumped :
             /\ bumped = [n \in 0 .. k |-> IF n = 0 THEN d ELSE dpbBump(bumped[n - 1])]
             /\ Bumped(d, k) = bumped[k]
<1> DEFINE Run(g, l) == g = [n \in 0 .. l |-> IF n = 0 THEN d ELSE dpbBump(g[n - 1])]
           T == {l \in Nat : \E g : Run(g, l)}
<1>1. 0 \in T
  <2>1. Run([n \in 0 .. 0 |-> d], 0)
    OBVIOUS
  <2> QED
    BY <2>1
<1>2. ASSUME NEW l \in T PROVE l + 1 \in T
  <2>1. PICK g : Run(g, l)
    OBVIOUS
  <2> DEFINE h == [n \in 0 .. l + 1 |-> IF n = l + 1 THEN dpbBump(g[l]) ELSE g[n]]
  <2>2. l \in Nat
    OBVIOUS
  <2>3. ASSUME NEW n \in 0 .. l + 1 PROVE h[n] = IF n = 0 THEN d ELSE dpbBump(h[n - 1])
    BY <2>1, <2>2
  <2>4. Run(h, l + 1)
    BY <2>3
  <2> HIDE DEF h, Run
  <2> QED
    BY <2>2, <2>4
<1>3. k \in T
  <2> HIDE DEF T
  <2>1. T = Nat
    BY <1>1, <1>2, Induct DEF T
  <2> QED
    BY <2>1
<1> QED
  BY <1>3 DEF Bumped

\* There are as many entries waiting as pictures.
LEMMA WaitCard ==
    ASSUME NEW d, Shape(d), Distinct(d)
    PROVE  /\ IsFiniteSet(WaitPics(d)) /\ Cardinality(Waiting(d)) = Cardinality(WaitPics(d))
           /\ Cardinality(Waiting(d)) \in Nat
<1> DEFINE f == [k \in Waiting(d) |-> d.dpb[k].pic]
<1>1. DOMAIN d.dpb = 1 .. Len(d.dpb) /\ Len(d.dpb) \in Nat /\ Waiting(d) \subseteq DOMAIN d.dpb
  BY SeqIs DEF Shape, Waiting
<1>2. IsFiniteSet(DOMAIN d.dpb)
  BY <1>1, PrefixFinite
<1>3. IsFiniteSet(Waiting(d))
  BY <1>1, <1>2, FS_Subset
<1>4. f \in Bijection(Waiting(d), WaitPics(d))
  BY <1>1 DEF Bijection, Injection, Surjection, IsInjective, WaitPics, Distinct
<1>5. ExistsBijection(Waiting(d), WaitPics(d))
  <2> HIDE DEF f
  <2> QED
    BY <1>4 DEF ExistsBijection
<1> QED
  BY <1>3, <1>5, FS_Bijection, FS_CardinalityType

\* Bumping as often as something waits leaves nothing waiting.
LEMMA BumpedSafe ==
    ASSUME NEW d, NEW X, Safe(d, X), NEW k \in Nat
    PROVE  /\ Safe(Bumped(d, k), X) /\ Same(d, Bumped(d, k))
           /\ DOMAIN Bumped(d, k).pics = DOMAIN d.pics
           /\ k = Cardinality(Waiting(d)) => WaitPics(Bumped(d, k)) = {}
<1> DEFINE N == Cardinality(WaitPics(d))
           Part(x, n) == /\ Safe(x, X) /\ Same(d, x) /\ IsFiniteSet(WaitPics(x))
                         /\ DOMAIN x.pics = DOMAIN d.pics
                         /\ n <= N => Cardinality(WaitPics(x)) = N - n
<1>1. Shape(d) /\ Distinct(d)
  BY DEF Safe
<1>2. IsFiniteSet(WaitPics(d)) /\ Cardinality(Waiting(d)) = N /\ N \in Nat
  BY <1>1, WaitCard
<1>3. PICK bumped :
             /\ bumped = [n \in 0 .. k |-> IF n = 0 THEN d ELSE dpbBump(bumped[n - 1])]
             /\ Bumped(d, k) = bumped[k]
  BY BumpedRuns
<1> DEFINE T == {n \in Nat : n <= k => Part(bumped[n], n)}
<1>4. 0 \in T
  <2>1. bumped[0] = d
    BY <1>3
  <2>2. Part(d, 0)
    BY <1>2, SameRefl
  <2> HIDE DEF Part
  <2> QED
    BY <2>1, <2>2
<1>5. ASSUME NEW n \in T PROVE n + 1 \in T
  <2> SUFFICES ASSUME n + 1 <= k PROVE Part(bumped[n + 1], n + 1)
    OBVIOUS
  <2>1. n \in Nat /\ n + 1 \in 0 .. k /\ n + 1 # 0 /\ (n + 1) - 1 = n
    OBVIOUS
  <2> DEFINE x == bumped[n]
             y == dpbBump(x)
  <2>2. bumped[n + 1] = y
    BY <1>3, <2>1
  <2>3. /\ Safe(x, X) /\ Same(d, x) /\ IsFiniteSet(WaitPics(x))
        /\ DOMAIN x.pics = DOMAIN d.pics
        /\ n <= N => Cardinality(WaitPics(x)) = N - n
    BY <2>1
  <2> HIDE DEF x, T, Part, N
  <2>4. /\ Safe(y, X) /\ Same(x, y) /\ DOMAIN y.pics = DOMAIN x.pics
        /\ \/ WaitPics(x) = {} /\ WaitPics(y) = {}
           \/ \E p \in WaitPics(x) : WaitPics(y) = WaitPics(x) \ {p}
    BY <2>3, BumpSafe
  <2> HIDE DEF y
  <2>5. Same(d, y)
    BY <2>3, <2>4, SameTrans
  <2>6. CASE WaitPics(x) = {} /\ WaitPics(y) = {}
    <3>1. IsFiniteSet({}) /\ Cardinality({}) = 0
      BY FS_EmptySet
    <3>2. ~(n + 1 <= N)
      BY <1>2, <2>1, <2>3, <2>6, <3>1
    <3> QED
      BY <2>2, <2>3, <2>4, <2>5, <2>6, <3>1, <3>2 DEF Part
  <2>7. ASSUME NEW p \in WaitPics(x), WaitPics(y) = WaitPics(x) \ {p}
        PROVE  Part(bumped[n + 1], n + 1)
    <3>1. IsFiniteSet(WaitPics(y)) /\ Cardinality(WaitPics(y)) = Cardinality(WaitPics(x)) - 1
      BY <2>3, <2>7, FS_RemoveElement
    <3>2. n + 1 <= N => Cardinality(WaitPics(y)) = N - (n + 1)
      BY <1>2, <2>1, <2>3, <3>1
    <3> QED
      BY <2>2, <2>3, <2>4, <2>5, <3>1, <3>2 DEF Part
  <2> QED
    BY <2>4, <2>6, <2>7
<1>6. Part(bumped[k], k)
  <2> HIDE DEF T, Part
  <2>1. T = Nat
    BY <1>4, <1>5, Induct DEF T
  <2>2. k \in T
    BY <2>1
  <2> QED
    BY <2>2 DEF T
<1>7. k = N => WaitPics(bumped[k]) = {}
  BY <1>2, <1>6, FS_EmptySet
<1> QED
  BY <1>2, <1>3, <1>6, <1>7

\* A condition to bump on only says how often.
LEMMA FewestStops ==
    ASSUME NEW n \in Nat, NEW stops, stops \subseteq 0 .. n, n \in stops
    PROVE  /\ (CHOOSE k \in stops : \A j \in stops : k <= j) \in Nat
           /\ (CHOOSE k \in stops : \A j \in stops : k <= j) \in stops
<1>1. \E k \in stops : \A j \in stops : k <= j
  <2>1. stops \in SUBSET Nat /\ stops # {}
    OBVIOUS
  <2> QED
    BY <2>1, Least
<1>2. (CHOOSE k \in stops : \A j \in stops : k <= j) \in stops
  BY <1>1, Zenon
<1>3. stops \subseteq Nat
  OBVIOUS
<1> QED
  BY <1>2, <1>3, Zenon

LEMMA BumpAllSafe ==
    ASSUME NEW d, NEW X, Safe(d, X)
    PROVE  /\ Safe(BumpAll(d), X) /\ Same(d, BumpAll(d)) /\ WaitPics(BumpAll(d)) = {}
           /\ DOMAIN BumpAll(d).pics = DOMAIN d.pics
<1>1. Cardinality(Waiting(d)) \in Nat
  BY WaitCard DEF Safe
<1> QED
  BY <1>1, BumpedSafe DEF BumpAll

LEMMA DrainSafe ==
    ASSUME NEW d, NEW X, Safe(d, X), NEW includeBuffering
    PROVE  /\ Safe(dpbDrain(d, includeBuffering), X) /\ Same(d, dpbDrain(d, includeBuffering))
           /\ DOMAIN dpbDrain(d, includeBuffering).pics = DOMAIN d.pics
<1> DEFINE n == Cardinality(Waiting(d))
           stops == {k \in 0 .. n : k = n \/ ~dpbFull(Bumped(d, k), includeBuffering)}
           least == CHOOSE k \in stops : \A j \in stops : k <= j
<1>1. n \in Nat
  BY WaitCard DEF Safe
<1>2. dpbDrain(d, includeBuffering) = Bumped(d, least)
  BY DEF dpbDrain, BumpWhile
<1>3. stops \subseteq 0 .. n /\ n \in stops
  BY <1>1
<1> HIDE DEF n, stops
<1>4. least \in Nat
  BY <1>1, <1>3, FewestStops
<1> HIDE DEF least
<1> QED
  BY <1>2, <1>4, BumpedSafe

\* What the buffer is drained for holds afterwards.
LEMMA DrainCalm ==
    ASSUME NEW d, NEW X, Safe(d, X), d.maxReorder \in Nat, NEW includeBuffering
    PROVE  Calm(dpbDrain(d, includeBuffering))
<1> DEFINE n == Cardinality(Waiting(d))
           stops == {k \in 0 .. n : k = n \/ ~dpbFull(Bumped(d, k), includeBuffering)}
           least == CHOOSE k \in stops : \A j \in stops : k <= j
           e == Bumped(d, least)
<1>1. n \in Nat
  BY WaitCard DEF Safe
<1>2. dpbDrain(d, includeBuffering) = e
  BY DEF dpbDrain, BumpWhile
<1>3. stops \subseteq 0 .. n /\ n \in stops
  BY <1>1
<1>4. least \in Nat /\ least \in stops
  <2> HIDE DEF n, stops
  <2> QED
    BY <1>1, <1>3, FewestStops
<1>5. least = n \/ ~dpbFull(e, includeBuffering)
  <2> HIDE DEF least
  <2> QED
    BY <1>4
<1> HIDE DEF least
<1>6. /\ Safe(e, X) /\ Same(d, e)
      /\ least = n => WaitPics(e) = {}
  BY <1>4, BumpedSafe
<1> HIDE DEF e, n
<1>7. e.maxReorder \in Nat
  BY <1>6 DEF Same, Fields
<1>8. CASE ~dpbFull(e, includeBuffering)
  <2>1. /\ IsFiniteSet(WaitPics(e)) /\ Cardinality(Waiting(e)) = Cardinality(WaitPics(e))
        /\ Cardinality(Waiting(e)) \in Nat
    BY <1>6, WaitCard DEF Safe
  <2>2. ~(Cardinality(Waiting(e)) > e.maxReorder)
    BY <1>8 DEF dpbFull
  <2>3. Cardinality(WaitPics(e)) <= e.maxReorder
    BY <1>7, <2>1, <2>2
  <2>4. ASSUME e.maxLatency # 0, NEW w \in Waits(e)
        PROVE  ~(w[2] >= e.maxReorder + e.maxLatency - 1)
    <3>1. PICK i \in Waiting(e) : w = <<e.dpb[i].pic, e.dpb[i].latency>>
      BY DEF Waits
    <3>2. ~(e.dpb[i].latency >= e.maxReorder + e.maxLatency - 1)
      BY <1>8, <2>4 DEF dpbFull
    <3>3. w[2] = e.dpb[i].latency
      BY <3>1
    <3> QED
      BY <3>2, <3>3
  <2> QED
    BY <1>2, <1>7, <2>1, <2>3, <2>4 DEF Calm
<1>9. CASE least = n
  BY <1>2, <1>6, <1>7, <1>9, EmptyCalm
<1> QED
  BY <1>2, <1>5, <1>8, <1>9

LEMMA CalmIsNotFull ==
    ASSUME NEW d, Shape(d), Distinct(d), Calm(d)
    PROVE  ~dpbFull(d, FALSE)
<1>1. Cardinality(Waiting(d)) = Cardinality(WaitPics(d)) /\ Cardinality(Waiting(d)) \in Nat
  BY WaitCard
<1>2. ~(Cardinality(Waiting(d)) > d.maxReorder)
  BY <1>1 DEF Calm
<1>3. ASSUME d.maxLatency # 0, NEW i \in Waiting(d)
      PROVE  ~(d.dpb[i].latency >= d.maxReorder + d.maxLatency - 1)
  <2> DEFINE p == d.dpb[i].pic
             l == d.dpb[i].latency
  <2>1. <<p, l>> \in Waits(d)
    BY DEF Waits
  <2> HIDE DEF p, l
  <2>2. ~(<<p, l>>[2] >= d.maxReorder + d.maxLatency - 1)
    BY <1>3, <2>1 DEF Calm
  <2>3. <<p, l>>[2] = l
    OBVIOUS
  <2> QED
    BY <2>2, <2>3 DEF l
<1> QED
  BY <1>2, <1>3 DEF dpbFull

\* FillGaps makes room like this before the grey pictures come.
MakesRoom(d) ==
    BumpWhile(d, LAMBDA x : Len(x.dpb) + missingRefs(d, d.curRPS) + 1 > x.maxDecPicBuf)

LEMMA MakesRoomSafe ==
    ASSUME NEW d, NEW X, Safe(d, X)
    PROVE  Safe(MakesRoom(d), X) /\ Same(d, MakesRoom(d))
<1> DEFINE n == Cardinality(Waiting(d))
           More(x) == Len(x.dpb) + missingRefs(d, d.curRPS) + 1 > x.maxDecPicBuf
           stops == {k \in 0 .. n : k = n \/ ~More(Bumped(d, k))}
           least == CHOOSE k \in stops : \A j \in stops : k <= j
<1>1. n \in Nat
  BY WaitCard DEF Safe
<1>2. MakesRoom(d) = Bumped(d, least)
  BY DEF MakesRoom, BumpWhile
<1>3. stops \subseteq 0 .. n /\ n \in stops
  <2> HIDE DEF More
  <2> QED
    BY <1>1
<1> HIDE DEF n, stops
<1>4. least \in Nat
  BY <1>1, <1>3, FewestStops
<1> HIDE DEF least
<1> QED
  BY <1>2, <1>4, BumpedSafe

-----------------------------------------------------------------------------
(* The pictures themselves.                                                *)

\* A step that only says how well a picture was decoded.
Relabelled(d, e) ==
    /\ DOMAIN e = Fields /\ \A f \in Fields \ {"pics"} : e[f] = d[f]
    /\ IsSeq(e.pics) /\ DOMAIN e.pics = DOMAIN d.pics
    /\ \A i \in DOMAIN d.pics :
          /\ DOMAIN e.pics[i] = PicFields
          /\ \A f \in PicFields \ {"corrupt", "units", "good"} : e.pics[i][f] = d.pics[i][f]

LEMMA RelabelSafe ==
    ASSUME NEW d, NEW X, Safe(d, X), NEW e, Relabelled(d, e)
    PROVE  Safe(e, X) /\ Same(d, e)
<1>1. /\ e.dpb = d.dpb /\ e.shown = d.shown /\ e.cur = d.cur /\ e.curOut = d.curOut
      /\ e.free = d.free /\ DOMAIN e.pics = DOMAIN d.pics
  BY DEF Relabelled, Fields
<1>2. \A i \in DOMAIN d.pics : /\ e.pics[i].refs = d.pics[i].refs /\ e.pics[i].poc = d.pics[i].poc
                               /\ e.pics[i].buf = d.pics[i].buf /\ e.pics[i].want = d.pics[i].want
                               /\ e.pics[i].released = d.pics[i].released
  BY DEF Relabelled, PicFields
<1>3. Buffered(e) = Buffered(d) /\ Returned(e) = Returned(d) /\ InDecoder(e) = InDecoder(d)
  BY <1>1 DEF Buffered, Returned, InDecoder
<1>4. /\ \A i \in Returned(d) : i \in DOMAIN d.pics
      /\ \A k \in DOMAIN d.dpb : d.dpb[k].pic \in DOMAIN d.pics
      /\ d.cur # None => d.cur \in DOMAIN d.pics
  BY DEF Safe, Shape, Returned
<1>5. Shape(e)
  BY <1>1, <1>2 DEF Safe, Shape, Relabelled
<1>6. Planes(e)
  BY <1>1, <1>2 DEF Safe, Planes
<1>7. Held(e, InDecoder(e))
  BY <1>1, <1>2, <1>3 DEF Safe, Held
<1>8. Distinct(e)
  BY <1>1, <1>3 DEF Safe, Distinct
<1>9. Output(e)
  BY <1>1, <1>2, <1>3, <1>4 DEF Safe, Output
<1>10. Due(e, X)
  BY <1>1, <1>2, <1>3 DEF Safe, Due
<1>11. Same(d, e)
  <2>1. Waits(e) = Waits(d)
    BY <1>1 DEF Waits, Waiting
  <2>2. \A i \in DOMAIN d.pics : e.pics[i].cvs = d.pics[i].cvs
    BY DEF Relabelled, PicFields
  <2> QED
    BY <1>1, <2>1, <2>2 DEF Same, Follows, Relabelled, Fields
<1> QED
  BY <1>5, <1>6, <1>7, <1>8, <1>9, <1>10, <1>11 DEF Safe

\* One picture gets new values of these fields.
LEMMA RelabelOne ==
    ASSUME NEW d, Shape(d), NEW i \in DOMAIN d.pics, NEW x, DOMAIN x = PicFields,
           \A f \in PicFields \ {"corrupt", "units", "good"} : x[f] = d.pics[i][f]
    PROVE  Relabelled(d, [d EXCEPT !.pics = [d.pics EXCEPT ![i] = x]])
<1> DEFINE q == [d.pics EXCEPT ![i] = x]
           e == [d EXCEPT !.pics = q]
<1>1. DOMAIN d = Fields /\ IsSeq(d.pics) /\ DOMAIN d.pics = 1 .. Len(d.pics)
  BY SeqIs DEF Shape
<1>2. /\ IsSeq(q) /\ DOMAIN q = DOMAIN d.pics
      /\ \A j \in DOMAIN d.pics : q[j] = IF j = i THEN x ELSE d.pics[j]
  BY <1>1, SeqExcept
<1> HIDE DEF q
<1>3. /\ DOMAIN e = Fields /\ e.pics = q /\ \A f \in Fields \ {"pics"} : e[f] = d[f]
  BY <1>1 DEF Fields
<1> HIDE DEF e
<1>4. Relabelled(d, e)
  BY <1>2, <1>3 DEF Relabelled, Shape
<1> QED
  BY <1>4 DEF e, q

LEMMA SetCorruptSafe ==
    ASSUME NEW d, NEW X, Safe(d, X), d.cur # None
    PROVE  /\ Safe(SetCorrupt(d), X) /\ Same(d, SetCorrupt(d))
           /\ DOMAIN SetCorrupt(d).pics = DOMAIN d.pics
<1> DEFINE x == [d.pics[d.cur] EXCEPT !.corrupt = TRUE]
<1>1. d.cur \in DOMAIN d.pics /\ DOMAIN d.pics[d.cur] = PicFields /\ Shape(d)
  BY DEF Safe, Shape
<1>2. /\ DOMAIN x = PicFields
      /\ \A f \in PicFields \ {"corrupt", "units", "good"} : x[f] = d.pics[d.cur][f]
  BY <1>1 DEF PicFields
<1>3. SetCorrupt(d) = [d EXCEPT !.pics = [d.pics EXCEPT ![d.cur] = x]]
  BY DEF SetCorrupt
<1> HIDE DEF x
<1>4. Relabelled(d, SetCorrupt(d))
  BY <1>1, <1>2, <1>3, RelabelOne
<1> QED
  BY <1>4, RelabelSafe DEF Relabelled

LEMMA DecodedSafe ==
    ASSUME NEW d, NEW X, Safe(d, X), d.cur # None, NEW nal, NEW refs, NEW n
    PROVE  Safe(Decoded(d, nal, refs, n), X) /\ Same(d, Decoded(d, nal, refs, n))
<1> DEFINE meant == /\ nal.au = d.pics[d.cur].tag
                    /\ None \notin refs
                    /\ {d.pics[r].tag : r \in refs} = nal.meant
                    /\ \A r \in refs : Whole(d, r)
           e == Decoded(d, nal, refs, n)
           x == [d.pics[d.cur] EXCEPT !.units = @ \cup {n}, !.good = @ /\ meant]
<1>1. d.cur \in DOMAIN d.pics /\ DOMAIN d.pics[d.cur] = PicFields /\ Shape(d)
  BY DEF Safe, Shape
<1>2. e = [d EXCEPT !.pics[d.cur].units = @ \cup {n}, !.pics[d.cur].good = @ /\ meant]
  BY DEF Decoded
<1> HIDE DEF meant, e
<1>3. /\ DOMAIN x = PicFields
      /\ \A f \in PicFields \ {"corrupt", "units", "good"} : x[f] = d.pics[d.cur][f]
  BY <1>1 DEF PicFields
<1>4. e = [d EXCEPT !.pics = [d.pics EXCEPT ![d.cur] = x]]
  <2>1. /\ DOMAIN d = Fields /\ "pics" \in Fields
    BY <1>1 DEF Shape, Fields
  <2>2. x = [d.pics[d.cur] EXCEPT !.units = d.pics[d.cur].units \cup {n},
                                  !.good = d.pics[d.cur].good /\ meant]
    BY <1>1 DEF PicFields
  <2> QED
    BY <1>1, <1>2, <2>1, <2>2 DEF PicFields
<1> HIDE DEF x
<1>5. Relabelled(d, e)
  BY <1>1, <1>3, <1>4, RelabelOne
<1>6. Safe(e, X) /\ Same(d, e)
  BY <1>5, RelabelSafe
<1> QED
  BY <1>6 DEF e

\* The picture in progress goes into the buffer.
Stored(d) == [dpbStore(d, d.cur, d.curOut) EXCEPT !.cur = None, !.ctu = NoCtu]

LEMMA StoreSafe ==
    ASSUME NEW d, NEW X, Safe(d, X), d.cur # None, NEW e, e = Stored(d)
    PROVE  /\ Safe(e, X) /\ e.cur = None /\ e.ctu = NoCtu /\ e.pics = d.pics
           /\ \A f \in Fields \ {"dpb", "cur", "ctu"} : e[f] = d[f]
           /\ \A p \in WaitPics(e) : p \in WaitPics(d) \/ p = d.cur
<1> DEFINE older == [i \in DOMAIN d.dpb |-> IF d.curOut /\ d.dpb[i].output
                                            THEN [d.dpb[i] EXCEPT !.latency = @ + 1] ELSE d.dpb[i]]
           x == [pic |-> d.cur, ref |-> TRUE, longTerm |-> FALSE, output |-> d.curOut, latency |-> 0]
           q == Append(older, x)
           N == Len(d.dpb)
<1>1. /\ Shape(d) /\ Planes(d) /\ Held(d, InDecoder(d)) /\ Distinct(d) /\ Output(d) /\ Due(d, X)
  BY DEF Safe
<1>2. /\ IsSeq(d.dpb) /\ DOMAIN d.dpb = 1 .. N /\ N \in Nat /\ DOMAIN d = Fields
      /\ d.cur \in DOMAIN d.pics
  BY <1>1, SeqIs DEF Shape
<1>3. \A i \in DOMAIN d.dpb : /\ DOMAIN older[i] = EntryFields /\ older[i].pic = d.dpb[i].pic
                              /\ older[i].output = d.dpb[i].output
  BY <1>1 DEF Shape, EntryFields
<1>4. IsSeq(older) /\ Len(older) = N
  <2>1. older = [i \in 1 .. N |-> older[i]]
    BY <1>2
  <2> HIDE DEF older
  <2> QED
    BY <1>2, <2>1, SeqFrom
<1>5. DOMAIN x = EntryFields /\ x.pic = d.cur /\ x.output = d.curOut
  BY DEF EntryFields
<1>6. e = [d EXCEPT !.dpb = q, !.cur = None, !.ctu = NoCtu]
  <2> HIDE DEF q
  <2>1. dpbStore(d, d.cur, d.curOut) = [d EXCEPT !.dpb = q]
    BY DEF dpbStore, q
  <2> QED
    BY <1>2, <2>1 DEF Fields, Stored
<1> HIDE DEF older, x
<1>7. /\ IsSeq(q) /\ DOMAIN q = 1 .. N + 1 /\ q[N + 1] = x
      /\ \A i \in DOMAIN d.dpb : q[i] = older[i]
  <2>1. /\ IsSeq(q) /\ Len(q) = N + 1 /\ \A i \in 1 .. N : q[i] = older[i]
        /\ q[N + 1] = x
    BY <1>4, SeqAppend
  <2> QED
    BY <1>2, <2>1, SeqIs
<1> HIDE DEF q
<1>8. /\ DOMAIN e = Fields /\ e.dpb = q /\ e.cur = None /\ e.ctu = NoCtu
      /\ \A f \in Fields \ {"dpb", "cur", "ctu"} : e[f] = d[f]
  BY <1>2, <1>6 DEF Fields
<1>9. e.pics = d.pics /\ e.free = d.free /\ e.shown = d.shown /\ Returned(e) = Returned(d)
  <2>1. e.pics = d.pics /\ e.free = d.free /\ e.shown = d.shown
    BY <1>8 DEF Fields
  <2> QED
    BY <2>1 DEF Returned
<1>10. \A i \in DOMAIN q : \/ i \in DOMAIN d.dpb /\ q[i].pic = d.dpb[i].pic
                              /\ q[i].output = d.dpb[i].output /\ DOMAIN q[i] = EntryFields
                           \/ i = N + 1 /\ q[i] = x
  BY <1>2, <1>3, <1>7
<1>11. DOMAIN d.dpb \subseteq DOMAIN q /\ N + 1 \in DOMAIN q
  BY <1>2, <1>7
<1>12. Buffered(e) = Buffered(d) \cup {d.cur}
  <2>1. \A i \in DOMAIN d.dpb : q[i].pic = d.dpb[i].pic
    BY <1>3, <1>7
  <2>2. Buffered(e) \subseteq Buffered(d) \cup {d.cur}
    BY <1>5, <1>8, <1>10 DEF Buffered
  <2>3. Buffered(d) \cup {d.cur} \subseteq Buffered(e)
    BY <1>5, <1>7, <1>8, <1>11, <2>1 DEF Buffered
  <2> QED
    BY <2>2, <2>3
<1>13. InDecoder(e) = InDecoder(d)
  BY <1>8, <1>12 DEF InDecoder
<1>14. Shape(e)
  <2>1. \A i \in DOMAIN q : DOMAIN q[i] = EntryFields /\ q[i].pic \in DOMAIN d.pics
    BY <1>1, <1>2, <1>5, <1>10 DEF Shape
  <2> QED
    BY <1>1, <1>7, <1>8, <1>9, <2>1 DEF Shape
<1>15. Planes(e) /\ Held(e, InDecoder(e))
  BY <1>1, <1>9, <1>13 DEF Planes, Held
<1>16. Distinct(e)
  <2>1. \A i \in DOMAIN d.dpb : d.dpb[i].pic # d.cur
    BY <1>1 DEF Distinct, Buffered
  <2>2. \A i, j \in DOMAIN q : q[i].pic = q[j].pic => i = j
    BY <1>1, <1>5, <1>10, <2>1 DEF Distinct
  <2>3. None \notin Buffered(e)
    <3>1. \A i \in DOMAIN d.pics : i # None
      BY <1>1, SeqIs DEF Shape, None
    <3> QED
      BY <1>8, <1>9, <1>14, <3>1 DEF Shape, Buffered
  <2> QED
    BY <1>1, <1>8, <1>9, <2>2, <2>3 DEF Distinct
<1>17. Output(e)
  <2>1. d.cur # None
    OBVIOUS
  <2>2. d.cur \notin Returned(d) /\ d.curOut = d.pics[d.cur].want
    BY <1>1, <2>1 DEF Output
  <2>3. \A k \in DOMAIN q : q[k].output => /\ d.pics[q[k].pic].want
                                           /\ q[k].pic \notin Returned(d)
    BY <1>1, <1>5, <1>10, <2>2 DEF Output
  <2> QED
    BY <1>1, <1>8, <1>9, <2>3 DEF Output
<1>18. Due(e, X)
  <2> SUFFICES ASSUME NEW i \in DOMAIN d.pics, d.pics[i].want
               PROVE  \/ i \in Returned(d) \/ i \in X
                      \/ \E k \in DOMAIN q : q[k].pic = i /\ q[k].output
    BY <1>8, <1>9 DEF Due
  <2>1. \/ i \in Returned(d) \/ i = d.cur \/ i \in X
        \/ \E k \in DOMAIN d.dpb : d.dpb[k].pic = i /\ d.dpb[k].output
    BY <1>1 DEF Due
  <2>2. CASE i = d.cur
    <3>1. d.curOut = d.pics[d.cur].want
      BY <1>1 DEF Output
    <3> QED
      BY <1>5, <1>7, <1>11, <2>2, <3>1
  <2>3. ASSUME NEW k \in DOMAIN d.dpb, d.dpb[k].pic = i, d.dpb[k].output
        PROVE  \E l \in DOMAIN q : q[l].pic = i /\ q[l].output
    BY <1>3, <1>7, <1>11, <2>3
  <2> QED
    BY <2>1, <2>2, <2>3
<1>19. \A p \in WaitPics(e) : p \in WaitPics(d) \/ p = d.cur
  BY <1>5, <1>8, <1>10 DEF WaitPics, Waiting
<1> QED
  BY <1>8, <1>9, <1>14, <1>15, <1>16, <1>17, <1>18, <1>19 DEF Safe

\* A step between pictures: everything may have changed but the sequence.
Goes(d, e) ==
    /\ Types(e) /\ e.cvs = d.cvs /\ DOMAIN d.pics \subseteq DOMAIN e.pics
    /\ Steady(d) => Steady(e)

LEMMA SameGoes == ASSUME NEW d, NEW e, Types(d), Same(d, e) PROVE Goes(d, e)
<1>1. Types(e)
  BY SameTypes
<1>2. e.cvs = d.cvs
  BY DEF Same, Fields
<1>3. Steady(d) => Steady(e)
  BY SameSteady
<1> QED
  BY <1>1, <1>2, <1>3 DEF Goes, Same

LEMMA GoesTrans == ASSUME NEW d, NEW e, NEW f, Goes(d, e), Goes(e, f) PROVE Goes(d, f)
  BY DEF Goes

LEMMA FinishSafe ==
    ASSUME NEW d, NEW X, Safe(d, X), Types(d)
    PROVE  /\ Safe(finishPicture(d), X) /\ Goes(d, finishPicture(d)) /\ finishPicture(d).cur = None
           /\ DOMAIN finishPicture(d).pics = DOMAIN d.pics
<1>1. CASE d.cur = None
  <2>1. finishPicture(d) = d
    BY <1>1 DEF finishPicture
  <2> QED
    BY <1>1, <2>1 DEF Goes
<1>2. CASE d.cur # None
  <2> DEFINE mk == IF complete(d) THEN d ELSE SetCorrupt(d)
             e  == [dpbStore(mk, d.cur, d.curOut) EXCEPT !.cur = None, !.ctu = NoCtu]
             f  == dpbDrain(e, FALSE)
  <2>1. finishPicture(d) = f
    BY <1>2 DEF finishPicture
  <2>2. Safe(mk, X) /\ Same(d, mk) /\ DOMAIN mk.pics = DOMAIN d.pics
    <3>1. Same(d, d)
      BY SameRefl
    <3> QED
      BY <1>2, <3>1, SetCorruptSafe
  <2> HIDE DEF mk
  <2>3. mk.cur = d.cur /\ mk.curOut = d.curOut
    BY <2>2 DEF Same, Fields
  <2>4. e = Stored(mk)
    BY <2>3 DEF Stored
  <2> HIDE DEF e
  <2>5. /\ Safe(e, X) /\ e.cur = None /\ e.ctu = NoCtu /\ e.pics = mk.pics
        /\ \A g \in Fields \ {"dpb", "cur", "ctu"} : e[g] = mk[g]
        /\ \A p \in WaitPics(e) : p \in WaitPics(mk) \/ p = mk.cur
    BY <1>2, <2>2, <2>3, <2>4, StoreSafe
  <2>6. Types(mk)
    BY <2>2, SameTypes
  <2>7. /\ e.sps = mk.sps /\ e.pps = mk.pps /\ e.prevSlic = mk.prevSlic /\ e.poc = mk.poc
        /\ e.curRPS = mk.curRPS /\ e.curOut = mk.curOut /\ e.cvs = mk.cvs
        /\ e.shown = mk.shown /\ e.maxReorder = mk.maxReorder
    BY <2>5 DEF Fields
  <2>8. Types(e)
    BY <2>5, <2>6, <2>7 DEF Types
  <2>9. Safe(f, X) /\ Same(e, f) /\ DOMAIN f.pics = DOMAIN e.pics
        /\ (e.maxReorder \in Nat => Calm(f))
    BY <2>5, DrainSafe, DrainCalm
  <2> HIDE DEF f
  <2>10. f.cur = None /\ f.cvs = e.cvs /\ Types(f)
    <3>1. f.cur = e.cur /\ f.cvs = e.cvs
      BY <2>9 DEF Same, Fields
    <3> QED
      BY <2>5, <2>8, <2>9, <3>1, SameTypes
  <2>11. ASSUME Steady(d) PROVE Steady(f)
    <3>1. Steady(mk)
      BY <2>2, <2>11, SameSteady
    <3>2. Sequenced(e, e.cvs)
      BY <1>2, <2>3, <2>5, <2>7, <3>1 DEF Steady, Sequenced
    <3>3. Sequenced(f, f.cvs)
      BY <2>9, <2>10, <3>2, FollowsSequenced DEF Same
    <3>4. e.maxReorder \in Nat
      BY <2>7, <3>1 DEF Steady, Calm
    <3> QED
      BY <2>9, <2>10, <3>3, <3>4 DEF Steady
  <2>12. Goes(d, f)
    <3>1. e.cvs = d.cvs
      BY <2>2, <2>7 DEF Same, Fields
    <3> QED
      BY <2>2, <2>5, <2>9, <2>10, <2>11, <3>1 DEF Goes
  <2> QED
    BY <2>1, <2>2, <2>5, <2>9, <2>10, <2>12
<1> QED
  BY <1>1, <1>2

\* A new picture i is in nobody's way: the decoder holds it, but has not put it
\* anywhere yet.
Loose(d, X, y, i, want) ==
    /\ Shape(y) /\ Planes(y) /\ Held(y, InDecoder(d) \cup {i}) /\ Distinct(y) /\ Output(y)
    /\ Due(y, X \cup {i}) /\ Same(d, y)
    /\ y.dpb = d.dpb /\ y.shown = d.shown /\ y.cur = d.cur
    /\ Buffered(y) = Buffered(d) /\ Returned(y) = Returned(d)
    /\ Len(y.pics) = i /\ i \in DOMAIN y.pics /\ i # None
    /\ i \notin Buffered(d) /\ i \notin Returned(d) /\ i # d.cur
    /\ y.pics[i].want = want /\ y.pics[i].cvs = d.cvs

LEMMA NewPictureSafe ==
    ASSUME NEW d, NEW X, Safe(d, X), NEW y, NEW want, Gained(d, y, want)
    PROVE  Loose(d, X, y, Len(d.pics) + 1, want)
<1> DEFINE i == Len(d.pics) + 1
<1>1. /\ Shape(d) /\ Planes(d) /\ Held(d, InDecoder(d)) /\ Distinct(d) /\ Output(d) /\ Due(d, X)
  BY DEF Safe
<1>2. /\ Shape(y) /\ Planes(y)
      /\ \A f \in Fields \ {"pics", "free"} : y[f] = d[f]
      /\ Len(d.pics) \in Nat /\ DOMAIN d.pics = 1 .. Len(d.pics)
      /\ Len(y.pics) = Len(d.pics) + 1 /\ DOMAIN y.pics = 1 .. Len(d.pics) + 1
      /\ \A j \in DOMAIN d.pics : y.pics[j] = d.pics[j]
      /\ y.pics[Len(d.pics) + 1].refs = 1
      /\ y.pics[Len(d.pics) + 1].released = FALSE
      /\ y.pics[Len(d.pics) + 1].want = want
      /\ y.pics[Len(d.pics) + 1].cvs = d.cvs
  BY DEF Gained
<1>3. /\ Len(y.pics) = i /\ i \in DOMAIN y.pics /\ i # None /\ i \notin DOMAIN d.pics
      /\ \A j \in DOMAIN y.pics : j = i \/ j \in DOMAIN d.pics
      /\ \A j \in DOMAIN d.pics : j \in DOMAIN y.pics
  BY <1>2 DEF None
<1>4. y.dpb = d.dpb /\ y.shown = d.shown /\ y.cur = d.cur /\ y.curOut = d.curOut
  BY <1>2 DEF Fields
<1>5. Buffered(y) = Buffered(d) /\ Returned(y) = Returned(d)
  BY <1>4 DEF Buffered, Returned
<1>6. /\ \A j \in Buffered(d) : j \in DOMAIN d.pics
      /\ \A j \in Returned(d) : j \in DOMAIN d.pics
      /\ d.cur # None => d.cur \in DOMAIN d.pics
      /\ \A k \in DOMAIN d.dpb : d.dpb[k].pic \in DOMAIN d.pics
  BY <1>1 DEF Shape, Buffered, Returned
<1>7. i \notin Buffered(d) /\ i \notin Returned(d) /\ i # d.cur
  BY <1>3, <1>6
<1>8. Held(y, InDecoder(d) \cup {i})
  <2> SUFFICES ASSUME NEW j \in DOMAIN y.pics
               PROVE  y.pics[j].refs = (IF j \in InDecoder(d) \cup {i} THEN 1 ELSE 0)
                              + (IF j \in Returned(d) /\ ~y.pics[j].released THEN 1 ELSE 0)
    BY <1>5 DEF Held
  <2>1. CASE j = i
    BY <1>2, <1>7, <2>1
  <2>2. CASE j # i
    <3>1. j \in DOMAIN d.pics /\ y.pics[j] = d.pics[j]
      BY <1>2, <1>3, <2>2
    <3>2. d.pics[j].refs = (IF j \in InDecoder(d) THEN 1 ELSE 0)
                           + (IF j \in Returned(d) /\ ~d.pics[j].released THEN 1 ELSE 0)
      BY <1>1, <3>1 DEF Held
    <3> QED
      BY <2>2, <3>1, <3>2
  <2> QED
    BY <2>1, <2>2
<1>9. Distinct(y)
  BY <1>1, <1>4, <1>5 DEF Distinct
<1>10. Output(y)
  <2>1. \A k \in DOMAIN y.dpb : y.dpb[k].output => /\ y.pics[y.dpb[k].pic].want
                                                   /\ y.dpb[k].pic \notin Returned(y)
    BY <1>1, <1>2, <1>4, <1>5, <1>6 DEF Output
  <2>2. y.cur # None => y.cur \notin Returned(y) /\ y.curOut = y.pics[y.cur].want
    BY <1>1, <1>2, <1>4, <1>5, <1>6 DEF Output
  <2>3. \A j \in Returned(y) : y.pics[j].want
    BY <1>1, <1>2, <1>5, <1>6 DEF Output
  <2>4. ASSUME NEW j \in DOMAIN y.pics, y.pics[j].released PROVE j \in Returned(y)
    <3>1. j # i
      BY <1>2, <2>4
    <3> QED
      BY <1>1, <1>2, <1>3, <1>5, <2>4, <3>1 DEF Output
  <2> QED
    BY <2>1, <2>2, <2>3, <2>4 DEF Output
<1>11. Due(y, X \cup {i})
  BY <1>1, <1>2, <1>3, <1>4, <1>5 DEF Due
<1>12. Same(d, y)
  <2>1. Waits(y) = Waits(d)
    BY <1>4 DEF Waits, Waiting
  <2> QED
    BY <1>2, <1>3, <1>4, <2>1 DEF Same, Follows
<1>13. y.pics[i].want = want /\ y.pics[i].cvs = d.cvs
  BY <1>2
<1> HIDE DEF i
<1>14. Loose(d, X, y, i, want)
  BY <1>2, <1>3, <1>4, <1>5, <1>7, <1>8, <1>9, <1>10, <1>11, <1>12, <1>13 DEF Loose
<1> QED
  BY <1>14 DEF i

LEMMA GreySafe ==
    ASSUME NEW d, NEW X, Safe(d, X), NEW poc \in Int, NEW s
    PROVE  Safe(Grey(d, poc, s), X) /\ Same(d, Grey(d, poc, s))
<1> DEFINE y == newPicture(d, s, poc, None, TRUE, FALSE)
           i == Len(d.pics) + 1
           N == Len(d.dpb)
           x == [pic |-> Len(y.pics), ref |-> TRUE, longTerm |-> FALSE, output |-> FALSE, latency |-> 0]
           q == Append(y.dpb, x)
           e == [y EXCEPT !.dpb = q]
<1>1. CASE dpbFind(d, poc) # None
  <2>1. Grey(d, poc, s) = d
    BY <1>1 DEF Grey
  <2> QED
    BY <2>1, SameRefl
<1>2. CASE dpbFind(d, poc) = None
  <2>1. Grey(d, poc, s) = e
    BY <1>2 DEF Grey
  <2>2. DOMAIN x = EntryFields /\ x.pic = Len(y.pics) /\ x.output = FALSE
    BY DEF EntryFields
  <2> HIDE DEF x, y, i
  <2>3. /\ Shape(y) /\ Planes(y) /\ Held(y, InDecoder(d) \cup {i}) /\ Distinct(y) /\ Output(y)
        /\ Due(y, X \cup {i}) /\ Same(d, y)
        /\ y.dpb = d.dpb /\ y.shown = d.shown /\ y.cur = d.cur
        /\ Buffered(y) = Buffered(d) /\ Returned(y) = Returned(d)
        /\ Len(y.pics) = i /\ i \in DOMAIN y.pics /\ i # None
        /\ i \notin Buffered(d) /\ i \notin Returned(d) /\ i # d.cur
        /\ y.pics[i].want = FALSE
    <3>1. Shape(d) /\ Planes(d)
      BY DEF Safe
    <3>2. Gained(d, y, FALSE)
      BY <3>1, NewPictureEffect DEF y
    <3>3. Loose(d, X, y, i, FALSE)
      BY <3>2, NewPictureSafe DEF i
    <3> QED
      BY <3>3 DEF Loose
  <2>4. IsSeq(y.dpb) /\ DOMAIN y = Fields /\ DOMAIN y.dpb = 1 .. N /\ N \in Nat /\ Len(y.dpb) = N
    BY <2>3, SeqIs DEF Shape
  <2>5. /\ IsSeq(q) /\ DOMAIN q = 1 .. N + 1 /\ q[N + 1] = x
        /\ \A j \in DOMAIN y.dpb : q[j] = y.dpb[j]
    <3>1. /\ IsSeq(q) /\ Len(q) = N + 1 /\ q[N + 1] = x /\ \A j \in 1 .. N : q[j] = y.dpb[j]
      BY <2>4, SeqAppend
    <3> QED
      BY <2>4, <3>1, SeqIs
  <2> HIDE DEF q, N
  <2>6. /\ DOMAIN e = Fields /\ e.dpb = q /\ \A f \in Fields \ {"dpb"} : e[f] = y[f]
    BY <2>4 DEF Fields
  <2> HIDE DEF e
  <2>7. e.pics = y.pics /\ e.free = y.free /\ e.shown = y.shown /\ e.cur = y.cur /\ e.curOut = y.curOut
    BY <2>6 DEF Fields
  <2>8. Returned(e) = Returned(y)
    BY <2>7 DEF Returned
  <2>9. /\ \A j \in DOMAIN q : (j \in DOMAIN y.dpb /\ q[j] = y.dpb[j]) \/ (j = N + 1 /\ q[j] = x)
        /\ \A j \in DOMAIN y.dpb : j \in DOMAIN q
        /\ N + 1 \in DOMAIN q
    BY <2>4, <2>5
  <2>10. Buffered(e) = Buffered(d) \cup {i}
    <3>1. Buffered(e) \subseteq Buffered(y) \cup {i}
      BY <2>2, <2>3, <2>6, <2>9 DEF Buffered
    <3>2. Buffered(y) \cup {i} \subseteq Buffered(e)
      BY <2>2, <2>3, <2>5, <2>6, <2>9 DEF Buffered
    <3> QED
      BY <2>3, <3>1, <3>2
  <2>11. InDecoder(e) = InDecoder(d) \cup {i}
    BY <2>3, <2>7, <2>10 DEF InDecoder
  <2>12. Shape(e)
    <3>1. \A j \in DOMAIN q : DOMAIN q[j] = EntryFields /\ q[j].pic \in DOMAIN y.pics
      BY <2>2, <2>3, <2>9 DEF Shape
    <3> QED
      BY <2>3, <2>5, <2>6, <2>7, <3>1 DEF Shape
  <2>13. Planes(e) /\ Held(e, InDecoder(e))
    BY <2>3, <2>7, <2>8, <2>11 DEF Planes, Held
  <2>14. Distinct(e)
    <3>1. \A j \in DOMAIN y.dpb : y.dpb[j].pic # i
      BY <2>3 DEF Buffered
    <3>2. \A j, k \in DOMAIN q : q[j].pic = q[k].pic => j = k
      BY <2>2, <2>3, <2>9, <3>1 DEF Distinct
    <3>3. e.cur \notin Buffered(e)
      BY <2>3, <2>7, <2>10 DEF Distinct
    <3> QED
      BY <2>3, <2>6, <2>7, <3>2, <3>3 DEF Distinct
  <2>15. Output(e)
    BY <2>2, <2>3, <2>6, <2>7, <2>8, <2>9 DEF Output
  <2>16. Due(e, X)
    <3> SUFFICES ASSUME NEW j \in DOMAIN y.pics, y.pics[j].want
                 PROVE  \/ j \in Returned(e) \/ j = e.cur \/ j \in X
                        \/ \E k \in DOMAIN q : q[k].pic = j /\ q[k].output
      BY <2>6, <2>7 DEF Due
    <3>1. j # i
      BY <2>3
    <3>2. \/ j \in Returned(y) \/ j = y.cur \/ j \in X
          \/ \E k \in DOMAIN y.dpb : y.dpb[k].pic = j /\ y.dpb[k].output
      BY <2>3, <3>1 DEF Due
    <3> QED
      BY <2>5, <2>7, <2>8, <2>9, <3>2
  <2>17. Same(d, e)
    <3>1. \A w \in Waits(e) : w \in Waits(y)
      BY <2>2, <2>6, <2>9 DEF Waits, Waiting
    <3>2. Same(y, e)
      BY <2>6, <2>7, <3>1 DEF Same, Follows, Fields
    <3> QED
      BY <2>3, <3>2, SameTrans
  <2> QED
    BY <2>1, <2>12, <2>13, <2>14, <2>15, <2>16, <2>17 DEF Safe
<1> QED
  BY <1>1, <1>2

\* Grey pictures for the counts of a sequence.
Filled(d, pocs, s) ==
    LET filled[n \in 0 .. Len(pocs)] == IF n = 0 THEN d ELSE Grey(filled[n - 1], pocs[n], s)
    IN  filled[Len(pocs)]

FilledBy(filled, d, pocs, s) ==
    filled = [n \in 0 .. Len(pocs) |-> IF n = 0 THEN d ELSE Grey(filled[n - 1], pocs[n], s)]

LEMMA FilledRuns ==
    ASSUME NEW d, NEW pocs, NEW s, Len(pocs) \in Nat
    PROVE  \E filled :
             /\ FilledBy(filled, d, pocs, s)
             /\ Filled(d, pocs, s) = filled[Len(pocs)]
<1> DEFINE Run(g, l) == g = [n \in 0 .. l |-> IF n = 0 THEN d ELSE Grey(g[n - 1], pocs[n], s)]
           T == {l \in Nat : \E g : Run(g, l)}
<1>1. 0 \in T
  <2>1. Run([n \in 0 .. 0 |-> d], 0)
    OBVIOUS
  <2> QED
    BY <2>1
<1>2. ASSUME NEW l \in T PROVE l + 1 \in T
  <2>1. PICK g : Run(g, l)
    OBVIOUS
  <2> DEFINE h == [n \in 0 .. l + 1 |-> IF n = l + 1 THEN Grey(g[l], pocs[l + 1], s) ELSE g[n]]
  <2>2. l \in Nat
    OBVIOUS
  <2>3. ASSUME NEW n \in 0 .. l + 1 PROVE h[n] = IF n = 0 THEN d ELSE Grey(h[n - 1], pocs[n], s)
    BY <2>1, <2>2
  <2>4. Run(h, l + 1)
    BY <2>3
  <2> HIDE DEF h, Run
  <2> QED
    BY <2>2, <2>4
<1>3. Len(pocs) \in T
  <2> HIDE DEF T
  <2>1. T = Nat
    BY <1>1, <1>2, Induct DEF T
  <2> QED
    BY <2>1
<1> QED
  BY <1>3 DEF Filled, FilledBy

LEMMA FilledSafe ==
    ASSUME NEW d, NEW X, Safe(d, X), NEW pocs \in Seq(Int), NEW s
    PROVE  Safe(Filled(d, pocs, s), X) /\ Same(d, Filled(d, pocs, s))
<1>1. Len(pocs) \in Nat /\ \A n \in 1 .. Len(pocs) : pocs[n] \in Int
  OBVIOUS
<1>2. PICK filled :
         /\ FilledBy(filled, d, pocs, s)
         /\ Filled(d, pocs, s) = filled[Len(pocs)]
  BY <1>1, FilledRuns
<1> DEFINE T == {n \in Nat : n <= Len(pocs) => Safe(filled[n], X) /\ Same(d, filled[n])}
<1>3. 0 \in T
  <2>1. filled[0] = d
    BY <1>1, <1>2 DEF FilledBy
  <2> QED
    BY <2>1, SameRefl
<1>4. ASSUME NEW n \in T PROVE n + 1 \in T
  <2> SUFFICES ASSUME n + 1 <= Len(pocs) PROVE Safe(filled[n + 1], X) /\ Same(d, filled[n + 1])
    OBVIOUS
  <2>1. n \in Nat /\ n + 1 \in 0 .. Len(pocs) /\ n + 1 # 0 /\ (n + 1) - 1 = n /\ n + 1 \in 1 .. Len(pocs)
    BY <1>1
  <2>2. Safe(filled[n], X) /\ Same(d, filled[n])
    BY <1>1, <2>1
  <2>3. filled[n + 1] = Grey(filled[n], pocs[n + 1], s)
    BY <1>2, <2>1 DEF FilledBy
  <2>4. /\ Safe(Grey(filled[n], pocs[n + 1], s), X)
        /\ Same(filled[n], Grey(filled[n], pocs[n + 1], s))
    BY <1>1, <2>1, <2>2, GreySafe
  <2> HIDE DEF T
  <2> QED
    BY <2>2, <2>3, <2>4, SameTrans
<1>5. Len(pocs) \in T
  <2> HIDE DEF T
  <2>1. T = Nat
    BY <1>3, <1>4, Induct DEF T
  <2> QED
    BY <1>1, <2>1
<1> QED
  BY <1>1, <1>2, <1>5

LEMMA GenerateSafe ==
    ASSUME NEW d, NEW X, Safe(d, X), NEW rps \in RpsType, NEW s
    PROVE  Safe(generateUnavailable(d, rps, s), X) /\ Same(d, generateUnavailable(d, rps, s))
<1>1. AllPocs(rps) \in Seq(Int)
  BY DEF AllPocs, RpsType
<1>2. generateUnavailable(d, rps, s) = Filled(d, AllPocs(rps), s)
  BY DEF generateUnavailable, Filled
<1> QED
  BY <1>1, <1>2, FilledSafe

-----------------------------------------------------------------------------
(* The reference picture set is one of picture order counts.               *)

LEMMA PickedTyped == ASSUME NEW S, NEW s \in Seq(S), NEW P PROVE Picked(s, P) \in Seq(S)
<1>1. IsSeq(s) /\ DOMAIN s = 1 .. Len(s) /\ \A i \in DOMAIN s : s[i] \in S
  <2>1. IsSeq(s)
    BY SeqTyped
  <2> QED
    BY <2>1
<1>2. /\ IsSeq(Picked(s, P))
      /\ \A j \in DOMAIN Picked(s, P) : \E i \in DOMAIN s \cap P : Picked(s, P)[j] = s[i]
  BY <1>1, PickedIs
<1> DEFINE p == Picked(s, P)
<1> HIDE DEF p
<1>3. p \in Seq(ToSet(p)) /\ DOMAIN p = 1 .. Len(p) /\ Len(p) \in Nat
  BY <1>2, SeqIs DEF p
<1>4. \A j \in DOMAIN p : p[j] \in S
  BY <1>1, <1>2 DEF p
<1>5. p \in [1 .. Len(p) -> S]
  BY <1>3, <1>4
<1>6. p \in Seq(S)
  BY <1>3, <1>5, SeqDef
<1> QED
  BY <1>6 DEF p

LEMMA MapTyped ==
    ASSUME NEW S, NEW T, NEW s \in Seq(S), NEW f, f = [i \in DOMAIN s |-> f[i]],
           \A i \in DOMAIN s : f[i] \in T
    PROVE  f \in Seq(T) /\ DOMAIN f = DOMAIN s
<1>1. DOMAIN s = 1 .. Len(s) /\ Len(s) \in Nat
  OBVIOUS
<1>2. f \in [1 .. Len(s) -> T]
  BY <1>1
<1> QED
  BY <1>1, <1>2, SeqDef

LEMMA DeltasType ==
    ASSUME NEW s \in Seq(ShortDelta), NEW used, NEW poc \in Int
    PROVE  Deltas(s, used, poc) \in Seq(Int)
<1> DEFINE chosen == Chosen(s, used)
           f == [i \in DOMAIN chosen |-> poc + chosen[i].d]
<1>1. chosen \in Seq(ShortDelta)
  BY PickedTyped DEF Chosen
<1>2. Deltas(s, used, poc) = f
  BY DEF Deltas
<1> HIDE DEF chosen
<1>3. \A i \in DOMAIN chosen : f[i] \in Int
  <2>1. \A i \in DOMAIN chosen : chosen[i] \in ShortDelta
    BY <1>1
  <2> QED
    BY <2>1 DEF ShortDelta
<1>4. f = [i \in DOMAIN chosen |-> f[i]]
  OBVIOUS
<1> HIDE DEF f
<1>5. f \in Seq(Int)
  BY <1>1, <1>3, <1>4, MapTyped
<1> QED
  BY <1>2, <1>5

CycleBy(cycle, lt, numSps, l) ==
    cycle = [i \in 1 .. l |-> IF i = 1 \/ i = numSps + 1 THEN lt[i].cycle
                              ELSE cycle[i - 1] + lt[i].cycle]

LEMMA MsbCycleType ==
    ASSUME NEW lt \in Seq(LongEntry), NEW numSps \in Nat
    PROVE  \A i \in DOMAIN lt : MsbCycle(lt, numSps)[i] \in Nat
<1>1. DOMAIN lt = 1 .. Len(lt) /\ Len(lt) \in Nat
  OBVIOUS
<1>2. \A i \in DOMAIN lt : lt[i].cycle \in Nat
  <2>1. \A i \in DOMAIN lt : lt[i] \in LongEntry
    OBVIOUS
  <2> QED
    BY <2>1 DEF LongEntry
<1> DEFINE T == {l \in Nat : \E g : CycleBy(g, lt, numSps, l)}
<1>3. 0 \in T
  <2>1. CycleBy([i \in 1 .. 0 |-> 0], lt, numSps, 0)
    BY DEF CycleBy
  <2> QED
    BY <2>1
<1>4. ASSUME NEW l \in T PROVE l + 1 \in T
  <2>1. l \in Nat
    OBVIOUS
  <2>2. PICK g : CycleBy(g, lt, numSps, l)
    OBVIOUS
  <2> DEFINE step == IF l + 1 = 1 \/ l + 1 = numSps + 1 THEN lt[l + 1].cycle
                     ELSE g[l] + lt[l + 1].cycle
             h == [i \in 1 .. l + 1 |-> IF i = l + 1 THEN step ELSE g[i]]
  <2>3. ASSUME NEW i \in 1 .. l + 1
        PROVE  h[i] = IF i = 1 \/ i = numSps + 1 THEN lt[i].cycle ELSE h[i - 1] + lt[i].cycle
    <3>1. CASE i = l + 1
      BY <2>1, <3>1
    <3>2. CASE i # l + 1
      <4>1. i \in 1 .. l /\ h[i] = g[i] /\ (i # 1 => i - 1 \in 1 .. l + 1 /\ h[i - 1] = g[i - 1])
        BY <2>1, <3>2
      <4> HIDE DEF h
      <4> QED
        BY <2>2, <4>1 DEF CycleBy
    <3> QED
      BY <3>1, <3>2
  <2>4. h = [i \in 1 .. l + 1 |-> h[i]]
    OBVIOUS
  <2> HIDE DEF h
  <2>5. CycleBy(h, lt, numSps, l + 1)
    BY <2>3, <2>4 DEF CycleBy
  <2> QED
    BY <2>1, <2>5
<1>5. PICK g : CycleBy(g, lt, numSps, Len(lt))
  <2> HIDE DEF T
  <2>1. T = Nat
    BY <1>3, <1>4, Induct DEF T
  <2>2. Len(lt) \in T
    BY <1>1, <2>1
  <2> QED
    BY <2>2 DEF T
<1> DEFINE c == MsbCycle(lt, numSps)
<1>6. CycleBy(c, lt, numSps, Len(lt))
  BY <1>1, <1>5 DEF MsbCycle, CycleBy
<1> HIDE DEF c
<1> DEFINE U == {l \in Nat : l + 1 <= Len(lt) => c[l + 1] \in Nat}
<1>7. 0 \in U
  BY <1>1, <1>2, <1>6 DEF CycleBy
<1>8. ASSUME NEW l \in U PROVE l + 1 \in U
  <2> SUFFICES ASSUME (l + 1) + 1 <= Len(lt) PROVE c[(l + 1) + 1] \in Nat
    OBVIOUS
  <2>1. /\ l \in Nat /\ (l + 1) + 1 \in 1 .. Len(lt) /\ ((l + 1) + 1) - 1 = l + 1
        /\ (l + 1) + 1 # 1 /\ l + 1 <= Len(lt)
    BY <1>1
  <2>2. c[l + 1] \in Nat
    BY <2>1
  <2> DEFINE n == (l + 1) + 1
  <2>3. c[n] = IF n = 1 \/ n = numSps + 1 THEN lt[n].cycle ELSE c[n - 1] + lt[n].cycle
    BY <1>6, <2>1 DEF CycleBy
  <2>4. lt[n].cycle \in Nat
    BY <1>1, <1>2, <2>1
  <2> QED
    BY <2>1, <2>2, <2>3, <2>4
<1>9. \A i \in 1 .. Len(lt) : c[i] \in Nat
  <2> HIDE DEF U
  <2>1. U = Nat
    BY <1>7, <1>8, Induct DEF U
  <2> TAKE i \in 1 .. Len(lt)
  <2>2. i - 1 \in U /\ (i - 1) + 1 = i /\ i <= Len(lt)
    BY <1>1, <2>1
  <2> QED
    BY <2>2 DEF U
<1> QED
  BY <1>1, <1>9 DEF c

LongPoc == [poc : Int, lsbOnly : BOOLEAN, used : BOOLEAN]

LEMMA LongTermType ==
    ASSUME NEW lt \in Seq(LongEntry), NEW numSps \in Nat, NEW used, NEW poc \in Int,
           NEW maxLsb \in Nat \ {0}
    PROVE  LongTerm(lt, numSps, used, poc, maxLsb) \in Seq(LongPoc)
<1> DEFINE cycle == MsbCycle(lt, numSps)
           entry(i) == [poc |-> IF lt[i].msbPresent
                                THEN poc - cycle[i] * maxLsb - (poc % maxLsb) + lt[i].lsb
                                ELSE lt[i].lsb,
                        lsbOnly |-> ~lt[i].msbPresent, used |-> lt[i].used]
           f == [i \in DOMAIN lt |-> entry(i)]
<1>1. \A i \in DOMAIN lt : cycle[i] \in Nat /\ lt[i] \in LongEntry
  BY MsbCycleType
<1> HIDE DEF cycle
<1>2. poc % maxLsb \in Int
  OBVIOUS
<1>3. \A i \in DOMAIN lt : entry(i) \in LongPoc
  <2> TAKE i \in DOMAIN lt
  <2>1. lt[i].lsb \in Int /\ lt[i].msbPresent \in BOOLEAN /\ lt[i].used \in BOOLEAN
    BY <1>1 DEF LongEntry
  <2>2. cycle[i] * maxLsb \in Int
    BY <1>1
  <2>3. poc - cycle[i] * maxLsb - (poc % maxLsb) + lt[i].lsb \in Int
    BY <1>2, <2>1, <2>2
  <2> QED
    BY <2>1, <2>3 DEF LongPoc
<1> HIDE DEF entry
<1>4. f = [i \in DOMAIN lt |-> f[i]] /\ \A i \in DOMAIN lt : f[i] \in LongPoc
  BY <1>3
<1>5. f \in Seq(LongPoc)
  <2> HIDE DEF f
  <2> QED
    BY <1>4, MapTyped
<1>6. LongTerm(lt, numSps, used, poc, maxLsb) = Chosen(f, used)
  BY DEF LongTerm, entry, cycle
<1> HIDE DEF f
<1> QED
  BY <1>5, <1>6, PickedTyped DEF Chosen

DerivedType == [before : Seq(Int), after : Seq(Int), foll : Seq(Int),
                lt : Seq(LongPoc), ltFoll : Seq(LongPoc)]

LEMMA DeriveType ==
    ASSUME NEW poc \in Int, NEW maxLsb \in Nat \ {0}, NEW s0 \in Seq(ShortDelta),
           NEW s1 \in Seq(ShortDelta), NEW lt \in Seq(LongEntry), NEW numSps \in Nat
    PROVE  deriveRefPicSet(poc, maxLsb, s0, s1, lt, numSps) \in DerivedType
<1>1. /\ Deltas(s0, TRUE, poc) \in Seq(Int) /\ Deltas(s1, TRUE, poc) \in Seq(Int)
      /\ Deltas(s0, FALSE, poc) \in Seq(Int) /\ Deltas(s1, FALSE, poc) \in Seq(Int)
  BY DeltasType
<1>2. Deltas(s0, FALSE, poc) \o Deltas(s1, FALSE, poc) \in Seq(Int)
  BY <1>1, ConcatProperties
<1>3. /\ LongTerm(lt, numSps, TRUE, poc, maxLsb) \in Seq(LongPoc)
      /\ LongTerm(lt, numSps, FALSE, poc, maxLsb) \in Seq(LongPoc)
  BY LongTermType
<1> QED
  BY <1>1, <1>2, <1>3 DEF deriveRefPicSet, DerivedType

\* What resolveLongTerm finds for an entry when the pictures of `taken` are gone.
FoundFor(x, taken, refs, maxLsb) ==
    LET match == {j \in DOMAIN refs : /\ refs[j] \notin taken
                                      /\ refs[j] % maxLsb = x.poc % maxLsb}
    IN  IF ~x.lsbOnly THEN [poc |-> x.poc, ok |-> TRUE]
        ELSE IF match = {} THEN [poc |-> x.poc, ok |-> FALSE]
        ELSE [poc |-> refs[CHOOSE j \in match : \A k \in match : j <= k], ok |-> TRUE]

TakenBefore(g, i) == {g[k].poc : k \in {k \in 1 .. i - 1 : g[k].ok}}

FoundBy(g, all, refs, maxLsb, l) ==
    g = [i \in 1 .. l |-> FoundFor(all[i], TakenBefore(g, i), refs, maxLsb)]

\* The recursive function in resolveLongTerm.
Resolved(all, refs, maxLsb) ==
    LET found[i \in DOMAIN all] == FoundFor(all[i], TakenBefore(found, i), refs, maxLsb)
    IN  found

LEMMA FoundType ==
    ASSUME NEW x \in LongPoc, NEW taken, NEW refs \in Seq(Int), NEW maxLsb
    PROVE  FoundFor(x, taken, refs, maxLsb).poc \in Int
<1> DEFINE match == {j \in DOMAIN refs : /\ refs[j] \notin taken
                                         /\ refs[j] % maxLsb = x.poc % maxLsb}
           first == CHOOSE j \in match : \A k \in match : j <= k
<1>1. x.poc \in Int
  BY DEF LongPoc
<1>2. \A j \in match : j \in Nat /\ refs[j] \in Int
  OBVIOUS
<1>3. FoundFor(x, taken, refs, maxLsb)
      = IF ~x.lsbOnly THEN [poc |-> x.poc, ok |-> TRUE]
        ELSE IF match = {} THEN [poc |-> x.poc, ok |-> FALSE]
        ELSE [poc |-> refs[first], ok |-> TRUE]
  BY DEF FoundFor
<1> HIDE DEF match
<1>4. ASSUME match # {} PROVE refs[first] \in Int
  <2>1. \E j \in match : \A k \in match : j <= k
    BY <1>2, <1>4, Least
  <2>2. first \in match
    BY <2>1, Zenon
  <2> QED
    BY <1>2, <2>2
<1> HIDE DEF first
<1> QED
  BY <1>1, <1>3, <1>4

LEMMA ResolvedRuns ==
    ASSUME NEW all \in Seq(LongPoc), NEW refs, NEW maxLsb
    PROVE  FoundBy(Resolved(all, refs, maxLsb), all, refs, maxLsb, Len(all))
<1>1. DOMAIN all = 1 .. Len(all) /\ Len(all) \in Nat
  OBVIOUS
<1> DEFINE T == {l \in Nat : \E g : FoundBy(g, all, refs, maxLsb, l)}
<1>2. 0 \in T
  <2>1. FoundBy([i \in 1 .. 0 |-> 0], all, refs, maxLsb, 0)
    BY DEF FoundBy
  <2> QED
    BY <2>1
<1>3. ASSUME NEW l \in T PROVE l + 1 \in T
  <2>1. l \in Nat
    OBVIOUS
  <2>2. PICK g : FoundBy(g, all, refs, maxLsb, l)
    OBVIOUS
  <2> DEFINE h == [i \in 1 .. l + 1 |->
                     IF i = l + 1 THEN FoundFor(all[i], TakenBefore(g, i), refs, maxLsb)
                     ELSE g[i]]
  <2>3. \A k \in 1 .. l : h[k] = g[k]
    BY <2>1
  <2>4. \A i \in 1 .. l + 1 : h[i] = FoundFor(all[i], TakenBefore(g, i), refs, maxLsb)
    <3>1. \A i \in 1 .. l : g[i] = FoundFor(all[i], TakenBefore(g, i), refs, maxLsb)
      BY <2>2 DEF FoundBy
    <3>2. \A i \in 1 .. l + 1 : i # l + 1 => i \in 1 .. l
      BY <2>1
    <3> QED
      BY <3>1, <3>2
  <2>5. h = [i \in 1 .. l + 1 |-> h[i]]
    OBVIOUS
  <2> HIDE DEF h
  <2>6. \A i \in 1 .. l + 1 : TakenBefore(h, i) = TakenBefore(g, i)
    <3> TAKE i \in 1 .. l + 1
    <3>1. \A k \in 1 .. i - 1 : h[k] = g[k]
      BY <2>1, <2>3
    <3> QED
      BY <3>1 DEF TakenBefore
  <2>7. FoundBy(h, all, refs, maxLsb, l + 1)
    BY <2>4, <2>5, <2>6 DEF FoundBy
  <2> QED
    BY <2>1, <2>7
<1>4. PICK g : FoundBy(g, all, refs, maxLsb, Len(all))
  <2> HIDE DEF T
  <2>1. T = Nat
    BY <1>2, <1>3, Induct DEF T
  <2>2. Len(all) \in T
    BY <1>1, <2>1
  <2> QED
    BY <2>2 DEF T
<1> QED
  BY <1>1, <1>4 DEF Resolved, FoundBy

LEMMA SameInterval == ASSUME NEW n \in Nat, NEW k \in Nat, 1 .. n = 1 .. k PROVE n = k
<1>1. (n \in 1 .. n => n \in 1 .. k) /\ (k \in 1 .. k => k \in 1 .. n)
  OBVIOUS
<1>2. (n = 0 \/ n <= k) /\ (k = 0 \/ k <= n)
  BY <1>1
<1>3. (n = 0 \/ n \in 1 .. k) /\ (k = 0 \/ k \in 1 .. n)
  BY <1>2
<1> QED
  BY <1>2, <1>3

LEMMA SameLength ==
    ASSUME NEW S, NEW T, NEW s \in Seq(S), NEW t \in Seq(T), DOMAIN s = DOMAIN t
    PROVE  Len(s) = Len(t)
<1>1. /\ DOMAIN s = 1 .. Len(s) /\ DOMAIN t = 1 .. Len(t)
      /\ Len(s) \in Nat /\ Len(t) \in Nat
  OBVIOUS
<1>2. 1 .. Len(s) = 1 .. Len(t)
  BY <1>1
<1> QED
  BY <1>1, <1>2, SameInterval

LEMMA ResolvedType ==
    ASSUME NEW all \in Seq(LongPoc), NEW refs \in Seq(Int), NEW maxLsb
    PROVE  /\ [i \in DOMAIN all |-> Resolved(all, refs, maxLsb)[i].poc] \in Seq(Int)
           /\ Len([i \in DOMAIN all |-> Resolved(all, refs, maxLsb)[i].poc]) = Len(all)
<1> DEFINE found == Resolved(all, refs, maxLsb)
           poc == [i \in DOMAIN all |-> found[i].poc]
<1>1. DOMAIN all = 1 .. Len(all) /\ \A i \in DOMAIN all : all[i] \in LongPoc
  OBVIOUS
<1>2. FoundBy(found, all, refs, maxLsb, Len(all))
  BY ResolvedRuns
<1> HIDE DEF found
<1>3. ASSUME NEW i \in DOMAIN all PROVE found[i].poc \in Int
  <2>1. found[i] = FoundFor(all[i], TakenBefore(found, i), refs, maxLsb)
    BY <1>1, <1>2 DEF FoundBy
  <2> QED
    BY <1>1, <2>1, FoundType
<1>4. poc = [i \in DOMAIN all |-> poc[i]] /\ \A i \in DOMAIN all : poc[i] \in Int
  BY <1>3
<1>5. poc \in Seq(Int) /\ Len(poc) = Len(all)
  <2> HIDE DEF poc
  <2>1. poc \in Seq(Int) /\ DOMAIN poc = DOMAIN all
    BY <1>4, MapTyped
  <2> QED
    BY <2>1, SameLength
<1> QED
  BY <1>5 DEF found

LEMMA Halves ==
    ASSUME NEW S, NEW s, NEW t \in Seq(S), NEW n \in Nat, NEW k \in Nat,
           Len(t) = n + k, s = t
    PROVE  SubSeq(s, 1, n) \in Seq(S) /\ SubSeq(s, n + 1, n + k) \in Seq(S)
<1>1. \A i \in 1 .. n + k : s[i] \in S
  OBVIOUS
<1>2. SubSeq(s, 1, n) \in Seq(S)
  <2>1. 1 \in Int /\ n \in Int /\ \A i \in 1 .. n : s[i] \in S
    BY <1>1
  <2> QED
    BY <2>1, SubSeqProperties
<1>3. SubSeq(s, n + 1, n + k) \in Seq(S)
  <2>1. n + 1 \in Int /\ n + k \in Int /\ \A i \in n + 1 .. n + k : s[i] \in S
    BY <1>1
  <2> QED
    BY <2>1, SubSeqProperties
<1> QED
  BY <1>2, <1>3

LEMMA ResolveType ==
    ASSUME NEW rps \in DerivedType, NEW refs \in Seq(Int), NEW maxLsb
    PROVE  resolveLongTerm(rps, refs, maxLsb) \in RpsType
<1> DEFINE all == rps.lt \o rps.ltFoll
           poc == [i \in DOMAIN all |-> Resolved(all, refs, maxLsb)[i].poc]
           a == SubSeq(poc, 1, Len(rps.lt))
           b == SubSeq(poc, Len(rps.lt) + 1, Len(all))
<1>1. /\ rps.before \in Seq(Int) /\ rps.after \in Seq(Int) /\ rps.foll \in Seq(Int)
      /\ rps.lt \in Seq(LongPoc) /\ rps.ltFoll \in Seq(LongPoc)
      /\ DOMAIN rps = {"before", "after", "foll", "lt", "ltFoll"}
      /\ rps = [f \in {"before", "after", "foll", "lt", "ltFoll"} |-> rps[f]]
  BY DEF DerivedType
<1>2. /\ all \in Seq(LongPoc) /\ Len(rps.lt) \in Nat /\ Len(rps.ltFoll) \in Nat
      /\ Len(all) = Len(rps.lt) + Len(rps.ltFoll)
  BY <1>1, ConcatProperties
<1>3. resolveLongTerm(rps, refs, maxLsb) = [rps EXCEPT !.lt = a, !.ltFoll = b]
  BY DEF resolveLongTerm, Resolved, FoundFor, TakenBefore
<1>4. poc \in Seq(Int) /\ Len(poc) = Len(all)
  <2> HIDE DEF all
  <2> QED
    BY <1>2, ResolvedType
<1>5. a \in Seq(Int) /\ b \in Seq(Int)
  <2> HIDE DEF all, poc
  <2> QED
    BY <1>2, <1>4, Halves
<1> HIDE DEF a, b
<1> QED
  BY <1>1, <1>3, <1>5 DEF RpsType

LEMMA CountType ==
    ASSUME NEW st \in [prevLsb : Int, prevMsb : Int], NEW typ, NEW lsb \in Nat,
           NEW maxLsb \in Nat \ {0}, NEW noRaslOutput
    PROVE  derivePOC(st, typ, lsb, maxLsb, noRaslOutput) \in Int
<1>1. st.prevLsb \in Int /\ st.prevMsb \in Int
  OBVIOUS
<1> QED
  BY <1>1 DEF derivePOC

LEMMA UpdateType ==
    ASSUME NEW st \in [prevLsb : Int, prevMsb : Int], NEW typ, NEW tid, NEW poc \in Int,
           NEW lsb \in Nat
    PROVE  update(st, typ, tid, poc, lsb) \in [prevLsb : Int, prevMsb : Int]
  BY DEF update

-----------------------------------------------------------------------------
(* A slice segment: decoder.go.                                            *)

\* A step that leaves the buffer, the pictures and the picture in progress alone.
Kept(d, e) ==
    /\ DOMAIN e = Fields /\ e.pics = d.pics /\ e.free = d.free /\ e.dpb = d.dpb
    /\ e.shown = d.shown /\ e.cur = d.cur /\ e.curOut = d.curOut

LEMMA KeptSafe == ASSUME NEW d, NEW X, Safe(d, X), NEW e, Kept(d, e) PROVE Safe(e, X)
<1>1. /\ Buffered(e) = Buffered(d) /\ Returned(e) = Returned(d) /\ InDecoder(e) = InDecoder(d)
  BY DEF Kept, Buffered, Returned, InDecoder
<1>2. Shape(e)
  BY DEF Safe, Shape, Kept
<1>3. Planes(e)
  BY DEF Safe, Planes, Kept
<1>4. Held(e, InDecoder(e))
  BY <1>1 DEF Safe, Held, Kept
<1>5. Distinct(e)
  BY <1>1 DEF Safe, Distinct, Kept
<1>6. Output(e)
  BY <1>1 DEF Safe, Output, Kept
<1>7. Due(e, X)
  BY <1>1 DEF Safe, Due, Kept
<1> QED
  BY <1>2, <1>3, <1>4, <1>5, <1>6, <1>7 DEF Safe

LEMMA KeptSteady ==
    ASSUME NEW d, NEW e, Kept(d, e), e.cvs = d.cvs, e.maxReorder = d.maxReorder,
           e.maxLatency = d.maxLatency
    PROVE  Steady(d) => Steady(e)
<1>1. WaitPics(e) = WaitPics(d) /\ Waits(e) = Waits(d)
  BY DEF Kept, WaitPics, Waits, Waiting
<1>2. Sequenced(d, d.cvs) => Sequenced(e, e.cvs)
  BY <1>1 DEF Sequenced, Kept
<1>3. Calm(d) => Calm(e)
  BY <1>1 DEF Calm
<1> QED
  BY <1>2, <1>3 DEF Steady, Kept

LEMMA SafeMore ==
    ASSUME NEW d, NEW X, Safe(d, X), NEW Y, \A i \in X : i \in Y
    PROVE  Safe(d, Y)
  BY DEF Safe, Due

LEMMA BufferedPocs ==
    ASSUME NEW d, Shape(d), NEW refs, refs = Picked(d.dpb, {k \in DOMAIN d.dpb : d.dpb[k].ref})
    PROVE  [i \in DOMAIN refs |-> d.pics[refs[i].pic].poc] \in Seq(Int)
<1> DEFINE S == ToSet(d.dpb)
           f == [i \in DOMAIN refs |-> d.pics[refs[i].pic].poc]
<1>1. d.dpb \in Seq(S)
  BY SeqIs DEF Shape
<1>2. \A e \in S : e.pic \in DOMAIN d.pics
  BY DEF Shape, ToSet
<1> HIDE DEF S
<1>3. refs \in Seq(S)
  BY <1>1, PickedTyped
<1>4. \A i \in DOMAIN refs : refs[i] \in S
  BY <1>3
<1>5. \A i \in DOMAIN refs : d.pics[refs[i].pic].poc \in Int
  BY <1>2, <1>4 DEF Shape
<1>6. f = [i \in DOMAIN refs |-> f[i]] /\ \A i \in DOMAIN refs : f[i] \in Int
  BY <1>5
<1>7. f \in Seq(Int)
  <2> HIDE DEF f
  <2> QED
    BY <1>3, <1>6, MapTyped
<1> QED
  BY <1>7

PocType == [prevLsb : Int, prevMsb : Int]

LEMMA SliceFields ==
    ASSUME NEW sh \in Slice
    PROVE  /\ sh.lsb \in Nat /\ sh.s0 \in Seq(ShortDelta) /\ sh.s1 \in Seq(ShortDelta)
           /\ sh.lt \in Seq(LongEntry) /\ sh.numSps \in Nat /\ sh.out \in BOOLEAN
           /\ sh.pps \in PpsIds /\ sh.addr \in Nat /\ sh.len \in Nat /\ sh.first \in BOOLEAN
           /\ sh.dep \in BOOLEAN /\ sh.noOut \in BOOLEAN /\ sh.upto \in Nat
           /\ sh.typ \in NalTypes
  BY DEF Slice

LEMMA ActivateSafe ==
    ASSUME NEW d, NEW X, Safe(d, X), Types(d), d.cur = None, NEW sh \in Slice, NEW s \in Sps,
           NEW st \in PocType, NEW poc \in Int, NEW restarts \in BOOLEAN, NEW e,
           e = Activate(d, sh, s, st, poc, restarts)
    PROVE  /\ Safe(e, X) /\ Types(e) /\ e.cur = None /\ Kept(d, e) /\ e.maxReorder \in Nat
           /\ e.cvs = IF restarts THEN d.cvs + 1 ELSE d.cvs
<1> DEFINE refs == Picked(d.dpb, {k \in DOMAIN d.dpb : d.dpb[k].ref})
           pocs == [i \in DOMAIN refs |-> d.pics[refs[i].pic].poc]
           set  == deriveRefPicSet(poc, s.maxLsb, sh.s0, sh.s1, sh.lt, sh.numSps)
           rps  == resolveLongTerm(set, pocs, s.maxLsb)
           upd  == update(st, sh.typ, sh.tid, poc, sh.lsb)
           cvs  == IF restarts THEN d.cvs + 1 ELSE d.cvs
<1>1. DOMAIN d = Fields /\ Shape(d)
  BY DEF Safe, Shape
<1>2. e = [d EXCEPT !.maxReorder = s.reorder, !.maxLatency = s.latency,
                    !.maxDecPicBuf = s.maxDecPicBuffering + 1, !.poc = upd, !.curRPS = rps,
                    !.cvs = cvs]
  BY DEF Activate
<1>3. pocs \in Seq(Int)
  BY <1>1, BufferedPocs
<1>4. s.maxLsb \in Nat \ {0}
  BY DEF Sps
<1>5. set \in DerivedType
  BY <1>4, SliceFields, DeriveType
<1> HIDE DEF pocs, set
<1>6. rps \in RpsType
  BY <1>3, <1>5, ResolveType
<1>7. upd \in PocType
  BY SliceFields, UpdateType DEF PocType
<1>8. cvs \in Nat
  BY DEF Types
<1> HIDE DEF rps, upd, cvs
<1>9. /\ DOMAIN e = Fields /\ e.poc = upd /\ e.curRPS = rps /\ e.cvs = cvs
      /\ e.maxReorder = s.reorder
      /\ \A f \in Fields \ {"maxReorder", "maxLatency", "maxDecPicBuf", "poc", "curRPS", "cvs"} :
            e[f] = d[f]
  BY <1>1, <1>2 DEF Fields
<1>10. /\ Kept(d, e) /\ e.sps = d.sps /\ e.pps = d.pps /\ e.prevSlic = d.prevSlic
       /\ e.ctu = d.ctu
  BY <1>9 DEF Kept, Fields
<1>11. Safe(e, X)
  BY <1>10, KeptSafe
<1>12. Types(e)
  BY <1>6, <1>7, <1>8, <1>9, <1>10 DEF Types, Kept, PocType
<1>13. e.maxReorder \in Nat
  BY <1>9 DEF Sps
<1> QED
  BY <1>9, <1>10, <1>11, <1>12, <1>13 DEF Kept, cvs

LEMMA RoomSafe ==
    ASSUME NEW d, NEW X, Safe(d, X), NEW sh, NEW restarts \in BOOLEAN, NEW Y,
           \A i \in X : i \in Y,
           restarts /\ (sh.noOut \/ sh.typ = "CRA") => \A i \in DOMAIN d.pics : i \in Y
    PROVE  /\ Safe(MakeRoom(d, sh, restarts), Y) /\ Same(d, MakeRoom(d, sh, restarts))
           /\ restarts => WaitPics(MakeRoom(d, sh, restarts)) = {}
           /\ d.maxReorder \in Nat => Calm(MakeRoom(d, sh, restarts))
<1> DEFINE room == MakeRoom(d, sh, restarts)
<1>0. ASSUME Same(d, room), room.dpb = <<>>
      PROVE  WaitPics(room) = {} /\ (d.maxReorder \in Nat => Calm(room))
  <2> HIDE DEF room
  <2>1. WaitPics(room) = {}
    BY <1>0, SeqEmpty DEF WaitPics, Waiting
  <2>2. room.maxReorder = d.maxReorder
    BY <1>0 DEF Same, Fields
  <2> QED
    BY <2>1, <2>2, EmptyCalm
<1> HIDE DEF room
<1>1. CASE ~restarts
  <2> DEFINE k == dpbMark(d, d.curRPS)
             u == dpbRemoveUnused(k)
             e == dpbDrain(u, TRUE)
  <2>1. MakeRoom(d, sh, restarts) = e
    BY <1>1 DEF MakeRoom
  <2>2. Safe(k, X) /\ Same(d, k)
    BY MarkSafe
  <2> HIDE DEF k
  <2>3. Safe(u, X) /\ Same(k, u)
    BY <2>2, RemoveUnusedSafe
  <2> HIDE DEF u
  <2>4. Safe(e, X) /\ Same(u, e) /\ (u.maxReorder \in Nat => Calm(e))
    BY <2>3, DrainSafe, DrainCalm
  <2> HIDE DEF e
  <2>5. Same(d, e) /\ Same(d, u)
    BY <2>2, <2>3, <2>4, SameTrans
  <2>6. u.maxReorder = d.maxReorder
    BY <2>5 DEF Same, Fields
  <2> QED
    BY <1>1, <2>1, <2>4, <2>5, <2>6, SafeMore
<1>2. CASE restarts /\ ~sh.noOut /\ sh.typ # "CRA"
  <2> DEFINE b == BumpAll(d)
             e == clearDPB(b)
  <2>1. MakeRoom(d, sh, restarts) = e
    BY <1>2 DEF MakeRoom
  <2>2. Safe(b, X) /\ Same(d, b) /\ WaitPics(b) = {}
    BY BumpAllSafe
  <2> HIDE DEF b
  <2>3. X \cup WaitPics(b) \subseteq Y
    BY <2>2
  <2>4. Safe(e, Y) /\ Same(b, e) /\ e.dpb = <<>>
    BY <2>2, <2>3, ClearSafe
  <2> HIDE DEF e
  <2>5. Same(d, e)
    BY <2>2, <2>4, SameTrans
  <2> QED
    BY <1>0, <2>1, <2>4, <2>5 DEF room
<1>3. CASE restarts /\ (sh.noOut \/ sh.typ = "CRA")
  <2>1. MakeRoom(d, sh, restarts) = clearDPB(d)
    BY <1>3 DEF MakeRoom
  <2>2. WaitPics(d) \subseteq DOMAIN d.pics
    BY DEF Safe, Shape, WaitPics, Waiting
  <2>3. X \cup WaitPics(d) \subseteq Y
    BY <1>3, <2>2
  <2>4. Safe(clearDPB(d), Y) /\ Same(d, clearDPB(d)) /\ clearDPB(d).dpb = <<>>
    BY <2>3, ClearSafe
  <2> QED
    BY <1>0, <2>1, <2>4 DEF room
<1> QED
  BY <1>1, <1>2, <1>3

LEMMA FillGapsSafe ==
    ASSUME NEW d, NEW X, Safe(d, X), Types(d), NEW sh, NEW s
    PROVE  Safe(FillGaps(d, sh, s), X) /\ Same(d, FillGaps(d, sh, s))
<1>1. CASE sh.active[1] = 0
  BY <1>1, SameRefl DEF FillGaps
<1>2. CASE sh.active[1] # 0
  <2> DEFINE r == MakesRoom(d)
             e == generateUnavailable(r, d.curRPS, s)
  <2>1. FillGaps(d, sh, s) = e
    BY <1>2 DEF FillGaps, MakesRoom
  <2>2. Safe(r, X) /\ Same(d, r)
    BY MakesRoomSafe
  <2> HIDE DEF r
  <2>3. d.curRPS \in RpsType
    BY DEF Types
  <2>4. Safe(e, X) /\ Same(r, e)
    BY <2>2, <2>3, GenerateSafe
  <2> HIDE DEF e
  <2> QED
    BY <2>1, <2>2, <2>4, SameTrans
<1> QED
  BY <1>1, <1>2

\* The new picture becomes the one in progress: the hold it was made with is
\* the decoder's.
LEMMA OpenSafe ==
    ASSUME NEW d, NEW X, NEW y, NEW i, NEW sh \in Slice, NEW s \in Sps,
           Loose(d, X, y, i, sh.out), Types(d), d.cur = None, NEW e, e = Open(y, sh, s)
    PROVE  Safe(e, X) /\ Goes(d, e) /\ e.cur # None
<1> DEFINE ctu == [sps |-> s, pps |-> sh.pps, next |-> 0]
<1>1. /\ Shape(y) /\ Planes(y) /\ Held(y, InDecoder(d) \cup {i}) /\ Distinct(y) /\ Output(y)
      /\ Due(y, X \cup {i}) /\ Same(d, y)
      /\ y.dpb = d.dpb /\ y.shown = d.shown /\ y.cur = d.cur
      /\ Buffered(y) = Buffered(d) /\ Returned(y) = Returned(d)
      /\ Len(y.pics) = i /\ i \in DOMAIN y.pics /\ i # None
      /\ i \notin Buffered(d) /\ i \notin Returned(d)
      /\ y.pics[i].want = sh.out /\ y.pics[i].cvs = d.cvs
  BY DEF Loose
<1>2. DOMAIN y = Fields
  BY <1>1 DEF Shape
<1>3. e = [y EXCEPT !.cur = i, !.curLsb = sh.lsb, !.curOut = sh.out, !.ctu = ctu]
  BY <1>1 DEF Open
<1> HIDE DEF ctu
<1>4. /\ DOMAIN e = Fields /\ e.cur = i /\ e.curOut = sh.out /\ e.ctu = ctu
      /\ \A f \in Fields \ {"cur", "curLsb", "curOut", "ctu"} : e[f] = y[f]
  BY <1>2, <1>3 DEF Fields
<1>5. /\ e.pics = y.pics /\ e.free = y.free /\ e.dpb = y.dpb /\ e.shown = y.shown
      /\ e.sps = y.sps /\ e.pps = y.pps /\ e.prevSlic = y.prevSlic /\ e.poc = y.poc
      /\ e.curRPS = y.curRPS /\ e.cvs = y.cvs
      /\ e.maxReorder = y.maxReorder /\ e.maxLatency = y.maxLatency
  BY <1>4 DEF Fields
<1>6. Buffered(e) = Buffered(d) /\ Returned(e) = Returned(d)
  BY <1>1, <1>5 DEF Buffered, Returned
<1>7. InDecoder(e) = InDecoder(d) \cup {i}
  BY <1>1, <1>4, <1>6 DEF InDecoder
<1>8. Shape(e)
  BY <1>1, <1>4, <1>5 DEF Shape
<1>9. Planes(e)
  BY <1>1, <1>5 DEF Planes
<1>10. Held(e, InDecoder(e))
  BY <1>1, <1>5, <1>6, <1>7 DEF Held
<1>11. Distinct(e)
  BY <1>1, <1>4, <1>5, <1>6 DEF Distinct
<1>12. Output(e)
  BY <1>1, <1>4, <1>5, <1>6 DEF Output
<1>13. Due(e, X)
  <2>1. None \notin DOMAIN y.pics
    <3>1. DOMAIN y.pics = 1 .. Len(y.pics) /\ Len(y.pics) \in Nat
      BY <1>1, SeqIs DEF Shape
    <3> QED
      BY <3>1 DEF None
  <2> SUFFICES ASSUME NEW j \in DOMAIN y.pics, y.pics[j].want, j # i
               PROVE  \/ j \in Returned(y) \/ j \in X
                      \/ \E k \in DOMAIN y.dpb : y.dpb[k].pic = j /\ y.dpb[k].output
    BY <1>1, <1>4, <1>5, <1>6 DEF Due
  <2> QED
    BY <1>1, <2>1 DEF Due
<1>14. Types(y)
  BY <1>1, SameTypes
<1>15. ctu \in [sps : Sps, pps : PpsIds, next : Nat] /\ ctu.next <= ctu.sps.size /\ ctu # NoCtu
  <2>1. s.size \in Nat /\ sh.pps \in PpsIds
    BY SliceFields DEF Sps
  <2>2. ctu.next = 0 /\ NoCtu.next = -1
    BY DEF ctu, NoCtu
  <2>3. ctu # NoCtu
    BY <2>2
  <2> QED
    BY <2>1, <2>3 DEF ctu
<1>16. Types(e)
  BY <1>1, <1>4, <1>5, <1>14, <1>15, SliceFields DEF Types
<1>17. Goes(d, e)
  <2>1. e.cvs = d.cvs /\ DOMAIN d.pics \subseteq DOMAIN e.pics
    BY <1>1, <1>5 DEF Same, Fields
  <2>2. ASSUME Steady(d) PROVE Steady(e)
    <3>1. Steady(y)
      BY <1>1, <2>2, SameSteady
    <3>2. WaitPics(e) = WaitPics(y) /\ Waits(e) = Waits(y)
      BY <1>5 DEF WaitPics, Waits, Waiting
    <3>3. Sequenced(e, e.cvs)
      BY <1>5, <3>1, <3>2 DEF Steady, Sequenced
    <3>4. Calm(e)
      BY <1>5, <3>1, <3>2 DEF Steady, Calm
    <3>5. e.cur \in DOMAIN e.pics /\ e.pics[e.cur].cvs = e.cvs
      BY <1>1, <1>4, <1>5, <2>1
    <3> QED
      BY <3>3, <3>4, <3>5 DEF Steady
  <2> QED
    BY <1>16, <2>1, <2>2 DEF Goes
<1> QED
  BY <1>1, <1>4, <1>8, <1>9, <1>10, <1>11, <1>12, <1>13, <1>17 DEF Safe

\* What a slice NAL unit does: it may start a sequence, and waives the output
\* of what was there then.
Moves(d, X, nal, e) ==
    /\ Types(e) /\ DOMAIN d.pics \subseteq DOMAIN e.pics
    /\ Steady(d) => Steady(e)
    /\ \/ e.cvs = d.cvs /\ Safe(e, X)
       \/ /\ e.cvs = d.cvs + 1 /\ nal.kind = "slice" /\ nal.first /\ IsIRAP(nal.typ)
          /\ Safe(e, IF nal.noOut \/ nal.typ = "CRA" THEN X \cup DOMAIN d.pics ELSE X)

LEMMA MovesThen ==
    ASSUME NEW d, NEW X, NEW nal, NEW e, NEW f, Moves(d, X, nal, e), Goes(e, f),
           \A Z : Safe(e, Z) => Safe(f, Z)
    PROVE  Moves(d, X, nal, f)
<1>1. /\ Types(f) /\ f.cvs = e.cvs /\ DOMAIN e.pics \subseteq DOMAIN f.pics
      /\ DOMAIN d.pics \subseteq DOMAIN e.pics /\ (Steady(d) => Steady(f))
  BY DEF Goes, Moves
<1>2. DOMAIN d.pics \subseteq DOMAIN f.pics
  BY <1>1
<1> QED
  BY <1>1, <1>2 DEF Moves

LEMMA StartSafe ==
    ASSUME NEW d, NEW X, Safe(d, X), Types(d), NEW sh \in Slice, NEW s \in Sps, sh.first
    PROVE  Moves(d, X, sh, StartPicture(d, sh, s)) /\ StartPicture(d, sh, s).cur # None
<1> DEFINE noRasl == IsIRAP(sh.typ) /\ d.skipRASL
           prior  == d.cur # None \/ d.dpb # <<>>
           st     == IF noRasl THEN ZeroPoc ELSE d.poc
           poc    == derivePOC(st, sh.typ, sh.lsb, s.maxLsb, noRasl)
           f == finishPicture(d)
           a == Activate(f, sh, s, st, poc, noRasl)
           r == MakeRoom(a, sh, noRasl /\ prior)
           g == FillGaps(r, sh, s)
           y == newPicture(g, s, poc, sh.au, FALSE, sh.out)
           e == Open(y, sh, s)
           Y == IF noRasl /\ (sh.noOut \/ sh.typ = "CRA") THEN X \cup DOMAIN d.pics ELSE X
<1>1. StartPicture(d, sh, s) = e
  BY DEF StartPicture
<1>2. /\ Safe(f, X) /\ Goes(d, f) /\ f.cur = None /\ DOMAIN f.pics = DOMAIN d.pics
  BY FinishSafe
<1> HIDE DEF f
<1>3. Types(f) /\ f.cvs = d.cvs
  BY <1>2 DEF Goes
<1>4. st \in PocType
  BY DEF ZeroPoc, Types, PocType
<1> HIDE DEF st
<1>5. poc \in Int
  <2>1. s.maxLsb \in Nat \ {0} /\ sh.lsb \in Nat
    BY SliceFields DEF Sps
  <2> QED
    BY <1>4, <2>1, CountType DEF PocType
<1>6. noRasl \in BOOLEAN /\ (noRasl /\ prior) \in BOOLEAN
  BY DEF IsIRAP
<1> HIDE DEF noRasl, prior, poc
<1>7. /\ Safe(a, X) /\ Types(a) /\ a.cur = None /\ Kept(f, a) /\ a.maxReorder \in Nat
      /\ a.cvs = IF noRasl THEN f.cvs + 1 ELSE f.cvs
  BY <1>2, <1>3, <1>4, <1>5, <1>6, ActivateSafe
<1> HIDE DEF a
<1>8. /\ Safe(r, Y) /\ Same(a, r) /\ Calm(r)
      /\ noRasl /\ prior => WaitPics(r) = {}
  <2>1. \A i \in X : i \in Y
    OBVIOUS
  <2>2. (noRasl /\ prior) /\ (sh.noOut \/ sh.typ = "CRA") => \A i \in DOMAIN a.pics : i \in Y
    BY <1>2, <1>7 DEF Kept
  <2> HIDE DEF Y
  <2> QED
    BY <1>6, <1>7, <2>1, <2>2, RoomSafe
<1> HIDE DEF r
<1>9. Types(r)
  BY <1>7, <1>8, SameTypes
<1>10. Safe(g, Y) /\ Same(r, g)
  BY <1>8, <1>9, FillGapsSafe
<1> HIDE DEF g
<1>11. Same(a, g)
  BY <1>8, <1>10, SameTrans
<1>12. Types(g) /\ g.cur = None /\ g.cvs = a.cvs /\ DOMAIN a.pics \subseteq DOMAIN g.pics
  BY <1>7, <1>11, SameTypes DEF Same, Fields
<1>13. Loose(g, Y, y, Len(g.pics) + 1, sh.out)
  <2>1. Shape(g) /\ Planes(g)
    BY <1>10 DEF Safe
  <2>2. Gained(g, y, sh.out)
    BY <1>5, <2>1, NewPictureEffect
  <2> HIDE DEF y, Y
  <2> QED
    BY <1>10, <2>2, NewPictureSafe
<1> HIDE DEF y
<1>14. noRasl => WaitPics(g) = {}
  <2>1. CASE prior
    BY <1>8, <1>10, <2>1, WaitPicsOf DEF Same, Follows
  <2>2. CASE ~prior
    <3>1. f.dpb = <<>>
      BY <2>2 DEF prior, f, finishPicture
    <3>2. WaitPics(a) = {}
      BY <1>7, <3>1, SeqEmpty DEF Kept, WaitPics, Waiting
    <3> QED
      BY <1>11, <3>2, WaitPicsOf DEF Same, Follows
  <2> QED
    BY <2>1, <2>2
<1>15. ASSUME Steady(d) PROVE Steady(g)
  <2>1. Sequenced(f, f.cvs)
    BY <1>2, <1>15 DEF Goes, Steady
  <2>2. Sequenced(a, f.cvs)
    <3>1. WaitPics(a) = WaitPics(f)
      BY <1>7 DEF Kept, WaitPics, Waiting
    <3> QED
      BY <1>7, <2>1, <3>1 DEF Sequenced, Kept
  <2>3. Sequenced(g, f.cvs)
    BY <1>11, <2>2, FollowsSequenced DEF Same
  <2>4. Sequenced(g, g.cvs)
    BY <1>7, <1>12, <1>14, <2>3, SequencedLater
  <2>5. Calm(g)
    BY <1>8, <1>10, SameCalm
  <2> QED
    BY <1>12, <2>4, <2>5 DEF Steady
<1>16. Safe(e, Y) /\ Goes(g, e) /\ e.cur # None
  <2> HIDE DEF Y
  <2> QED
    BY <1>12, <1>13, OpenSafe
<1> HIDE DEF e
<1>17. /\ Types(e) /\ e.cvs = a.cvs /\ DOMAIN d.pics \subseteq DOMAIN e.pics
       /\ Steady(d) => Steady(e)
  BY <1>2, <1>7, <1>12, <1>15, <1>16 DEF Goes, Kept
<1>18. sh.kind = "slice" /\ (noRasl => IsIRAP(sh.typ))
  BY DEF Slice, noRasl
<1>19. Moves(d, X, sh, e)
  <2>1. CASE noRasl
    BY <1>3, <1>7, <1>16, <1>17, <1>18, <2>1 DEF Moves
  <2>2. CASE ~noRasl
    BY <1>3, <1>7, <1>16, <1>17, <2>2 DEF Moves
  <2> QED
    BY <2>1, <2>2
<1> QED
  BY <1>1, <1>16, <1>19

\* The counter of the slice data moves on.
LEMMA AdvanceSafe ==
    ASSUME NEW d, NEW X, Safe(d, X), Types(d), d.cur # None, NEW v \in Nat,
           v <= d.ctu.sps.size, NEW e, e = [d EXCEPT !.ctu.next = v]
    PROVE  Safe(e, X) /\ Goes(d, e) /\ e.cur = d.cur
<1> DEFINE ctu == [d.ctu EXCEPT !.next = v]
<1>1. DOMAIN d = Fields
  BY DEF Safe, Shape
<1>2. e = [d EXCEPT !.ctu = ctu]
  OBVIOUS
<1>3. d.ctu # NoCtu /\ d.ctu \in [sps : Sps, pps : PpsIds, next : Nat]
  BY DEF Types
<1>4. /\ ctu \in [sps : Sps, pps : PpsIds, next : Nat] /\ ctu.next = v
      /\ ctu.sps = d.ctu.sps
  BY <1>3
<1>5. NoCtu.next \notin Nat
  BY DEF NoCtu
<1> HIDE DEF ctu
<1>6. ctu # NoCtu
  BY <1>4, <1>5
<1>7. /\ DOMAIN e = Fields /\ e.ctu = ctu /\ \A f \in Fields \ {"ctu"} : e[f] = d[f]
  BY <1>1, <1>2 DEF Fields
<1>8. /\ Kept(d, e) /\ e.sps = d.sps /\ e.pps = d.pps /\ e.prevSlic = d.prevSlic
      /\ e.poc = d.poc /\ e.curRPS = d.curRPS /\ e.cvs = d.cvs
      /\ e.maxReorder = d.maxReorder /\ e.maxLatency = d.maxLatency
  BY <1>7 DEF Kept, Fields
<1>9. Types(e)
  BY <1>4, <1>6, <1>7, <1>8 DEF Types, Kept
<1>10. Safe(e, X)
  BY <1>8, KeptSafe
<1> QED
  BY <1>8, <1>9, <1>10, KeptSteady DEF Goes, Kept

LEMMA SliceDataSafe ==
    ASSUME NEW d, NEW X, Safe(d, X), Types(d), d.cur # None, NEW nal, nal.upto \in Nat,
           NEW sh \in Slice, NEW n
    PROVE  Safe(SliceData(d, nal, sh, n), X) /\ Goes(d, SliceData(d, nal, sh, n))
<1> DEFINE size  == d.ctu.sps.size
           end   == sh.addr + (IF nal.fault = "data" THEN nal.upto ELSE sh.len)
           fails == nal.fault = "data" \/ end > size
           v     == IF end > size THEN size ELSE end
           gap   == IF sh.addr > d.ctu.next THEN SetCorrupt(d) ELSE d
           done  == IF end = sh.addr THEN gap ELSE [gap EXCEPT !.ctu.next = v]
           whole == Decoded(done, nal, References(d, sh), n)
<1>1. SliceData(d, nal, sh, n)
      = IF sh.addr < d.ctu.next THEN SetCorrupt(d)
        ELSE IF fails THEN SetCorrupt(done)
        ELSE IF complete(whole) THEN finishPicture(whole) ELSE whole
  BY DEF SliceData
<1>2. d.ctu \in [sps : Sps, pps : PpsIds, next : Nat] /\ d.ctu # NoCtu
  BY DEF Types
<1>3. size \in Nat
  BY <1>2 DEF Sps
<1>4. end \in Nat
  BY SliceFields
<1>5. v \in Nat /\ v <= size
  <2> HIDE DEF size, end
  <2> QED
    BY <1>3, <1>4
<1> HIDE DEF end, fails
<1>6. Safe(SetCorrupt(d), X) /\ Goes(d, SetCorrupt(d)) /\ Same(d, SetCorrupt(d))
  BY SetCorruptSafe, SameGoes
<1>7. Safe(gap, X) /\ Same(d, gap)
  BY <1>6, SameRefl
<1> HIDE DEF gap
<1>8. gap.cur = d.cur /\ gap.ctu = d.ctu /\ Types(gap) /\ Goes(d, gap)
  BY <1>7, SameTypes, SameGoes DEF Same, Fields
<1>9. Safe(done, X) /\ Goes(gap, done) /\ done.cur = gap.cur
  <2>1. CASE end = sh.addr
    BY <1>7, <1>8, <2>1 DEF Goes
  <2>2. CASE end # sh.addr
    <3>1. done = [gap EXCEPT !.ctu.next = v]
      BY <2>2
    <3>2. v <= gap.ctu.sps.size
      BY <1>5, <1>8
    <3> HIDE DEF done, v
    <3> QED
      BY <1>5, <1>7, <1>8, <3>1, <3>2, AdvanceSafe
  <2> QED
    BY <2>1, <2>2
<1> HIDE DEF done
<1>10. Types(done) /\ Goes(d, done) /\ done.cur # None
  BY <1>8, <1>9, GoesTrans DEF Goes
<1>11. Safe(SetCorrupt(done), X) /\ Goes(d, SetCorrupt(done))
  BY <1>9, <1>10, SetCorruptSafe, SameGoes, GoesTrans
<1>12. Safe(whole, X) /\ Goes(d, whole)
  BY <1>9, <1>10, DecodedSafe, SameGoes, GoesTrans
<1> HIDE DEF whole
<1>13. Safe(finishPicture(whole), X) /\ Goes(d, finishPicture(whole))
  <2>1. Types(whole)
    BY <1>12 DEF Goes
  <2> QED
    BY <1>12, <2>1, FinishSafe, GoesTrans
<1> QED
  BY <1>1, <1>6, <1>11, <1>12, <1>13

LEMMA IntoPictureSafe ==
    ASSUME NEW d, NEW X, Safe(d, X), Types(d), NEW nal, nal.upto \in Nat,
           NEW sh \in Slice, NEW n
    PROVE  Safe(IntoPicture(d, nal, sh, n), X) /\ Goes(d, IntoPicture(d, nal, sh, n))
<1> DEFINE b == buildRefLists(d, sh)
<1>1. CASE d.cur = None \/ sh.lsb # d.curLsb
  <2>1. IntoPicture(d, nal, sh, n) = d
    BY <1>1 DEF IntoPicture
  <2> QED
    BY <2>1 DEF Goes
<1>2. CASE ~(d.cur = None \/ sh.lsb # d.curLsb)
  <2>1. IntoPicture(d, nal, sh, n) = SliceData(b, nal, sh, n)
    BY <1>2 DEF IntoPicture
  <2>2. Safe(b, X) /\ Same(d, b)
    BY <1>2, SetCorruptSafe, SameRefl DEF buildRefLists
  <2> HIDE DEF b
  <2>3. Goes(d, b) /\ Types(b) /\ b.cur # None
    BY <1>2, <2>2, SameGoes, SameTypes DEF Same, Fields
  <2>4. Safe(SliceData(b, nal, sh, n), X) /\ Goes(b, SliceData(b, nal, sh, n))
    BY <2>2, <2>3, SliceDataSafe
  <2> QED
    BY <2>1, <2>3, <2>4, GoesTrans
<1> QED
  BY <1>1, <1>2

LEMMA SegmentSafe ==
    ASSUME NEW d, NEW X, Safe(d, X), Types(d), NEW nal, nal.upto \in Nat,
           NEW sh \in Slice, NEW s \in Sps, NEW n
    PROVE  Moves(d, X, sh, DecodeSegment(d, nal, sh, s, n))
<1> DEFINE p == IF sh.first THEN StartPicture(d, sh, s) ELSE d
           e == IntoPicture(p, nal, sh, n)
<1>1. Moves(d, X, sh, d)
  BY DEF Moves
<1>2. Moves(d, X, sh, p)
  BY <1>1, StartSafe
<1> HIDE DEF p
<1>3. Types(p)
  BY <1>2 DEF Moves
<1>4. \A Z : Safe(p, Z) => Safe(e, Z)
  BY <1>3, IntoPictureSafe
<1>5. Goes(p, e)
  <2>1. \E Z : Safe(p, Z)
    BY <1>2 DEF Moves
  <2> QED
    BY <1>3, <2>1, IntoPictureSafe
<1> HIDE DEF e
<1>6. Moves(d, X, sh, e)
  BY <1>2, <1>4, <1>5, MovesThen
<1> QED
  BY <1>1, <1>6 DEF DecodeSegment, e, p

LEMMA InheritType ==
    ASSUME NEW nal \in Slice, NEW prev \in Slice
    PROVE  /\ inherit(nal, prev) \in Slice
           /\ inherit(nal, prev).first = nal.first /\ inherit(nal, prev).typ = nal.typ
           /\ inherit(nal, prev).noOut = nal.noOut
  BY DEF inherit, Slice

LEMMA MovesOf ==
    ASSUME NEW d, NEW X, NEW sh, NEW f, NEW e, NEW nal, Moves(e, X, sh, f),
           e.pics = d.pics, e.cvs = d.cvs, Steady(d) => Steady(e),
           nal.kind = "slice", nal.first = sh.first,
           nal.typ = sh.typ, nal.noOut = sh.noOut
    PROVE  Moves(d, X, nal, f)
  BY DEF Moves

LEMMA SliceSafe ==
    ASSUME NEW d, NEW X, Safe(d, X), Types(d), NEW nal \in Slice, NEW n
    PROVE  Moves(d, X, nal, decodeSlice(d, nal, n))
<1> DEFINE active == ~nal.first /\ d.ctu # NoCtu
           s  == IF active THEN d.ctu.sps ELSE d.sps[d.pps[nal.pps]]
           sh == IF nal.dep THEN inherit(nal, d.prevSlic) ELSE nal
           p  == IF nal.dep THEN d ELSE [d EXCEPT !.prevSlic = nal]
           e  == DecodeSegment(p, nal, sh, s, n)
<1>1. decodeSlice(d, nal, n) = IF Refused(d, nal, active, s) THEN d ELSE e
  BY DEF decodeSlice
<1>2. CASE Refused(d, nal, active, s)
  <2>1. Moves(d, X, nal, d)
    BY DEF Moves
  <2> HIDE DEF s, active, e
  <2> QED
    BY <1>1, <1>2, <2>1
<1>3. CASE ~Refused(d, nal, active, s)
  <2>1. /\ d.pps[nal.pps] # None /\ d.sps[d.pps[nal.pps]] # NoSps
        /\ nal.dep => d.prevSlic # NoSlice
    BY <1>3 DEF Refused
  <2>2. nal.pps \in PpsIds /\ nal.upto \in Nat /\ nal.kind = "slice"
    BY SliceFields DEF Slice
  <2>3. s \in Sps
    <3>1. CASE active
      BY <3>1 DEF Types
    <3>2. CASE ~active
      <4>1. d.pps[nal.pps] \in SpsIds
        BY <2>1, <2>2 DEF Types
      <4>2. d.sps[d.pps[nal.pps]] \in Sps
        BY <2>1, <4>1 DEF Types
      <4> QED
        BY <3>2, <4>2
    <3> QED
      BY <3>1, <3>2
  <2>4. /\ sh \in Slice /\ sh.first = nal.first /\ sh.typ = nal.typ /\ sh.noOut = nal.noOut
    <3>1. CASE nal.dep
      <4>1. d.prevSlic \in Slice
        BY <2>1, <3>1 DEF Types
      <4> QED
        BY <3>1, <4>1, InheritType
    <3>2. CASE ~nal.dep
      BY <3>2
    <3> QED
      BY <3>1, <3>2
  <2> HIDE DEF s, sh, active
  <2>5. Safe(p, X) /\ Types(p) /\ p.pics = d.pics /\ p.cvs = d.cvs /\ (Steady(d) => Steady(p))
    <3>1. CASE nal.dep
      BY <3>1
    <3>2. CASE ~nal.dep
      <4> DEFINE q == [d EXCEPT !.prevSlic = nal]
      <4>1. DOMAIN d = Fields
        BY DEF Safe, Shape
      <4>2. /\ DOMAIN q = Fields /\ q.prevSlic = nal
            /\ \A f \in Fields \ {"prevSlic"} : q[f] = d[f]
        BY <4>1 DEF Fields
      <4>3. p = q
        BY <3>2
      <4> HIDE DEF q
      <4>4. /\ Kept(d, q) /\ q.sps = d.sps /\ q.pps = d.pps /\ q.ctu = d.ctu
            /\ q.poc = d.poc /\ q.curRPS = d.curRPS /\ q.cvs = d.cvs
            /\ q.maxReorder = d.maxReorder /\ q.maxLatency = d.maxLatency
        BY <4>2 DEF Kept, Fields
      <4>5. Safe(q, X)
        BY <4>4, KeptSafe
      <4>6. Types(q)
        BY <4>2, <4>4 DEF Types, Kept
      <4> HIDE DEF p
      <4> QED
        BY <4>3, <4>4, <4>5, <4>6, KeptSteady DEF Kept
    <3> QED
      BY <3>1, <3>2
  <2> HIDE DEF p
  <2>6. Moves(p, X, sh, e)
    BY <2>2, <2>3, <2>4, <2>5, SegmentSafe
  <2> HIDE DEF e
  <2>7. Moves(d, X, nal, e)
    BY <2>2, <2>4, <2>5, <2>6, MovesOf
  <2> QED
    BY <1>1, <1>3, <2>7
<1> QED
  BY <1>2, <1>3

\* Fields that only say what the decoder expects next.
LEMMA FlagSafe ==
    ASSUME NEW d, NEW X, Safe(d, X), Types(d), NEW e, DOMAIN e = Fields,
           \A f \in Fields \ {"seenPicture", "skipRASL", "sps", "pps"} : e[f] = d[f],
           e.sps \in [SpsIds -> Sps \cup {NoSps}], e.pps \in [PpsIds -> SpsIds \cup {None}]
    PROVE  Safe(e, X) /\ Types(e) /\ e.pics = d.pics /\ e.cvs = d.cvs /\ (Steady(d) => Steady(e))
<1>1. /\ Kept(d, e) /\ e.ctu = d.ctu /\ e.prevSlic = d.prevSlic
      /\ e.poc = d.poc /\ e.curRPS = d.curRPS /\ e.cvs = d.cvs
      /\ e.maxReorder = d.maxReorder /\ e.maxLatency = d.maxLatency
  BY DEF Kept, Fields
<1>2. Safe(e, X)
  BY <1>1, KeptSafe
<1>3. Types(e)
  BY <1>1 DEF Types, Kept
<1> QED
  BY <1>1, <1>2, <1>3, KeptSteady DEF Kept

LEMMA NalSafe ==
    ASSUME NEW d, NEW X, Safe(d, X), Types(d), NEW nal \in Nal, NEW n
    PROVE  Moves(d, X, nal, DecodeNAL(d, nal, n))
<1> DEFINE e == DecodeNAL(d, nal, n)
<1>1. DOMAIN d = Fields
  BY DEF Safe, Shape
<1>2. d.sps \in [SpsIds -> Sps \cup {NoSps}] /\ d.pps \in [PpsIds -> SpsIds \cup {None}]
  BY DEF Types
<1>3. Moves(d, X, nal, d)
  BY DEF Moves
<1>4. nal.kind \in {"slice", "sps", "pps", "eos", "other"}
  BY DEF Nal, Slice
<1>5. CASE nal.kind = "sps"
  <2>1. e = IF nal.fault # "none" THEN d ELSE [d EXCEPT !.sps[nal.id] = nal.sps]
    BY <1>5 DEF DecodeNAL
  <2>2. nal.id \in SpsIds /\ nal.sps \in Sps
    BY <1>5 DEF Nal, Slice
  <2> DEFINE t == [d.sps EXCEPT ![nal.id] = nal.sps]
             q == [d EXCEPT !.sps = t]
  <2>3. t \in [SpsIds -> Sps \cup {NoSps}]
    BY <1>2, <2>2
  <2> HIDE DEF t
  <2>4. /\ DOMAIN q = Fields /\ q.sps = t /\ q.pps = d.pps
        /\ \A f \in Fields \ {"seenPicture", "skipRASL", "sps", "pps"} : q[f] = d[f]
    BY <1>1 DEF Fields
  <2>5. e = IF nal.fault # "none" THEN d ELSE q
    BY <2>1 DEF t
  <2> HIDE DEF q, e
  <2>6. Moves(d, X, nal, q)
    <3>1. Safe(q, X) /\ Types(q) /\ q.pics = d.pics /\ q.cvs = d.cvs /\ (Steady(d) => Steady(q))
      BY <1>2, <2>3, <2>4, FlagSafe
    <3> QED
      BY <3>1 DEF Moves
  <2> QED
    BY <1>3, <2>5, <2>6 DEF e
<1>6. CASE nal.kind = "pps"
  <2>1. e = IF nal.fault # "none" THEN d ELSE [d EXCEPT !.pps[nal.id] = nal.spsId]
    BY <1>6 DEF DecodeNAL
  <2>2. nal.id \in PpsIds /\ nal.spsId \in SpsIds
    BY <1>6 DEF Nal, Slice
  <2> DEFINE t == [d.pps EXCEPT ![nal.id] = nal.spsId]
             q == [d EXCEPT !.pps = t]
  <2>3. t \in [PpsIds -> SpsIds \cup {None}]
    BY <1>2, <2>2
  <2> HIDE DEF t
  <2>4. /\ DOMAIN q = Fields /\ q.pps = t /\ q.sps = d.sps
        /\ \A f \in Fields \ {"seenPicture", "skipRASL", "sps", "pps"} : q[f] = d[f]
    BY <1>1 DEF Fields
  <2>5. e = IF nal.fault # "none" THEN d ELSE q
    BY <2>1 DEF t
  <2> HIDE DEF q, e
  <2>6. Moves(d, X, nal, q)
    <3>1. Safe(q, X) /\ Types(q) /\ q.pics = d.pics /\ q.cvs = d.cvs /\ (Steady(d) => Steady(q))
      BY <1>2, <2>3, <2>4, FlagSafe
    <3> QED
      BY <3>1 DEF Moves
  <2> QED
    BY <1>3, <2>5, <2>6 DEF e
<1>7. CASE nal.kind = "eos"
  <2> DEFINE q == [d EXCEPT !.seenPicture = FALSE]
  <2>1. e = q
    BY <1>7 DEF DecodeNAL
  <2>2. /\ DOMAIN q = Fields /\ q.pps = d.pps /\ q.sps = d.sps
        /\ \A f \in Fields \ {"seenPicture", "skipRASL", "sps", "pps"} : q[f] = d[f]
    BY <1>1 DEF Fields
  <2> HIDE DEF q, e
  <2>3. Safe(q, X) /\ Types(q) /\ q.pics = d.pics /\ q.cvs = d.cvs /\ (Steady(d) => Steady(q))
    BY <1>2, <2>2, FlagSafe
  <2>4. Moves(d, X, nal, q)
    BY <2>3 DEF Moves
  <2> QED
    BY <2>1, <2>4 DEF e
<1>8. CASE nal.kind = "other"
  BY <1>3, <1>8 DEF DecodeNAL
<1>9. CASE nal.kind = "slice"
  <2> DEFINE starts == IsIRAP(nal.typ) /\ nal.first
             skip == IF starts THEN ~d.seenPicture \/ nal.typ \in {"IDR", "BLA"}
                     ELSE d.skipRASL
             seen == [d EXCEPT !.skipRASL = skip, !.seenPicture = @ \/ starts]
             q == [seen EXCEPT !.seenPicture = TRUE]
  <2>1. e = IF skip /\ IsRASL(nal.typ) THEN seen ELSE decodeSlice(q, nal, n)
    BY <1>9 DEF DecodeNAL
  <2>2. nal \in Slice
    BY <1>9 DEF Nal
  <2> HIDE DEF skip, starts
  <2>3. /\ DOMAIN seen = Fields /\ seen.pps = d.pps /\ seen.sps = d.sps
        /\ \A f \in Fields \ {"seenPicture", "skipRASL", "sps", "pps"} : seen[f] = d[f]
    BY <1>1 DEF Fields
  <2> HIDE DEF seen
  <2>4. /\ DOMAIN q = Fields /\ q.pps = d.pps /\ q.sps = d.sps
        /\ \A f \in Fields \ {"seenPicture", "skipRASL", "sps", "pps"} : q[f] = d[f]
    BY <2>3 DEF Fields
  <2> HIDE DEF q, e
  <2>5. Safe(q, X) /\ Types(q) /\ q.pics = d.pics /\ q.cvs = d.cvs /\ (Steady(d) => Steady(q))
    BY <1>2, <2>4, FlagSafe
  <2>6. /\ Safe(seen, X) /\ Types(seen) /\ seen.pics = d.pics /\ seen.cvs = d.cvs
        /\ Steady(d) => Steady(seen)
    BY <1>2, <2>3, FlagSafe
  <2>7. Moves(d, X, nal, seen)
    BY <2>6 DEF Moves
  <2>8. Moves(q, X, nal, decodeSlice(q, nal, n))
    BY <2>2, <2>5, SliceSafe
  <2>9. Moves(d, X, nal, decodeSlice(q, nal, n))
    BY <1>9, <2>5, <2>8, MovesOf
  <2> QED
    BY <2>1, <2>7, <2>9 DEF e
<1> QED
  BY <1>4, <1>5, <1>6, <1>7, <1>8, <1>9

-----------------------------------------------------------------------------
(* The caller's calls.                                                     *)

\* Release takes the caller's hold away, once.
LEMMA ReleasePictureSafe ==
    ASSUME NEW d, NEW X, Safe(d, X), Types(d), NEW i \in Returned(d)
    PROVE  /\ Safe(ReleasePicture(d, i), X) /\ Types(ReleasePicture(d, i))
           /\ Steady(d) => Steady(ReleasePicture(d, i))
           /\ DOMAIN ReleasePicture(d, i).pics = DOMAIN d.pics
<1> DEFINE x == [d.pics[i] EXCEPT !.released = TRUE]
           p == [d.pics EXCEPT ![i] = x]
           q == [d EXCEPT !.pics = p]
           e == release(q, {i})
<1>1. CASE d.pics[i].released
  BY <1>1 DEF ReleasePicture
<1>2. CASE ~d.pics[i].released
  <2>1. ReleasePicture(d, i) = e
    BY <1>2 DEF ReleasePicture
  <2>2. /\ DOMAIN d = Fields /\ IsSeq(d.pics) /\ DOMAIN d.pics = 1 .. Len(d.pics)
        /\ i \in DOMAIN d.pics /\ DOMAIN d.pics[i] = PicFields
    BY SeqIs DEF Safe, Shape, Returned
  <2>3. /\ DOMAIN x = PicFields /\ x.released = TRUE
        /\ \A f \in PicFields \ {"released"} : x[f] = d.pics[i][f]
    BY <2>2 DEF PicFields
  <2> HIDE DEF x
  <2>4. /\ IsSeq(p) /\ DOMAIN p = DOMAIN d.pics
        /\ \A j \in DOMAIN d.pics : p[j] = IF j = i THEN x ELSE d.pics[j]
    BY <2>2, SeqExcept
  <2> HIDE DEF p
  <2>5. /\ DOMAIN q = Fields /\ q.pics = p /\ \A f \in Fields \ {"pics"} : q[f] = d[f]
    BY <2>2 DEF Fields
  <2> HIDE DEF q
  <2>6. /\ q.dpb = d.dpb /\ q.shown = d.shown /\ q.cur = d.cur /\ q.curOut = d.curOut
        /\ q.free = d.free /\ DOMAIN q.pics = DOMAIN d.pics
    BY <2>4, <2>5 DEF Fields
  <2>7. \A j \in DOMAIN d.pics : /\ DOMAIN q.pics[j] = PicFields
                                 /\ q.pics[j].refs = d.pics[j].refs
                                 /\ q.pics[j].poc = d.pics[j].poc
                                 /\ q.pics[j].buf = d.pics[j].buf
                                 /\ q.pics[j].want = d.pics[j].want
                                 /\ q.pics[j].released = IF j = i THEN TRUE ELSE d.pics[j].released
    BY <2>3, <2>4, <2>5 DEF PicFields, Safe, Shape
  <2>8. Buffered(q) = Buffered(d) /\ Returned(q) = Returned(d) /\ InDecoder(q) = InDecoder(d)
    BY <2>6 DEF Buffered, Returned, InDecoder
  <2>9. /\ \A j \in Returned(d) : j \in DOMAIN d.pics
        /\ \A k \in DOMAIN d.dpb : d.dpb[k].pic \in DOMAIN d.pics
        /\ d.cur # None => d.cur \in DOMAIN d.pics
    BY DEF Safe, Shape, Returned
  <2>10. Shape(q)
    BY <2>4, <2>5, <2>6, <2>7 DEF Safe, Shape
  <2>11. Planes(q)
    <3>1. /\ q.free = d.free /\ DOMAIN q.pics = DOMAIN d.pics
          /\ \A j \in DOMAIN d.pics : /\ q.pics[j].refs = d.pics[j].refs
                                      /\ q.pics[j].buf = d.pics[j].buf
      BY <2>6, <2>7
    <3>2. Planes(d)
      BY DEF Safe
    <3> QED
      BY <3>1, <3>2 DEF Planes
  <2>12. Distinct(q)
    BY <2>6, <2>8 DEF Safe, Distinct
  <2>13. Output(q)
    BY <2>6, <2>7, <2>8, <2>9 DEF Safe, Output
  <2>14. Due(q, X)
    BY <2>6, <2>7, <2>8 DEF Safe, Due
  <2>15. /\ Frame(q, e) /\ Shape(e) /\ Planes(e)
         /\ \A j \in DOMAIN d.pics :
                e.pics[j].refs = IF j = i /\ d.pics[j].refs > 0
                                 THEN d.pics[j].refs - 1 ELSE d.pics[j].refs
    <3>1. {i} \subseteq DOMAIN q.pics
      BY <2>2, <2>6
    <3>2. /\ Frame(q, e) /\ Shape(e) /\ Planes(e)
          /\ \A j \in DOMAIN q.pics :
                e.pics[j].refs = IF j \in {i} /\ q.pics[j].refs > 0
                                 THEN q.pics[j].refs - 1 ELSE q.pics[j].refs
      BY <2>10, <2>11, <3>1, ReleaseEffect
    <3> HIDE DEF e
    <3> QED
      BY <2>6, <2>7, <3>2
  <2> HIDE DEF e
  <2>16. /\ Same(q, e) /\ DOMAIN e.pics = DOMAIN q.pics
         /\ Returned(e) = Returned(q) /\ InDecoder(e) = InDecoder(q)
         /\ \A j \in DOMAIN q.pics : e.pics[j].released = q.pics[j].released
         /\ Distinct(e) /\ Output(e) /\ Due(e, X)
    BY <2>10, <2>12, <2>13, <2>14, <2>15, FrameKeeps
  <2>17. Held(e, InDecoder(e))
    <3> SUFFICES ASSUME NEW j \in DOMAIN d.pics
                 PROVE  e.pics[j].refs = (IF j \in InDecoder(d) THEN 1 ELSE 0)
                            + (IF j \in Returned(d) /\ ~e.pics[j].released THEN 1 ELSE 0)
      BY <2>6, <2>8, <2>16 DEF Held
    <3>1. d.pics[j].refs = (IF j \in InDecoder(d) THEN 1 ELSE 0)
                           + (IF j \in Returned(d) /\ ~d.pics[j].released THEN 1 ELSE 0)
      BY DEF Safe, Held
    <3>2. e.pics[j].released = IF j = i THEN TRUE ELSE d.pics[j].released
      BY <2>6, <2>7, <2>16
    <3>3. CASE j = i
      BY <1>2, <2>15, <3>1, <3>2, <3>3
    <3>4. CASE j # i
      BY <2>15, <3>1, <3>2, <3>4
    <3> QED
      BY <3>3, <3>4
  <2>18. Safe(e, X)
    BY <2>15, <2>16, <2>17 DEF Safe
  <2>19. Types(e) /\ (Steady(d) => Steady(e))
    <3>1. Waits(q) = Waits(d) /\ \A j \in DOMAIN d.pics : q.pics[j].cvs = d.pics[j].cvs
      BY <2>3, <2>4, <2>5, <2>6 DEF Waits, Waiting, PicFields
    <3>2. Same(d, q)
      BY <2>5, <2>6, <3>1 DEF Same, Follows, Fields
    <3> QED
      BY <2>16, <3>2, SameTrans, SameTypes, SameSteady
  <2> QED
    BY <2>1, <2>6, <2>16, <2>18, <2>19
<1> QED
  BY <1>1, <1>2

LEMMA EndSafe ==
    ASSUME NEW d, NEW X, Safe(d, X), Types(d), d.cur = None, WaitPics(d) = {}
    PROVE  Safe(endSequence(d), X) /\ Goes(d, endSequence(d))
<1> DEFINE q == [d EXCEPT !.cur = None, !.ctu = NoCtu, !.prevSlic = NoSlice,
                          !.curRPS = NoRPS, !.poc = ZeroPoc,
                          !.seenPicture = FALSE, !.skipRASL = FALSE]
<1>1. DOMAIN d = Fields
  BY DEF Safe, Shape
<1>2. /\ DOMAIN q = Fields /\ q.cur = None /\ q.ctu = NoCtu /\ q.prevSlic = NoSlice
      /\ q.curRPS = NoRPS /\ q.poc = ZeroPoc
      /\ \A f \in Fields \ {"cur", "ctu", "prevSlic", "curRPS", "poc", "seenPicture", "skipRASL"} :
            q[f] = d[f]
  BY <1>1 DEF Fields
<1>3. endSequence(d) = clearDPB(q)
  BY DEF endSequence
<1> HIDE DEF q
<1>4. /\ Kept(d, q) /\ q.sps = d.sps /\ q.pps = d.pps /\ q.cvs = d.cvs
      /\ q.maxReorder = d.maxReorder /\ q.maxLatency = d.maxLatency
  BY <1>2 DEF Kept, Fields
<1>5. Safe(q, X)
  BY <1>4, KeptSafe
<1>6. NoRPS \in RpsType /\ ZeroPoc \in [prevLsb : Int, prevMsb : Int]
  <2>1. <<>> \in Seq(Int)
    OBVIOUS
  <2> QED
    BY <2>1 DEF NoRPS, RpsType, ZeroPoc
<1>7. Types(q)
  BY <1>2, <1>4, <1>6 DEF Types, Kept
<1>8. X \cup WaitPics(q) \subseteq X
  BY <1>4 DEF Kept, WaitPics, Waiting
<1>9. Safe(clearDPB(q), X) /\ Same(q, clearDPB(q))
  BY <1>5, <1>8, ClearSafe
<1>10. Goes(d, q) /\ Goes(q, clearDPB(q))
  BY <1>4, <1>7, <1>9, SameGoes, KeptSteady DEF Goes, Kept
<1> QED
  BY <1>3, <1>9, <1>10, GoesTrans

LEMMA FlushSafe ==
    ASSUME NEW d, NEW X, Safe(d, X), Types(d)
    PROVE  Safe(FlushAll(d), X) /\ Goes(d, FlushAll(d))
<1> DEFINE f == finishPicture(d)
           b == BumpAll(f)
<1>1. Safe(f, X) /\ Goes(d, f) /\ f.cur = None
  BY FinishSafe
<1> HIDE DEF f
<1>2. Safe(b, X) /\ Same(f, b) /\ WaitPics(b) = {}
  BY <1>1, BumpAllSafe
<1> HIDE DEF b
<1>3. Types(f)
  BY <1>1 DEF Goes
<1>4. Types(b) /\ Goes(f, b) /\ b.cur = None
  BY <1>1, <1>2, <1>3, SameTypes, SameGoes DEF Same, Fields
<1>5. Safe(endSequence(b), X) /\ Goes(b, endSequence(b))
  BY <1>2, <1>4, EndSafe
<1> QED
  BY <1>1, <1>4, <1>5, GoesTrans DEF FlushAll, b, f

\* Reset gives up every hold of the decoder and forgets everything else; the
\* pictures that were not returned never will be.
LEMMA ResetSafe ==
    ASSUME NEW d, NEW X, Safe(d, X), Types(d)
    PROVE  /\ Safe(ResetAll(d), X \cup Waived(ResetAll(d))) /\ Types(ResetAll(d))
           /\ DOMAIN ResetAll(d).pics = DOMAIN d.pics
           /\ Steady(d) => Steady(ResetAll(d))
<1> DEFINE r == IF d.cur = None THEN d ELSE release(d, {d.cur})
           k == clearDPB(r)
           z == Zero(k.pics, k.shown, k.cvs)
<1>1. ResetAll(d) = z
  BY DEF ResetAll
<1>2. /\ Shape(d) /\ Planes(d) /\ Held(d, InDecoder(d)) /\ Distinct(d) /\ Output(d)
  BY DEF Safe
<1>3. d.cur \notin Buffered(d) /\ DOMAIN d = Fields
  BY <1>2 DEF Distinct, Shape
<1>4. /\ Shape(r) /\ Planes(r) /\ Held(r, Buffered(d)) /\ Buffered(r) = Buffered(d)
      /\ r.shown = d.shown /\ r.cvs = d.cvs /\ DOMAIN r.pics = DOMAIN d.pics
      /\ \A i \in DOMAIN d.pics : /\ r.pics[i].want = d.pics[i].want
                                  /\ r.pics[i].cvs = d.pics[i].cvs
                                  /\ r.pics[i].released = d.pics[i].released
  <2>1. CASE d.cur = None
    <3>1. r = d /\ InDecoder(d) = Buffered(d)
      BY <2>1 DEF InDecoder
    <3> HIDE DEF r
    <3> QED
      BY <1>2, <3>1
  <2>2. CASE d.cur # None
    <3>1. r = release(d, {d.cur})
      BY <2>2
    <3> HIDE DEF r
    <3>2. {d.cur} \subseteq DOMAIN d.pics /\ {d.cur} \subseteq InDecoder(d)
      BY <1>2, <2>2 DEF Shape, InDecoder
    <3>3. InDecoder(d) \ {d.cur} = Buffered(d)
      BY <1>3, <2>2 DEF InDecoder
    <3>4. Frame(d, r) /\ Shape(r) /\ Planes(r) /\ Held(r, Buffered(d))
      BY <1>2, <3>1, <3>2, <3>3, ReleaseHeld
    <3>5. /\ Same(d, r) /\ DOMAIN r.pics = DOMAIN d.pics /\ r.shown = d.shown
          /\ Buffered(r) = Buffered(d)
          /\ \A i \in DOMAIN d.pics : /\ r.pics[i].want = d.pics[i].want
                                      /\ r.pics[i].released = d.pics[i].released
      BY <1>2, <3>4, FrameKeeps
    <3>6. \A i \in DOMAIN d.pics : r.pics[i].cvs = d.pics[i].cvs
      BY <3>5 DEF Same, Follows
    <3> QED
      BY <3>4, <3>5, <3>6 DEF Same, Fields
  <2> QED
    BY <2>1, <2>2
<1> HIDE DEF r
<1>5. /\ Shape(k) /\ Planes(k) /\ Held(k, {}) /\ k.shown = d.shown /\ k.cvs = d.cvs
      /\ DOMAIN k.pics = DOMAIN d.pics
      /\ \A i \in DOMAIN d.pics : /\ k.pics[i].want = d.pics[i].want
                                  /\ k.pics[i].cvs = d.pics[i].cvs
                                  /\ k.pics[i].released = d.pics[i].released
  <2> DEFINE H == Buffered(d)
  <2>1. Shape(r) /\ Planes(r) /\ Held(r, H) /\ \A i \in Buffered(r) : i \in H
    BY <1>4
  <2>2. H \ Buffered(r) = {}
    BY <1>4
  <2> HIDE DEF H, k
  <2>3. k = clearDPB(r)
    BY DEF k
  <2>4. /\ Shape(k) /\ Planes(k) /\ Held(k, H \ Buffered(r)) /\ Same(r, k)
        /\ k.shown = r.shown /\ DOMAIN k.pics = DOMAIN r.pics
        /\ \A i \in DOMAIN r.pics : /\ k.pics[i].want = r.pics[i].want
                                    /\ k.pics[i].released = r.pics[i].released
    BY <2>1, <2>3, ClearEffect
  <2>5. k.cvs = r.cvs /\ \A i \in DOMAIN r.pics : k.pics[i].cvs = r.pics[i].cvs
    BY <2>4 DEF Same, Follows, Fields
  <2> QED
    BY <1>4, <2>2, <2>4, <2>5
<1> HIDE DEF k
<1>6. /\ DOMAIN z = Fields /\ z.pics = k.pics /\ z.shown = d.shown /\ z.cvs = d.cvs
      /\ z.cur = None /\ z.dpb = <<>> /\ z.free = <<>> /\ z.ctu = NoCtu /\ z.prevSlic = NoSlice
      /\ z.poc = ZeroPoc /\ z.curRPS = NoRPS /\ z.curOut = FALSE /\ z.maxReorder = 0
      /\ z.sps = [i \in SpsIds |-> NoSps] /\ z.pps = [i \in PpsIds |-> None]
  BY <1>5 DEF Zero, Fields
<1> HIDE DEF z
<1>7. Buffered(z) = {} /\ Returned(z) = Returned(d) /\ InDecoder(z) = {}
  BY <1>6, SeqEmpty DEF Buffered, Returned, InDecoder
<1>8. Returned(k) = Returned(d)
  BY <1>5 DEF Returned
<1>9. Shape(z)
  BY <1>5, <1>6, SeqEmpty DEF Shape
<1>10. Planes(z)
  BY <1>5, <1>6, SeqEmpty DEF Planes
<1>11. Held(z, InDecoder(z))
  BY <1>5, <1>6, <1>7, <1>8 DEF Held
<1>12. Distinct(z)
  BY <1>2, <1>6, <1>7, SeqEmpty DEF Distinct
<1>13. Output(z)
  <2>1. \A i \in Returned(d) : i \in DOMAIN d.pics
    BY <1>2 DEF Shape, Returned
  <2> QED
    BY <1>2, <1>5, <1>6, <1>7, <2>1, SeqEmpty DEF Output
<1>14. Waived(z) = {i \in DOMAIN z.pics : i \notin Returned(z)}
  BY DEF Waived, Returned, ToSet
<1>15. Due(z, X \cup Waived(z))
  BY <1>14 DEF Due
<1>16. Types(z)
  <2>1. <<>> \in Seq(Int)
    OBVIOUS
  <2>2. NoRPS \in RpsType /\ ZeroPoc \in [prevLsb : Int, prevMsb : Int]
    BY <2>1 DEF NoRPS, RpsType, ZeroPoc
  <2> QED
    BY <1>6, <2>2 DEF Types
<1>17. ASSUME Steady(d) PROVE Steady(z)
  <2>1. WaitPics(z) = {}
    BY <1>6, SeqEmpty DEF WaitPics, Waiting
  <2>2. Sequenced(z, z.cvs)
    BY <1>5, <1>6, <1>17, <2>1 DEF Steady, Sequenced
  <2> QED
    BY <1>6, <2>1, <2>2, EmptyCalm DEF Steady
<1> QED
  BY <1>1, <1>5, <1>6, <1>9, <1>10, <1>11, <1>12, <1>13, <1>15, <1>16, <1>17 DEF Safe

\* What the ghost variable `dropped` gains is what a slice waives.
LEMMA WaivedSafe ==
    ASSUME NEW d, NEW X, Shape(d), Types(d), NEW nal, NEW e, Moves(d, X, nal, e)
    PROVE  /\ Safe(e, X \cup WaivedBy(nal, d, e))
           /\ WaivedBy(nal, d, e) \subseteq DOMAIN e.pics
<1>1. WaivedBy(nal, d, e) \subseteq DOMAIN e.pics
  BY DEF WaivedBy, Waived
<1>2. CASE Safe(e, X)
  BY <1>1, <1>2, SafeMore
<1>3. CASE ~Safe(e, X)
  <2>1. /\ e.cvs = d.cvs + 1 /\ nal.kind = "slice" /\ nal.first /\ IsIRAP(nal.typ)
        /\ (nal.noOut \/ nal.typ = "CRA") /\ Safe(e, X \cup DOMAIN d.pics)
    BY <1>3 DEF Moves
  <2>2. e.cvs > d.cvs
    BY <2>1 DEF Types
  <2>3. WaivedBy(nal, d, e) = {i \in Waived(e) : i <= Len(d.pics)}
    BY <2>1, <2>2 DEF WaivedBy
  <2>4. Waived(e) = {i \in DOMAIN e.pics : i \notin Returned(e)}
    BY DEF Waived, Returned, ToSet
  <2>5. DOMAIN d.pics = 1 .. Len(d.pics) /\ Len(d.pics) \in Nat
    BY SeqIs DEF Shape
  <2>6. \A i \in DOMAIN e.pics : i \in DOMAIN d.pics /\ i \notin Returned(e)
                                 => i \in WaivedBy(nal, d, e)
    BY <2>3, <2>4, <2>5
  <2>7. Due(e, X \cup WaivedBy(nal, d, e))
    BY <2>1, <2>6 DEF Safe, Due
  <2> QED
    BY <1>1, <2>1, <2>7 DEF Safe
<1> QED
  BY <1>2, <1>3

-----------------------------------------------------------------------------
(* The invariant.                                                          *)

DecoderInv == /\ Safe(m, dropped) /\ Types(m) /\ Steady(m) /\ dropped \subseteq DOMAIN m.pics
              /\ stream \in Streams /\ pos \in Nat \ {0}

LEMMA InitInv == Init => DecoderInv
<1> SUFFICES ASSUME Init PROVE DecoderInv
  OBVIOUS
<1>1. m = Zero(<<>>, <<>>, 0) /\ stream \in Streams /\ pos = 1 /\ dropped = {}
  BY DEF Init
<1> DEFINE z == Zero(<<>>, <<>>, 0)
<1>2. /\ DOMAIN z = Fields /\ z.pics = <<>> /\ z.shown = <<>> /\ z.cvs = 0
      /\ z.cur = None /\ z.dpb = <<>> /\ z.free = <<>> /\ z.ctu = NoCtu /\ z.prevSlic = NoSlice
      /\ z.poc = ZeroPoc /\ z.curRPS = NoRPS /\ z.curOut = FALSE /\ z.maxReorder = 0
      /\ z.sps = [i \in SpsIds |-> NoSps] /\ z.pps = [i \in PpsIds |-> None]
  BY DEF Zero, Fields
<1> HIDE DEF z
<1>3. Buffered(z) = {} /\ Returned(z) = {} /\ InDecoder(z) = {}
  BY <1>2, SeqEmpty DEF Buffered, Returned, InDecoder
<1>4. Shape(z)
  BY <1>2, SeqEmpty DEF Shape
<1>5. Planes(z) /\ Held(z, InDecoder(z)) /\ Due(z, {})
  BY <1>2, SeqEmpty DEF Planes, Held, Due
<1>6. Distinct(z) /\ Output(z)
  BY <1>2, <1>3, SeqEmpty DEF Distinct, Output
<1>7. Types(z)
  <2>1. <<>> \in Seq(Int)
    OBVIOUS
  <2>2. NoRPS \in RpsType /\ ZeroPoc \in [prevLsb : Int, prevMsb : Int]
    BY <2>1 DEF NoRPS, RpsType, ZeroPoc
  <2>3. z.sps \in [SpsIds -> Sps \cup {NoSps}] /\ z.pps \in [PpsIds -> SpsIds \cup {None}]
    BY <1>2
  <2>4. z.cvs \in Nat
    BY <1>2
  <2>5. z.curOut \in BOOLEAN
    BY <1>2, Zenon
  <2>6. z.cur = None <=> z.ctu = NoCtu
    BY <1>2
  <2> QED
    BY <1>2, <2>2, <2>3, <2>4, <2>5, <2>6, Zenon DEF Types
<1>8. Safe(z, {})
  BY <1>4, <1>5, <1>6 DEF Safe
<1>9. Steady(z)
  <2>1. WaitPics(z) = {}
    BY <1>2, SeqEmpty DEF WaitPics, Waiting
  <2>2. Sequenced(z, z.cvs)
    BY <1>2, <2>1, SeqEmpty DEF Sequenced
  <2> QED
    BY <1>2, <2>1, <2>2, EmptyCalm DEF Steady
<1> QED
  BY <1>1, <1>7, <1>8, <1>9 DEF DecoderInv, z

LEMMA NalTyped == DecoderInv /\ pos <= Len(stream.nals) => stream.nals[pos] \in Nal
<1> SUFFICES ASSUME DecoderInv, pos <= Len(stream.nals) PROVE stream.nals[pos] \in Nal
  OBVIOUS
<1>1. stream.nals \in Seq(Nal) /\ pos \in Nat \ {0}
  BY DecoderAssumption DEF DecoderInv
<1> QED
  BY <1>1

LEMMA BadNal ==
    ASSUME NEW nal \in Nal, NEW f \in {"header", "tiles", "data"}, NEW upto \in 0 .. 2
    PROVE  LET bad == [nal EXCEPT !.fault = f, !.upto = upto]
           IN  /\ bad \in Nal /\ bad.kind = nal.kind
               /\ nal.kind = "slice" => /\ bad.first = nal.first /\ bad.typ = nal.typ
                                        /\ bad.noOut = nal.noOut
<1> DEFINE bad == [nal EXCEPT !.fault = f, !.upto = upto]
<1>1. f \in Faults /\ upto \in Nat
  BY DEF Faults
<1>2. CASE nal \in Slice
  <2>1. bad \in Slice
    BY <1>1, <1>2 DEF Slice
  <2>2. /\ bad.kind = nal.kind /\ bad.first = nal.first /\ bad.typ = nal.typ
        /\ bad.noOut = nal.noOut
    BY <1>2 DEF Slice
  <2> QED
    BY <2>1, <2>2 DEF Nal
<1>3. CASE nal \in [kind : {"sps"}, id : SpsIds, sps : Sps, fault : Faults, upto : Nat]
  <2>1. /\ bad \in [kind : {"sps"}, id : SpsIds, sps : Sps, fault : Faults, upto : Nat]
        /\ bad.kind = nal.kind /\ nal.kind = "sps"
    BY <1>1, <1>3
  <2> QED
    BY <2>1 DEF Nal
<1>4. CASE nal \in [kind : {"pps"}, id : PpsIds, spsId : SpsIds, fault : Faults, upto : Nat]
  <2>1. /\ bad \in [kind : {"pps"}, id : PpsIds, spsId : SpsIds, fault : Faults, upto : Nat]
        /\ bad.kind = nal.kind /\ nal.kind = "pps"
    BY <1>1, <1>4
  <2> QED
    BY <2>1 DEF Nal
<1>5. CASE nal \in [kind : {"eos", "other"}, fault : Faults, upto : Nat]
  <2>1. /\ bad \in [kind : {"eos", "other"}, fault : Faults, upto : Nat]
        /\ bad.kind = nal.kind /\ nal.kind # "slice"
    BY <1>1, <1>5
  <2> QED
    BY <2>1 DEF Nal
<1> QED
  BY <1>2, <1>3, <1>4, <1>5 DEF Nal

LEMMA NextInv == DecoderInv /\ [Next]_vars => DecoderInv'
<1> SUFFICES ASSUME DecoderInv, [Next]_vars PROVE DecoderInv'
  OBVIOUS
<1>1. /\ Safe(m, dropped) /\ Types(m) /\ Steady(m) /\ dropped \subseteq DOMAIN m.pics
      /\ stream \in Streams /\ pos \in Nat \ {0}
  BY DEF DecoderInv
<1>2. Shape(m)
  BY <1>1 DEF Safe
<1>3. ASSUME Safe(m', dropped'), Types(m'), Steady(m'), dropped' \subseteq DOMAIN m'.pics,
             stream' = stream, pos' \in {pos, pos + 1}
      PROVE  DecoderInv'
  BY <1>1, <1>3 DEF DecoderInv
<1>4. CASE Deliver
  <2> DEFINE nal == stream.nals[pos]
  <2>1. /\ nal \in Nal /\ m' = DecodeNAL(m, nal, pos)
        /\ dropped' = dropped \cup WaivedBy(nal, m, m') /\ pos' = pos + 1 /\ stream' = stream
    BY <1>4, NalTyped DEF Deliver
  <2> HIDE DEF nal
  <2>2. Moves(m, dropped, nal, m')
    BY <1>1, <2>1, NalSafe
  <2>3. Safe(m', dropped') /\ WaivedBy(nal, m, m') \subseteq DOMAIN m'.pics
    BY <1>1, <1>2, <2>1, <2>2, WaivedSafe
  <2>4. Types(m') /\ Steady(m') /\ DOMAIN m.pics \subseteq DOMAIN m'.pics
    BY <1>1, <2>2 DEF Moves
  <2>5. dropped' \subseteq DOMAIN m'.pics
    BY <1>1, <2>1, <2>3, <2>4
  <2> QED
    BY <1>3, <2>1, <2>3, <2>4, <2>5
<1>5. CASE Damage
  <2> DEFINE nal == stream.nals[pos]
  <2>1. PICK f \in {"header", "tiles", "data"}, upto \in 0 .. 2 :
           /\ m' = DecodeNAL(m, [nal EXCEPT !.fault = f, !.upto = upto], pos)
           /\ dropped' = dropped \cup WaivedBy(nal, m, m')
    BY <1>5 DEF Damage
  <2>2. nal \in Nal /\ pos' = pos + 1 /\ stream' = stream
    BY <1>5, NalTyped DEF Damage
  <2> HIDE DEF nal
  <2> DEFINE bad == [nal EXCEPT !.fault = f, !.upto = upto]
  <2>3. /\ bad \in Nal /\ bad.kind = nal.kind
        /\ nal.kind = "slice" => /\ bad.first = nal.first /\ bad.typ = nal.typ
                                 /\ bad.noOut = nal.noOut
    BY <2>2, BadNal
  <2>4. m' = DecodeNAL(m, bad, pos)
    BY <2>1
  <2> HIDE DEF bad
  <2>5. Moves(m, dropped, bad, m')
    BY <1>1, <2>3, <2>4, NalSafe
  <2>6. WaivedBy(nal, m, m') = WaivedBy(bad, m, m')
    BY <2>3 DEF WaivedBy
  <2>7. Safe(m', dropped') /\ WaivedBy(nal, m, m') \subseteq DOMAIN m'.pics
    BY <1>1, <1>2, <2>1, <2>5, <2>6, WaivedSafe
  <2>8. Types(m') /\ Steady(m') /\ DOMAIN m.pics \subseteq DOMAIN m'.pics
    BY <1>1, <2>5 DEF Moves
  <2>9. dropped' \subseteq DOMAIN m'.pics
    BY <1>1, <2>1, <2>7, <2>8
  <2> QED
    BY <1>3, <2>2, <2>7, <2>8, <2>9
<1>6. CASE Lose
  BY <1>1, <1>3, <1>6 DEF Lose
<1>7. CASE Flush
  <2>1. m' = FlushAll(m) /\ stream' = stream /\ pos' = pos /\ dropped' = dropped
    BY <1>7 DEF Flush
  <2>2. Safe(m', dropped) /\ Goes(m, m')
    BY <1>1, <2>1, FlushSafe
  <2>3. Types(m') /\ Steady(m') /\ dropped \subseteq DOMAIN m'.pics
    BY <1>1, <2>2 DEF Goes
  <2> QED
    BY <1>3, <2>1, <2>2, <2>3
<1>8. CASE Reset
  <2>1. /\ m' = ResetAll(m) /\ stream' = stream /\ pos' = pos
        /\ dropped' = dropped \cup Waived(m')
    BY <1>8 DEF Reset
  <2>2. Safe(m', dropped') /\ Types(m') /\ Steady(m') /\ DOMAIN m'.pics = DOMAIN m.pics
    BY <1>1, <2>1, ResetSafe
  <2>3. dropped' \subseteq DOMAIN m'.pics
    BY <1>1, <2>1, <2>2 DEF Waived
  <2> QED
    BY <1>3, <2>1, <2>2, <2>3
<1>9. ASSUME NEW i \in DOMAIN m.pics, Release(i) PROVE DecoderInv'
  <2>1. /\ i \in Returned(m) /\ m' = ReleasePicture(m, i)
        /\ stream' = stream /\ pos' = pos /\ dropped' = dropped
    BY <1>9 DEF Release, ToSet, Returned
  <2>2. Safe(m', dropped) /\ Types(m') /\ Steady(m') /\ DOMAIN m'.pics = DOMAIN m.pics
    BY <1>1, <2>1, ReleasePictureSafe
  <2> QED
    BY <1>1, <1>3, <2>1, <2>2
<1>10. CASE UNCHANGED vars
  BY <1>1, <1>3, <1>10 DEF vars
<1> QED
  BY <1>4, <1>5, <1>6, <1>7, <1>8, <1>9, <1>10 DEF Next

LEMMA Invariance == Spec => []DecoderInv
  BY InitInv, NextInv, PTL DEF Spec

\* How the properties name what is in the decoder and what was returned.
LEMMA Names ==
    ASSUME DecoderInv
    PROVE  /\ Shown = Returned(m) /\ Pics = 1 .. Len(m.pics) /\ Len(m.pics) \in Nat
           /\ \A i \in Pics : InBuffer(i) <=> i \in Buffered(m)
           /\ \A i \in Pics : i \in InDecoder(m) <=> i = m.cur \/ InBuffer(i)
<1>1. Shape(m)
  BY DEF DecoderInv, Safe
<1>2. Shown = Returned(m)
  BY DEF Shown, Returned, ToSet
<1>3. Pics = 1 .. Len(m.pics) /\ Len(m.pics) \in Nat
  BY <1>1, SeqIs DEF Pics, Shape
<1>4. \A i \in Pics : InBuffer(i) <=> i \in Buffered(m)
  BY DEF InBuffer, Buffered
<1>5. None \notin Pics
  BY <1>3 DEF None
<1>6. \A i \in Pics : i \in InDecoder(m) <=> i = m.cur \/ InBuffer(i)
  BY <1>4, <1>5 DEF InDecoder
<1> QED
  BY <1>2, <1>3, <1>4, <1>6

\* TypeOK: the decoder's state is one its methods expect, whatever the stream
\* and the caller did.
THEOREM TypeCorrect == Spec => []TypeOK
<1>1. ASSUME DecoderInv PROVE TypeOK
  <2>1. Shape(m) /\ Types(m) /\ dropped \subseteq Pics
    BY <1>1 DEF DecoderInv, Safe, Pics
  <2>2. m.cur \in Pics \cup {None} /\ \A k \in DOMAIN m.dpb : m.dpb[k].pic \in Pics
    BY <2>1 DEF Shape, Pics
  <2>3. m.cur = None <=> m.ctu = NoCtu
    BY <2>1 DEF Types
  <2>4. m.cur # None => m.ctu.next \in 0 .. m.ctu.sps.size
    <3> SUFFICES ASSUME m.cur # None PROVE m.ctu.next \in 0 .. m.ctu.sps.size
      OBVIOUS
    <3>1. /\ m.ctu \in [sps : Sps, pps : PpsIds, next : Nat]
          /\ m.ctu.next <= m.ctu.sps.size
      BY <2>1, <2>3 DEF Types
    <3>2. m.ctu.next \in Nat /\ m.ctu.sps.size \in Nat
      BY <3>1 DEF Sps
    <3> QED
      BY <3>1, <3>2
  <2>5. m.shown \in Seq(Pics)
    <3>1. DOMAIN m.shown = 1 .. Len(m.shown) /\ Len(m.shown) \in Nat
      BY <2>1, SeqIs DEF Shape
    <3>2. m.shown \in [1 .. Len(m.shown) -> Pics]
      BY <2>1, <3>1 DEF Shape, IsSeq, Pics
    <3> QED
      BY <3>1, <3>2, SeqDef
  <2>6. \A i \in Pics : m.pics[i].refs \in Nat /\ m.pics[i].poc \in Int
    BY <2>1 DEF Shape, Pics
  <2> QED
    BY <2>1, <2>2, <2>3, <2>4, <2>5, <2>6 DEF TypeOK
<1> QED
  BY <1>1, Invariance, PTL

\* HoldsExact: the count of a picture is the decoder's hold, while it decodes
\* the picture or keeps it in the buffer, and the caller's until it releases
\* it.  No fault on the way and no order of Release, Flush and Reset leaks a
\* hold or gives one up twice.
THEOREM HoldsAreExact == Spec => []HoldsExact
<1>1. ASSUME DecoderInv PROVE HoldsExact
  <2>1. Held(m, InDecoder(m)) /\ Distinct(m)
    BY <1>1 DEF DecoderInv, Safe
  <2>2. /\ Shown = Returned(m)
        /\ \A i \in Pics : InBuffer(i) <=> i \in Buffered(m)
        /\ \A i \in Pics : i \in InDecoder(m) <=> i = m.cur \/ InBuffer(i)
    BY <1>1, Names
  <2> SUFFICES ASSUME NEW i \in Pics
               PROVE  /\ m.pics[i].refs = (IF i = m.cur \/ InBuffer(i) THEN 1 ELSE 0)
                                         + (IF i \in Shown /\ ~m.pics[i].released THEN 1 ELSE 0)
                      /\ i = m.cur => ~InBuffer(i)
                      /\ \A j, k \in DOMAIN m.dpb :
                            m.dpb[j].pic = i /\ m.dpb[k].pic = i => j = k
    BY DEF HoldsExact
  <2>3. m.pics[i].refs = (IF i \in InDecoder(m) THEN 1 ELSE 0)
                         + (IF i \in Returned(m) /\ ~m.pics[i].released THEN 1 ELSE 0)
    BY <2>1 DEF Held, Pics
  <2>4. m.pics[i].refs = (IF i = m.cur \/ InBuffer(i) THEN 1 ELSE 0)
                         + (IF i \in Shown /\ ~m.pics[i].released THEN 1 ELSE 0)
    BY <2>2, <2>3
  <2>5. i = m.cur => ~InBuffer(i)
    BY <2>1, <2>2 DEF Distinct
  <2>6. \A j, k \in DOMAIN m.dpb : m.dpb[j].pic = i /\ m.dpb[k].pic = i => j = k
    BY <2>1 DEF Distinct
  <2> QED
    BY <2>4, <2>5, <2>6
<1> QED
  BY <1>1, Invariance, PTL

\* NoAlias: planes somebody may still read are there, are no other picture's
\* and are not in the pool, for a pool of any depth and pictures of any size.
THEOREM PlanesAreNotShared == Spec => []NoAlias
<1>1. ASSUME DecoderInv PROVE NoAlias
  <2>1. Held(m, InDecoder(m)) /\ Planes(m)
    BY <1>1 DEF DecoderInv, Safe
  <2>2. /\ Shown = Returned(m)
        /\ \A i \in Pics : i \in InDecoder(m) <=> i = m.cur \/ InBuffer(i)
    BY <1>1, Names
  <2> SUFFICES ASSUME NEW i \in Pics,
                      i = m.cur \/ InBuffer(i) \/ (i \in Shown /\ ~m.pics[i].released)
               PROVE  /\ m.pics[i].buf # NoBuf
                      /\ m.pics[i].buf \notin ToSet(m.free)
                      /\ \A j \in Pics \ {i} : m.pics[j].buf # m.pics[i].buf
    BY DEF NoAlias
  <2>3. m.pics[i].refs > 0
    <3>1. m.pics[i].refs = (IF i \in InDecoder(m) THEN 1 ELSE 0)
                           + (IF i \in Returned(m) /\ ~m.pics[i].released THEN 1 ELSE 0)
      BY <2>1 DEF Held, Pics
    <3> QED
      BY <2>2, <3>1
  <2>4. m.pics[i].buf # NoBuf
    BY <2>1, <2>3 DEF Planes, Pics
  <2>5. m.pics[i].buf \notin ToSet(m.free)
    BY <2>1 DEF Planes, Pics, ToSet
  <2>6. \A j \in Pics \ {i} : m.pics[j].buf # m.pics[i].buf
    BY <2>1, <2>4 DEF Planes, Pics
  <2> QED
    BY <2>4, <2>5, <2>6
<1> QED
  BY <1>1, Invariance, PTL

\* OutputOnce: a picture that is to be output is returned at most once, and
\* until it is returned, or its output is waived, the decoder still has it; a
\* picture that is not to be output is never returned.
THEOREM EachIsOutputOnce == Spec => []OutputOnce
<1>1. ASSUME DecoderInv PROVE OutputOnce
  <2>1. Distinct(m) /\ Output(m) /\ Due(m, dropped)
    BY <1>1 DEF DecoderInv, Safe
  <2>2. Shown = Returned(m)
    BY <1>1, Names
  <2>3. \A j, k \in DOMAIN m.shown : m.shown[j] = m.shown[k] => j = k
    BY <2>1 DEF Distinct
  <2>4. ASSUME NEW i \in Pics
        PROVE  \/ m.pics[i].want /\ i \in Shown
               \/ ~m.pics[i].want /\ i \notin Shown
               \/ i = m.cur
               \/ \E k \in DOMAIN m.dpb : m.dpb[k].pic = i /\ m.dpb[k].output
               \/ i \in dropped
    BY <2>1, <2>2 DEF Output, Due, Pics
  <2> QED
    BY <2>3, <2>4 DEF OutputOnce
<1> QED
  BY <1>1, Invariance, PTL

\* OutputOrder: sequences leave in the order they came, whatever was lost of
\* them and whatever limits each of them set.
THEOREM SequencesLeaveInOrder == Spec => []OutputOrder
<1>1. ASSUME DecoderInv PROVE OutputOrder
  BY <1>1 DEF DecoderInv, Steady, Sequenced, OutputOrder
<1> QED
  BY <1>1, Invariance, PTL

\* WithinLimits: between two calls nothing waits that C.5.2.3 would let out, as
\* every call that stores a picture or changes the limits drains the buffer.
THEOREM NothingIsOverdue == Spec => []WithinLimits
<1>1. ASSUME DecoderInv PROVE WithinLimits
  BY <1>1, CalmIsNotFull DEF DecoderInv, Safe, Steady, WithinLimits
<1> QED
  BY <1>1, Invariance, PTL

-----------------------------------------------------------------------------
(* Picture order counts: the arithmetic of RefPicSet, for every range of  *)
(* the least significant bits.                                             *)

\* What pocState holds once a picture with count p has updated it.
CountedFrom(p, maxLsb) == [prevLsb |-> p % maxLsb, prevMsb |-> p - (p % maxLsb)]

\* Two multiples of n that lie less than two n apart are equal or neighbours.
LEMMA Neighbours ==
    ASSUME NEW n \in Nat, n > 0, NEW a \in Int, NEW b \in Int,
           a * n - b * n < 2 * n, b * n - a * n < 2 * n
    PROVE  a * n - b * n \in {0, n, -n}
<1> DEFINE k == a - b
<1>1. k \in Int /\ a * n - b * n = k * n
  OBVIOUS
<1>2. k < 2
  <2>1. SUFFICES ASSUME k >= 2 PROVE FALSE
    BY <1>1
  <2>2. k * n >= 2 * n
    BY <2>1, <1>1, Z3
  <2> QED
    BY <2>2, <1>1
<1>3. k > -2
  <2>1. SUFFICES ASSUME k <= -2 PROVE FALSE
    BY <1>1
  <2>2. k * n <= (-2) * n
    BY <2>1, <1>1, Z3
  <2> QED
    BY <2>2, <1>1
<1>4. k \in {0, 1, -1}
  BY <1>1, <1>2, <1>3
<1>5. k * n \in {0, n, -n}
  BY <1>4
<1> QED
  BY <1>1, <1>5

\* derivePOC gives every picture the count it was coded with, whatever came
\* before it, if the count is at most half the range away from the one it is
\* counted from: half the range itself forwards, and less than that backwards.
THEOREM PocRecovered ==
    ASSUME NEW half \in Nat, half > 0, NEW p \in Int, NEW poc \in Int, NEW typ \in NalTypes,
           poc - p <= half, p - poc < half
    PROVE  derivePOC(CountedFrom(p, 2 * half), typ, poc % (2 * half), 2 * half, FALSE) = poc
<1> DEFINE n == 2 * half
           lsb == poc % n
           prev == p % n
<1>1. n \in Nat /\ n > 0 /\ n \div 2 = half
  OBVIOUS
<1>2. lsb \in 0 .. n - 1 /\ prev \in 0 .. n - 1
  BY <1>1
<1>3. poc - lsb = (poc \div n) * n /\ p - prev = (p \div n) * n
  BY <1>1
<1>4. (poc - lsb) - (p - prev) \in {0, n, -n}
  <2>1. (poc \div n) \in Int /\ (p \div n) \in Int
    BY <1>1
  <2> HIDE DEF n, lsb, prev
  <2>2. /\ (poc - lsb) - (p - prev) < 2 * n
        /\ (p - prev) - (poc - lsb) < 2 * n
    BY <1>1, <1>2 DEF n
  <2> QED
    BY <2>1, <2>2, <1>1, <1>3, Neighbours
<1>5. derivePOC(CountedFrom(p, n), typ, lsb, n, FALSE)
        = lsb + (IF lsb < prev /\ prev - lsb >= half THEN (p - prev) + n
                 ELSE IF lsb > prev /\ lsb - prev > half THEN (p - prev) - n
                 ELSE p - prev)
  BY <1>1 DEF derivePOC, CountedFrom
<1>6. (IF lsb < prev /\ prev - lsb >= half THEN (p - prev) + n
       ELSE IF lsb > prev /\ lsb - prev > half THEN (p - prev) - n
       ELSE p - prev) = poc - lsb
  <2> lsb \in Int /\ prev \in Int
    BY <1>2
  <2>1. n = 2 * half
    OBVIOUS
  <2> HIDE DEF n, lsb, prev
  <2> QED
    BY <1>2, <1>4, <2>1
<1>7. lsb + (poc - lsb) = poc
  BY <1>2
<1>8. derivePOC(CountedFrom(p, n), typ, lsb, n, FALSE) = lsb + (poc - lsb)
  <2> HIDE DEF n, lsb, prev
  <2> QED
    BY <1>5, <1>6
<1> QED
  BY <1>7, <1>8
================================================================================
