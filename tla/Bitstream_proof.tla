---------------------------- MODULE Bitstream_proof ----------------------------
(***************************************************************************)
(* Whatever bytes are written, the units of NalFraming arrive whole in both*)
(* framings, and their substreams where the entry points say.  Whatever the*)
(* segments of a picture, and whichever of them are lost or come again, the*)
(* decoder of SegmentData parses what it does not mark as it was coded.    *)
(***************************************************************************)
EXTENDS NalFraming, SegmentData, SequenceTheorems, FiniteSetTheorems, WellFoundedInduction, TLAPS

-----------------------------------------------------------------------------
(* Induction, said with a set.                                             *)

LEMMA Induct ==
    ASSUME NEW T \in SUBSET Nat, 0 \in T, \A n \in T : n + 1 \in T
    PROVE  T = Nat
<1>1. SUFFICES ASSUME Nat \ T # {} PROVE FALSE
  OBVIOUS
<1>2. IsWellFoundedOn(OpToRel(<, Nat), Nat)
  BY NatLessThanWellFounded
<1>3. PICK k \in Nat \ T : \A n \in Nat \ T : <<n, k>> \notin OpToRel(<, Nat)
  BY <1>1, <1>2, WFMin
<1>4. \A n \in Nat \ T : ~(n < k)
  BY <1>3 DEF OpToRel
<1>5. k \in Nat /\ k \notin T
  OBVIOUS
<1>6. k # 0
  BY <1>5
<1>7. k - 1 \in Nat
  BY <1>5, <1>6
<1>8. k - 1 \in T
  BY <1>4, <1>5, <1>7
<1>9. (k - 1) + 1 \in T
  BY <1>8
<1> QED
  BY <1>5, <1>9

-----------------------------------------------------------------------------
(* Sequences.                                                              *)

LEMMA CatIs ==
    ASSUME NEW S, NEW s \in Seq(S), NEW t \in Seq(S)
    PROVE  /\ s \o t \in Seq(S) /\ Len(s \o t) = Len(s) + Len(t) /\ Len(s) \in Nat /\ Len(t) \in Nat
           /\ \A i \in 1 .. Len(s) : (s \o t)[i] = s[i]
           /\ \A i \in 1 .. Len(t) : (s \o t)[Len(s) + i] = t[i]
<1>1. s \o t \in Seq(S) /\ Len(s \o t) = Len(s) + Len(t)
  BY ConcatProperties
<1>2. \A i \in 1 .. Len(s) + Len(t) : (s \o t)[i] = IF i <= Len(s) THEN s[i] ELSE t[i - Len(s)]
  BY ConcatProperties
<1>3. Len(s) \in Nat /\ Len(t) \in Nat
  OBVIOUS
<1>4. ASSUME NEW i \in 1 .. Len(t) PROVE (s \o t)[Len(s) + i] = t[i]
  <2>1. Len(s) + i \in 1 .. Len(s) + Len(t) /\ ~(Len(s) + i <= Len(s)) /\ (Len(s) + i) - Len(s) = i
    BY <1>3
  <2> QED
    BY <2>1, <1>2
<1> QED
  BY <1>1, <1>2, <1>3, <1>4

\* A part of a sequence that is another one.
LEMMA PartIs ==
    ASSUME NEW S, NEW s \in Seq(S), NEW t \in Seq(S), NEW m \in Nat, m + Len(t) <= Len(s),
           \A i \in 1 .. Len(t) : s[m + i] = t[i]
    PROVE  SubSeq(s, m + 1, m + Len(t)) = t
<1> DEFINE u == SubSeq(s, m + 1, m + Len(t))
<1>1. Len(t) \in Nat /\ Len(s) \in Nat
  OBVIOUS
<1>2. \A i \in m + 1 .. m + Len(t) : s[i] \in S
  BY <1>1, ElementOfSeq
<1>3. /\ u \in Seq(S) /\ Len(u) = IF m + 1 <= m + Len(t) THEN (m + Len(t)) - (m + 1) + 1 ELSE 0
      /\ \A i \in 1 .. (m + Len(t)) - (m + 1) + 1 : u[i] = s[(m + 1) + i - 1]
  BY <1>1, <1>2, SubSeqProperties
<1>4. Len(u) = Len(t)
  BY <1>1, <1>3
<1>5. ASSUME NEW i \in 1 .. Len(u) PROVE u[i] = t[i]
  <2>1. i \in 1 .. Len(t) /\ i \in 1 .. (m + Len(t)) - (m + 1) + 1 /\ (m + 1) + i - 1 = m + i
    BY <1>1, <1>4
  <2> QED
    BY <2>1, <1>3
<1> QED
  BY <1>3, <1>4, <1>5, SeqEqual

-----------------------------------------------------------------------------
(* The recursive functions are what their equations say.                   *)

LEMMA EscapingIs ==
    ASSUME NEW s, Len(s) \in Nat
    PROVE  /\ Escaping(s)[0] = [out |-> <<>>, zeros |-> 0]
           /\ \A i \in 1 .. Len(s) : Escaping(s)[i] = Escaped(Escaping(s)[i - 1], s[i])
<1> DEFINE N == Len(s)
           base == [out |-> <<>>, zeros |-> 0]
           Solves(g, m) == g = [i \in 0 .. m |-> IF i = 0 THEN base ELSE Escaped(g[i - 1], s[i])]
           T == {m \in Nat : \E g : Solves(g, m)}
<1> HIDE DEF base
<1>1. 0 \in T
  <2> DEFINE g == [i \in {0} |-> base]
  <2>1. Solves(g, 0)
    OBVIOUS
  <2> QED
    BY <2>1
<1>2. ASSUME NEW m \in T PROVE m + 1 \in T
  <2>1. m \in Nat
    OBVIOUS
  <2>2. PICK g : Solves(g, m)
    OBVIOUS
  <2> DEFINE h == [i \in 0 .. m + 1 |-> IF i = m + 1 THEN Escaped(g[m], s[m + 1]) ELSE g[i]]
  <2>3. ASSUME NEW i \in 0 .. m + 1
        PROVE  h[i] = IF i = 0 THEN base ELSE Escaped(h[i - 1], s[i])
    <3>1. CASE i = m + 1
      BY <2>1, <3>1
    <3>2. CASE i # m + 1
      <4>1. i \in 0 .. m /\ h[i] = g[i] /\ g[i] = IF i = 0 THEN base ELSE Escaped(g[i - 1], s[i])
        BY <2>1, <2>2, <3>2
      <4>2. i # 0 => i - 1 \in 0 .. m + 1 /\ i - 1 # m + 1 /\ h[i - 1] = g[i - 1]
        BY <2>1, <3>2
      <4> HIDE DEF h
      <4> QED
        BY <4>1, <4>2
    <3> QED
      BY <3>1, <3>2
  <2>4. Solves(h, m + 1)
    BY <2>3
  <2> HIDE DEF h, Solves
  <2> QED
    BY <2>1, <2>4
<1>3. N \in T
  <2> HIDE DEF Solves
  <2> QED
    BY <1>1, <1>2, Induct
<1>4. Escaping(s) = CHOOSE g : Solves(g, N)
  BY DEF Escaping, base
<1>5. Solves(Escaping(s), N)
  <2> HIDE DEF Solves, N
  <2> QED
    BY <1>3, <1>4
<1> QED
  BY <1>5 DEF base
LEMMA UnescapingIs ==
    ASSUME NEW s, Len(s) \in Nat
    PROVE  /\ Unescaping(s)[0] = [rbsp |-> <<>>, epb |-> <<>>]
           /\ \A i \in 1 .. Len(s) : Unescaping(s)[i] = Unescaped(Unescaping(s)[i - 1], s, i)
<1> DEFINE N == Len(s)
           base == [rbsp |-> <<>>, epb |-> <<>>]
           Solves(g, m) == g = [i \in 0 .. m |-> IF i = 0 THEN base ELSE Unescaped(g[i - 1], s, i)]
           T == {m \in Nat : \E g : Solves(g, m)}
<1> HIDE DEF base
<1>1. 0 \in T
  <2> DEFINE g == [i \in {0} |-> base]
  <2>1. Solves(g, 0)
    OBVIOUS
  <2> QED
    BY <2>1
<1>2. ASSUME NEW m \in T PROVE m + 1 \in T
  <2>1. m \in Nat
    OBVIOUS
  <2>2. PICK g : Solves(g, m)
    OBVIOUS
  <2> DEFINE h == [i \in 0 .. m + 1 |-> IF i = m + 1 THEN Unescaped(g[m], s, m + 1) ELSE g[i]]
  <2>3. ASSUME NEW i \in 0 .. m + 1
        PROVE  h[i] = IF i = 0 THEN base ELSE Unescaped(h[i - 1], s, i)
    <3>1. CASE i = m + 1
      BY <2>1, <3>1
    <3>2. CASE i # m + 1
      <4>1. i \in 0 .. m /\ h[i] = g[i] /\ g[i] = IF i = 0 THEN base ELSE Unescaped(g[i - 1], s, i)
        BY <2>1, <2>2, <3>2
      <4>2. i # 0 => i - 1 \in 0 .. m + 1 /\ i - 1 # m + 1 /\ h[i - 1] = g[i - 1]
        BY <2>1, <3>2
      <4> HIDE DEF h
      <4> QED
        BY <4>1, <4>2
    <3> QED
      BY <3>1, <3>2
  <2>4. Solves(h, m + 1)
    BY <2>3
  <2> HIDE DEF h, Solves
  <2> QED
    BY <2>1, <2>4
<1>3. N \in T
  <2> HIDE DEF Solves
  <2> QED
    BY <1>1, <1>2, Induct
<1>4. Unescaping(s) = CHOOSE g : Solves(g, N)
  BY DEF Unescaping, base
<1>5. Solves(Unescaping(s), N)
  <2> HIDE DEF Solves, N
  <2> QED
    BY <1>3, <1>4
<1> QED
  BY <1>5 DEF base
LEMMA JoinedIs ==
    ASSUME NEW s, Len(s) \in Nat
    PROVE  /\ Joined(s)[0] = <<>>
           /\ \A i \in 1 .. Len(s) : Joined(s)[i] = Joined(s)[i - 1] \o s[i]
<1> DEFINE N == Len(s)
           base == <<>>
           Solves(g, m) == g = [i \in 0 .. m |-> IF i = 0 THEN base ELSE g[i - 1] \o s[i]]
           T == {m \in Nat : \E g : Solves(g, m)}
<1> HIDE DEF base
<1>1. 0 \in T
  <2> DEFINE g == [i \in {0} |-> base]
  <2>1. Solves(g, 0)
    OBVIOUS
  <2> QED
    BY <2>1
<1>2. ASSUME NEW m \in T PROVE m + 1 \in T
  <2>1. m \in Nat
    OBVIOUS
  <2>2. PICK g : Solves(g, m)
    OBVIOUS
  <2> DEFINE h == [i \in 0 .. m + 1 |-> IF i = m + 1 THEN g[m] \o s[m + 1] ELSE g[i]]
  <2>3. ASSUME NEW i \in 0 .. m + 1
        PROVE  h[i] = IF i = 0 THEN base ELSE h[i - 1] \o s[i]
    <3>1. CASE i = m + 1
      BY <2>1, <3>1
    <3>2. CASE i # m + 1
      <4>1. i \in 0 .. m /\ h[i] = g[i] /\ g[i] = IF i = 0 THEN base ELSE g[i - 1] \o s[i]
        BY <2>1, <2>2, <3>2
      <4>2. i # 0 => i - 1 \in 0 .. m + 1 /\ i - 1 # m + 1 /\ h[i - 1] = g[i - 1]
        BY <2>1, <3>2
      <4> HIDE DEF h
      <4> QED
        BY <4>1, <4>2
    <3> QED
      BY <3>1, <3>2
  <2>4. Solves(h, m + 1)
    BY <2>3
  <2> HIDE DEF h, Solves
  <2> QED
    BY <2>1, <2>4
<1>3. N \in T
  <2> HIDE DEF Solves
  <2> QED
    BY <1>1, <1>2, Induct
<1>4. Joined(s) = CHOOSE g : Solves(g, N)
  BY DEF Joined, base
<1>5. Solves(Joined(s), N)
  <2> HIDE DEF Solves, N
  <2> QED
    BY <1>3, <1>4
<1>6. \A i \in 0 .. N : Joined(s)[i] = IF i = 0 THEN base ELSE Joined(s)[i - 1] \o s[i]
  <2> DEFINE f == Joined(s)
  <2>1. f = [i \in 0 .. N |-> IF i = 0 THEN base ELSE f[i - 1] \o s[i]]
    BY <1>5
  <2> HIDE DEF f
  <2> SUFFICES ASSUME NEW i \in 0 .. N PROVE f[i] = IF i = 0 THEN base ELSE f[i - 1] \o s[i]
    BY DEF f
  <2> QED
    BY <2>1, Zenon
<1>7. 0 \in 0 .. N
  OBVIOUS
<1>8. Joined(s)[0] = base
  BY <1>6, <1>7, Zenon
<1>9. \A i \in 1 .. N : i \in 0 .. N /\ i # 0
  OBVIOUS
<1> HIDE DEF N
<1>10. \A i \in 1 .. N : Joined(s)[i] = Joined(s)[i - 1] \o s[i]
  BY <1>6, <1>9, Zenon
<1> QED
  BY <1>8, <1>10 DEF base, N

LEMMA SumsAre ==
    ASSUME NEW s, Len(s) \in Nat
    PROVE  /\ Sums(s)[0] = 0
           /\ \A i \in 1 .. Len(s) : Sums(s)[i] = Sums(s)[i - 1] + s[i]
<1> DEFINE N == Len(s)
           base == 0
           Solves(g, m) == g = [i \in 0 .. m |-> IF i = 0 THEN base ELSE g[i - 1] + s[i]]
           T == {m \in Nat : \E g : Solves(g, m)}
<1> HIDE DEF base
<1>1. 0 \in T
  <2> DEFINE g == [i \in {0} |-> base]
  <2>1. Solves(g, 0)
    OBVIOUS
  <2> QED
    BY <2>1
<1>2. ASSUME NEW m \in T PROVE m + 1 \in T
  <2>1. m \in Nat
    OBVIOUS
  <2>2. PICK g : Solves(g, m)
    OBVIOUS
  <2> DEFINE h == [i \in 0 .. m + 1 |-> IF i = m + 1 THEN g[m] + s[m + 1] ELSE g[i]]
  <2>3. ASSUME NEW i \in 0 .. m + 1
        PROVE  h[i] = IF i = 0 THEN base ELSE h[i - 1] + s[i]
    <3>1. CASE i = m + 1
      BY <2>1, <3>1
    <3>2. CASE i # m + 1
      <4>1. i \in 0 .. m /\ h[i] = g[i] /\ g[i] = IF i = 0 THEN base ELSE g[i - 1] + s[i]
        BY <2>1, <2>2, <3>2
      <4>2. i # 0 => i - 1 \in 0 .. m + 1 /\ i - 1 # m + 1 /\ h[i - 1] = g[i - 1]
        BY <2>1, <3>2
      <4> HIDE DEF h
      <4> QED
        BY <4>1, <4>2
    <3> QED
      BY <3>1, <3>2
  <2>4. Solves(h, m + 1)
    BY <2>3
  <2> HIDE DEF h, Solves
  <2> QED
    BY <2>1, <2>4
<1>3. N \in T
  <2> HIDE DEF Solves
  <2> QED
    BY <1>1, <1>2, Induct
<1>4. Sums(s) = CHOOSE g : Solves(g, N)
  BY DEF Sums, base
<1>5. Solves(Sums(s), N)
  <2> HIDE DEF Solves, N
  <2> QED
    BY <1>3, <1>4
<1> QED
  BY <1>5 DEF base

-----------------------------------------------------------------------------
(* What has been escaped.                                                  *)

Stop(acc, b) == acc.zeros = 2 /\ b <= 3

\* Nothing in it looks like a start code.
Clean(o) == \A i \in 1 .. Len(o) - 2 : o[i] = 0 /\ o[i + 1] = 0 => o[i + 2] > 2

\* The zeros counted are those at the end.
Ends(o, z) ==
    /\ z = 0 => o = <<>> \/ o[Len(o)] # 0
    /\ z = 1 => Len(o) >= 1 /\ o[Len(o)] = 0 /\ (Len(o) > 1 => o[Len(o) - 1] # 0)
    /\ z = 2 => Len(o) >= 2 /\ o[Len(o)] = 0 /\ o[Len(o) - 1] = 0
Good(acc) == acc.out \in Seq(Byte) /\ acc.zeros \in 0 .. 2 /\ Clean(acc.out) /\ Ends(acc.out, acc.zeros)

\* p is o with b behind it, or with a three and b.
Grown(o, p, b) ==
    p \in Seq(Byte) /\ Len(p) = Len(o) + 1 /\ p[Len(o) + 1] = b /\ \A i \in 1 .. Len(o) : p[i] = o[i]
GrownTwo(o, p, b) ==
    /\ p \in Seq(Byte) /\ Len(p) = Len(o) + 2 /\ p[Len(o) + 1] = 3 /\ p[Len(o) + 2] = b
    /\ \A i \in 1 .. Len(o) : p[i] = o[i]

LEMMA GrownIs == ASSUME NEW o \in Seq(Byte), NEW b \in Byte PROVE Grown(o, o \o <<b>>, b)
<1> DEFINE t == <<b>>
           p == o \o t
<1>1. t \in Seq(Byte) /\ Len(t) = 1 /\ t[1] = b
  OBVIOUS
<1> HIDE DEF t
<1>2. /\ p \in Seq(Byte) /\ Len(p) = Len(o) + Len(t)
      /\ \A i \in 1 .. Len(o) : p[i] = o[i]
      /\ \A i \in 1 .. Len(t) : p[Len(o) + i] = t[i]
  <2>1. o \in Seq(Byte) /\ t \in Seq(Byte)
    BY <1>1
  <2> QED
    BY ONLY <2>1, CatIs
<1> HIDE DEF p
<1> QED
  BY <1>1, <1>2 DEF Grown, p, t

LEMMA GrownTwoIs == ASSUME NEW o \in Seq(Byte), NEW b \in Byte PROVE GrownTwo(o, o \o <<3, b>>, b)
<1> DEFINE t == <<3, b>>
           p == o \o t
<1>1. t \in Seq(Byte) /\ Len(t) = 2 /\ t[1] = 3 /\ t[2] = b
  <2>1. 3 \in Byte
    BY DEF Byte
  <2> QED
    BY <2>1
<1> HIDE DEF t
<1>2. /\ p \in Seq(Byte) /\ Len(p) = Len(o) + Len(t)
      /\ \A i \in 1 .. Len(o) : p[i] = o[i]
      /\ \A i \in 1 .. Len(t) : p[Len(o) + i] = t[i]
  <2>1. o \in Seq(Byte) /\ t \in Seq(Byte)
    BY <1>1
  <2> QED
    BY ONLY <2>1, CatIs
<1>3. Len(p) = Len(o) + 2 /\ p[Len(o) + 1] = 3 /\ p[Len(o) + 2] = b
  <2> HIDE DEF p
  <2> QED
    BY <1>1, <1>2
<1> QED
  BY <1>2, <1>3 DEF GrownTwo, t

LEMMA GrowsClean ==
    ASSUME NEW o \in Seq(Byte), NEW p, NEW b \in Byte, NEW z \in 0 .. 2, Clean(o), Ends(o, z),
           Grown(o, p, b), ~(z = 2 /\ b <= 3)
    PROVE  Clean(p) /\ Ends(p, IF b # 0 THEN 0 ELSE z + 1) /\ (b # 0 \/ z + 1 <= 2)
<1> DEFINE n == Len(o)
<1>1. /\ n \in Nat /\ b \in 0 .. 255 /\ \A i \in 1 .. n : o[i] \in 0 .. 255
  BY ElementOfSeq DEF Byte
<1>2. Len(p) = n + 1 /\ p[n + 1] = b /\ (\A i \in 1 .. n : p[i] = o[i]) /\ p \in Seq(Byte)
  BY DEF Grown
<1>3. \A i \in 1 .. n - 2 : o[i] = 0 /\ o[i + 1] = 0 => o[i + 2] > 2
  BY DEF Clean
<1>4. /\ z = 0 => n = 0 \/ o[n] # 0
      /\ z = 1 => n >= 1 /\ o[n] = 0 /\ (n > 1 => o[n - 1] # 0)
      /\ z = 2 => n >= 2 /\ o[n] = 0 /\ o[n - 1] = 0
  BY DEF Ends
<1>5. ASSUME NEW i \in 1 .. n - 1, p[i] = 0, p[i + 1] = 0 PROVE p[i + 2] > 2
  <2> HIDE DEF n
  <2>1. CASE i <= n - 2
    <3>1. i \in 1 .. n - 2 /\ p[i] = o[i] /\ p[i + 1] = o[i + 1] /\ p[i + 2] = o[i + 2]
      BY <1>1, <1>2, <2>1
    <3> QED
      BY <3>1, <1>3, <1>5
  <2>2. CASE i = n - 1
    <3>1. n >= 2 /\ o[n - 1] = 0 /\ o[n] = 0
      BY <1>1, <1>2, <1>5, <2>2
    <3>2. b > 3
      BY <1>1, <1>4, <3>1
    <3>3. p[i + 2] = b
      BY <1>1, <1>2, <2>2
    <3> QED
      BY <1>1, <3>2, <3>3
  <2> QED
    BY <1>1, <2>1, <2>2
<1>6. Clean(p)
  BY <1>1, <1>2, <1>5 DEF Clean
<1>7. z + 1 <= 2 \/ b # 0
  BY <1>1
<1>8. n >= 1 => p[n] = o[n]
  BY <1>1, <1>2
<1>9. Len(p) # 0 => p # <<>>
  OBVIOUS
<1> HIDE DEF n
<1>10. Ends(p, IF b # 0 THEN 0 ELSE z + 1)
  <2>1. CASE b # 0
    BY <1>1, <1>2, <2>1 DEF Ends
  <2>2. CASE b = 0
    BY <1>1, <1>2, <1>4, <1>7, <1>8, <2>2 DEF Ends
  <2> QED
    BY <2>1, <2>2
<1> QED
  BY <1>6, <1>7, <1>10

LEMMA GrowsTwoClean ==
    ASSUME NEW o \in Seq(Byte), NEW p, NEW b \in Byte, Clean(o), Ends(o, 2), GrownTwo(o, p, b)
    PROVE  Clean(p) /\ Ends(p, IF b # 0 THEN 0 ELSE 1)
<1> DEFINE n == Len(o)
<1>1. /\ n \in Nat /\ b \in 0 .. 255 /\ \A i \in 1 .. n : o[i] \in 0 .. 255
  BY ElementOfSeq DEF Byte
<1>2. /\ Len(p) = n + 2 /\ p[n + 1] = 3 /\ p[n + 2] = b /\ (\A i \in 1 .. n : p[i] = o[i])
      /\ p \in Seq(Byte)
  BY DEF GrownTwo
<1>3. \A i \in 1 .. n - 2 : o[i] = 0 /\ o[i + 1] = 0 => o[i + 2] > 2
  BY DEF Clean
<1>4. n >= 2
  BY DEF Ends
<1> HIDE DEF n
<1>5. ASSUME NEW i \in 1 .. n, p[i] = 0, p[i + 1] = 0 PROVE p[i + 2] > 2
  <2>1. CASE i <= n - 2
    <3>1. i \in 1 .. n - 2 /\ p[i] = o[i] /\ p[i + 1] = o[i + 1] /\ p[i + 2] = o[i + 2]
      BY <1>1, <1>2, <2>1
    <3> QED
      BY <3>1, <1>3, <1>5
  <2>2. CASE i = n - 1
    BY <1>1, <1>2, <2>2
  <2>3. CASE i = n
    BY <1>1, <1>2, <1>5, <2>3
  <2> QED
    BY <1>1, <2>1, <2>2, <2>3
<1>6. Clean(p)
  BY <1>1, <1>2, <1>5 DEF Clean
<1>7. Ends(p, IF b # 0 THEN 0 ELSE 1)
  BY <1>1, <1>2, <1>4 DEF Ends
<1> QED
  BY <1>6, <1>7

LEMMA EscapedIs ==
    ASSUME NEW acc, Good(acc), NEW b \in Byte
    PROVE  /\ Good(Escaped(acc, b)) /\ Len(acc.out) \in Nat
           /\ Stop(acc, b) => GrownTwo(acc.out, Escaped(acc, b).out, b)
           /\ ~Stop(acc, b) => Grown(acc.out, Escaped(acc, b).out, b)
           /\ b # 0 => Escaped(acc, b).zeros = 0
<1>1. acc.out \in Seq(Byte) /\ acc.zeros \in 0 .. 2 /\ Clean(acc.out) /\ Ends(acc.out, acc.zeros)
  BY DEF Good
<1>2. CASE Stop(acc, b)
  <2>1. Escaped(acc, b).out = acc.out \o <<3, b>> /\ Escaped(acc, b).zeros = IF b # 0 THEN 0 ELSE 1
    BY <1>2 DEF Escaped, Stop
  <2>2. GrownTwo(acc.out, Escaped(acc, b).out, b)
    BY <1>1, <2>1, GrownTwoIs
  <2>3. acc.zeros = 2
    BY <1>2 DEF Stop
  <2>4. Clean(Escaped(acc, b).out) /\ Ends(Escaped(acc, b).out, Escaped(acc, b).zeros)
    BY <1>1, <2>1, <2>2, <2>3, GrowsTwoClean
  <2>5. Escaped(acc, b).out \in Seq(Byte) /\ Escaped(acc, b).zeros \in 0 .. 2
    BY <2>1, <2>2 DEF GrownTwo
  <2> QED
    BY <1>1, <1>2, <2>1, <2>2, <2>4, <2>5 DEF Good
<1>3. CASE ~Stop(acc, b)
  <2>1. Escaped(acc, b).out = acc.out \o <<b>> /\ Escaped(acc, b).zeros = IF b # 0 THEN 0 ELSE acc.zeros + 1
    BY <1>3 DEF Escaped, Stop
  <2>2. Grown(acc.out, Escaped(acc, b).out, b)
    BY <1>1, <2>1, GrownIs
  <2>3. ~(acc.zeros = 2 /\ b <= 3)
    BY <1>3 DEF Stop
  <2>4. /\ Clean(Escaped(acc, b).out) /\ Ends(Escaped(acc, b).out, Escaped(acc, b).zeros)
        /\ b # 0 \/ acc.zeros + 1 <= 2
    BY <1>1, <2>1, <2>2, <2>3, GrowsClean
  <2>5. Escaped(acc, b).out \in Seq(Byte) /\ Escaped(acc, b).zeros \in 0 .. 2
    BY <1>1, <2>1, <2>2, <2>4 DEF Grown
  <2> QED
    BY <1>1, <1>3, <2>1, <2>2, <2>4, <2>5 DEF Good
<1> QED
  BY <1>2, <1>3

\* How many bytes the first i become, and whether one goes in before the i-th.
At(s, i) == Len(Escaping(s)[i].out)
StopAt(s, i) == Stop(Escaping(s)[i - 1], s[i])

LEMMA EscapeStep ==
    ASSUME NEW s \in Seq(Byte), NEW i \in 1 .. Len(s), Good(Escaping(s)[i - 1])
    PROVE  /\ Good(Escaping(s)[i])
           /\ StopAt(s, i) => GrownTwo(Escaping(s)[i - 1].out, Escaping(s)[i].out, s[i])
           /\ ~StopAt(s, i) => Grown(Escaping(s)[i - 1].out, Escaping(s)[i].out, s[i])
           /\ s[i] # 0 => Escaping(s)[i].zeros = 0
<1>1. Len(s) \in Nat /\ s[i] \in Byte
  BY ElementOfSeq
<1>2. Escaping(s)[i] = Escaped(Escaping(s)[i - 1], s[i])
  BY <1>1, EscapingIs
<1> QED
  BY <1>1, <1>2, EscapedIs DEF StopAt

LEMMA EscapeGood == ASSUME NEW s \in Seq(Byte) PROVE \A i \in 0 .. Len(s) : Good(Escaping(s)[i])
<1> DEFINE T == {i \in Nat : i <= Len(s) => Good(Escaping(s)[i])}
<1>1. Len(s) \in Nat
  OBVIOUS
<1>2. 0 \in T
  <2> DEFINE acc == [out |-> <<>>, zeros |-> 0]
  <2>1. Escaping(s)[0] = acc
    BY <1>1, EscapingIs
  <2>2. acc.out = <<>> /\ acc.zeros = 0 /\ Len(<<>>) = 0 /\ <<>> \in Seq(Byte)
    OBVIOUS
  <2>3. Clean(<<>>) /\ Ends(<<>>, 0)
    BY DEF Clean, Ends
  <2>4. Good(acc)
    BY <2>2, <2>3 DEF Good
  <2> QED
    BY <2>1, <2>4
<1>3. \A i \in T : i + 1 \in T
  <2> SUFFICES ASSUME NEW i \in Nat, i \in T, i + 1 <= Len(s) PROVE Good(Escaping(s)[i + 1])
    OBVIOUS
  <2>1. i + 1 \in 1 .. Len(s) /\ (i + 1) - 1 = i /\ Good(Escaping(s)[i])
    BY <1>1
  <2> QED
    BY <2>1, EscapeStep
<1>4. T = Nat
  <2> HIDE DEF T
  <2>1. T \in SUBSET Nat
    BY DEF T
  <2> QED
    BY <2>1, <1>2, <1>3, Induct
<1> QED
  BY <1>1, <1>4

\* The bytes up to each place.
LEMMA EscapeIs ==
    ASSUME NEW s \in Seq(Byte)
    PROVE  /\ Len(s) \in Nat
           /\ \A i \in 0 .. Len(s) : /\ Good(Escaping(s)[i]) /\ Escaping(s)[i].out \in Seq(Byte)
                                     /\ At(s, i) \in Nat
           /\ At(s, 0) = 0 /\ Escaping(s)[0].zeros = 0
           /\ \A i \in 1 .. Len(s) :
                 /\ StopAt(s, i) => GrownTwo(Escaping(s)[i - 1].out, Escaping(s)[i].out, s[i])
                 /\ ~StopAt(s, i) => Grown(Escaping(s)[i - 1].out, Escaping(s)[i].out, s[i])
                 /\ At(s, i) = At(s, i - 1) + (IF StopAt(s, i) THEN 2 ELSE 1)
                 /\ s[i] # 0 => Escaping(s)[i].zeros = 0
<1>1. Len(s) \in Nat
  OBVIOUS
<1>2. ASSUME NEW i \in 0 .. Len(s)
      PROVE  Good(Escaping(s)[i]) /\ Escaping(s)[i].out \in Seq(Byte) /\ At(s, i) \in Nat
  <2>1. Good(Escaping(s)[i]) /\ Escaping(s)[i].out \in Seq(Byte)
    BY EscapeGood DEF Good
  <2> QED
    BY <2>1 DEF At
<1>3. At(s, 0) = 0 /\ Escaping(s)[0].zeros = 0
  BY <1>1, EscapingIs DEF At
<1>4. ASSUME NEW i \in 1 .. Len(s)
      PROVE  /\ StopAt(s, i) => GrownTwo(Escaping(s)[i - 1].out, Escaping(s)[i].out, s[i])
             /\ ~StopAt(s, i) => Grown(Escaping(s)[i - 1].out, Escaping(s)[i].out, s[i])
             /\ At(s, i) = At(s, i - 1) + (IF StopAt(s, i) THEN 2 ELSE 1)
             /\ s[i] # 0 => Escaping(s)[i].zeros = 0
  <2>1. i - 1 \in 0 .. Len(s)
    BY <1>1
  <2>2. Good(Escaping(s)[i - 1])
    BY <2>1, EscapeGood
  <2>3. /\ StopAt(s, i) => GrownTwo(Escaping(s)[i - 1].out, Escaping(s)[i].out, s[i])
        /\ ~StopAt(s, i) => Grown(Escaping(s)[i - 1].out, Escaping(s)[i].out, s[i])
        /\ s[i] # 0 => Escaping(s)[i].zeros = 0
    BY <2>2, EscapeStep
  <2>4. At(s, i) = At(s, i - 1) + (IF StopAt(s, i) THEN 2 ELSE 1)
    <3>1. CASE StopAt(s, i)
      BY <2>3, <3>1 DEF GrownTwo, At
    <3>2. CASE ~StopAt(s, i)
      BY <2>3, <3>2 DEF Grown, At
    <3> QED
      BY <3>1, <3>2
  <2> QED
    BY <2>3, <2>4
<1> QED
  BY <1>1, <1>2, <1>3, <1>4

LEMMA EscapePrefix ==
    ASSUME NEW s \in Seq(Byte), NEW i \in 0 .. Len(s), NEW m \in i .. Len(s)
    PROVE  /\ At(s, i) + (m - i) <= At(s, m)
           /\ \A j \in 1 .. At(s, i) : Escaping(s)[m].out[j] = Escaping(s)[i].out[j]
<1> DEFINE Before(k) == /\ At(s, i) + (k - i) <= At(s, k)
                        /\ \A j \in 1 .. At(s, i) : Escaping(s)[k].out[j] = Escaping(s)[i].out[j]
           T == {len \in Nat : i + len <= Len(s) => Before(i + len)}
<1>1. Len(s) \in Nat /\ i \in Nat /\ At(s, i) \in Nat
  BY EscapeIs
<1>2. 0 \in T
  BY <1>1
<1>3. \A len \in T : len + 1 \in T
  <2> SUFFICES ASSUME NEW len \in Nat, Before(i + len), i + (len + 1) <= Len(s) PROVE Before(i + (len + 1))
    BY <1>1
  <2> DEFINE k == i + (len + 1)
  <2>1. k \in 1 .. Len(s) /\ k - 1 = i + len /\ k - 1 \in 0 .. Len(s) /\ k \in Nat
    BY <1>1
  <2> HIDE DEF k
  <2>2. /\ At(s, k) = At(s, k - 1) + (IF StopAt(s, k) THEN 2 ELSE 1) /\ At(s, k - 1) \in Nat
        /\ StopAt(s, k) => GrownTwo(Escaping(s)[k - 1].out, Escaping(s)[k].out, s[k])
        /\ ~StopAt(s, k) => Grown(Escaping(s)[k - 1].out, Escaping(s)[k].out, s[k])
    BY <2>1, EscapeIs
  <2>3. \A j \in 1 .. At(s, k - 1) : Escaping(s)[k].out[j] = Escaping(s)[k - 1].out[j]
    BY <2>2 DEF GrownTwo, Grown, At
  <2>4. /\ At(s, i) + ((k - 1) - i) <= At(s, k - 1)
        /\ \A j \in 1 .. At(s, i) : Escaping(s)[k - 1].out[j] = Escaping(s)[i].out[j]
    BY <2>1
  <2>5. At(s, i) <= At(s, k - 1) /\ At(s, i) + (k - i) <= At(s, k)
    BY <1>1, <2>1, <2>2, <2>4
  <2>6. \A j \in 1 .. At(s, i) : Escaping(s)[k].out[j] = Escaping(s)[i].out[j]
    BY <1>1, <2>2, <2>3, <2>4, <2>5
  <2> QED
    BY <2>5, <2>6 DEF k
<1>4. T = Nat
  <2> HIDE DEF T
  <2>1. T \in SUBSET Nat
    BY DEF T
  <2> QED
    BY <2>1, <1>2, <1>3, Induct
<1>5. m - i \in Nat /\ i + (m - i) = m /\ m <= Len(s)
  BY <1>1
<1>6. m - i \in T
  BY <1>4, <1>5
<1> QED
  BY <1>5, <1>6

-----------------------------------------------------------------------------
(* Unescaping takes out what was put in.                                   *)

Taken(s, i) == Unescaping(escapeRBSP(s))[At(s, i)]

LEMMA UnescapeStep ==
    ASSUME NEW s \in Seq(Byte), NEW i \in 1 .. Len(s)
    PROVE  Taken(s, i) = [rbsp |-> Append(Taken(s, i - 1).rbsp, s[i]),
                          epb |-> IF StopAt(s, i) THEN Append(Taken(s, i - 1).epb, At(s, i - 1))
                                  ELSE Taken(s, i - 1).epb]
<1> DEFINE o == escapeRBSP(s)
           a == At(s, i - 1)
           p == Escaping(s)[i - 1].out
           q == Escaping(s)[i].out
           z == Escaping(s)[i - 1].zeros
<1>1. Len(s) \in Nat /\ i \in 0 .. Len(s) /\ i - 1 \in 0 .. Len(s) /\ Len(s) \in i .. Len(s) /\ s[i] \in 0 .. 255
  BY ElementOfSeq DEF Byte
<1>2. /\ a \in Nat /\ At(s, i) = a + (IF StopAt(s, i) THEN 2 ELSE 1)
      /\ StopAt(s, i) => GrownTwo(p, q, s[i])
      /\ ~StopAt(s, i) => Grown(p, q, s[i])
      /\ Ends(p, z) /\ z \in 0 .. 2
  BY <1>1, EscapeIs DEF Good
<1>3. o = Escaping(s)[Len(s)].out /\ Len(o) = At(s, Len(s)) /\ Len(p) = a /\ Len(q) = At(s, i)
  BY DEF escapeRBSP, At
<1>4. /\ At(s, i) <= Len(o) /\ Len(o) \in Nat
      /\ \A j \in 1 .. At(s, i) : o[j] = q[j]
  <2>1. /\ At(s, i) + (Len(s) - i) <= At(s, Len(s))
        /\ \A j \in 1 .. At(s, i) : Escaping(s)[Len(s)].out[j] = Escaping(s)[i].out[j]
    BY <1>1, EscapePrefix
  <2>2. At(s, i) \in Nat /\ At(s, Len(s)) \in Nat /\ Len(s) \in 0 .. Len(s)
    BY <1>1, EscapeIs
  <2>3. At(s, i) <= Len(o) /\ Len(o) \in Nat
    <3> HIDE DEF o
    <3> QED
      BY <1>1, <1>3, <2>1, <2>2
  <2>4. \A j \in 1 .. At(s, i) : o[j] = q[j]
    BY <1>3, <2>1
  <2> QED
    BY <2>3, <2>4
<1>5. Unescaping(o)[a + 1] = Unescaped(Unescaping(o)[a], o, a + 1)
  <2>1. a + 1 \in 1 .. Len(o) /\ (a + 1) - 1 = a
    BY <1>2, <1>4
  <2> QED
    BY <2>1, <1>4, UnescapingIs
<1>6. z = 2 <=> a >= 2 /\ p[a] = 0 /\ p[a - 1] = 0
  <2>1. p = <<>> => Len(p) = 0
    OBVIOUS
  <2> HIDE DEF p, z
  <2> QED
    BY <1>2, <1>3, <2>1 DEF Ends
<1>7. Taken(s, i - 1) = Unescaping(o)[a] /\ Taken(s, i) = Unescaping(o)[At(s, i)]
  BY DEF Taken
<1>8. StopAt(s, i) <=> z = 2 /\ s[i] <= 3
  BY DEF StopAt, Stop
<1> HIDE DEF o, p, q, z, a
<1>9. CASE StopAt(s, i)
  <2>1. /\ o[a + 1] = 3 /\ o[a + 2] = s[i] /\ a >= 2 /\ o[a] = 0 /\ o[a - 1] = 0
        /\ At(s, i) = a + 2
    BY <1>2, <1>3, <1>4, <1>6, <1>8, <1>9 DEF GrownTwo
  <2>2. Prevents(o, a + 1) /\ ~Prevents(o, a + 2)
    BY <1>2, <2>1 DEF Prevents
  <2>3. Unescaping(o)[a + 1] = [rbsp |-> Unescaping(o)[a].rbsp, epb |-> Append(Unescaping(o)[a].epb, a)]
    <3>1. (a + 1) - 1 = a
      BY <1>2
    <3> QED
      BY <1>5, <2>2, <3>1 DEF Unescaped
  <2>4. Unescaping(o)[a + 2] = Unescaped(Unescaping(o)[a + 1], o, a + 2)
    <3>1. a + 2 \in 1 .. Len(o) /\ (a + 2) - 1 = a + 1
      BY <1>2, <1>4, <2>1
    <3> QED
      BY <3>1, <1>4, UnescapingIs
  <2>5. Unescaping(o)[a + 2] = [rbsp |-> Append(Unescaping(o)[a].rbsp, s[i]), epb |-> Append(Unescaping(o)[a].epb, a)]
    BY <2>1, <2>2, <2>3, <2>4 DEF Unescaped
  <2> QED
    BY <1>7, <1>9, <2>1, <2>5 DEF a
<1>10. CASE ~StopAt(s, i)
  <2>1. o[a + 1] = s[i] /\ At(s, i) = a + 1 /\ \A j \in 1 .. a : o[j] = p[j]
    BY <1>2, <1>3, <1>4, <1>10 DEF Grown
  <2>2. ~Prevents(o, a + 1)
    <3>1. SUFFICES ASSUME a + 1 > 2, o[(a + 1) - 2] = 0, o[(a + 1) - 1] = 0, o[a + 1] = 3 PROVE FALSE
      BY DEF Prevents
    <3>2. a >= 2 /\ p[a] = 0 /\ p[a - 1] = 0 /\ s[i] = 3
      <4>1. (a + 1) - 2 = a - 1 /\ (a + 1) - 1 = a /\ a - 1 \in 1 .. a /\ a \in 1 .. a
        BY <1>2, <3>1
      <4> QED
        BY <1>2, <2>1, <3>1, <4>1
    <3> QED
      BY <1>6, <1>8, <1>10, <3>2
  <2>3. Unescaping(o)[a + 1] = [rbsp |-> Append(Unescaping(o)[a].rbsp, s[i]), epb |-> Unescaping(o)[a].epb]
    BY <1>5, <2>1, <2>2 DEF Unescaped
  <2> QED
    BY <1>7, <1>10, <2>1, <2>3
<1> QED
  BY <1>9, <1>10

LEMMA AppendIs ==
    ASSUME NEW S, NEW s \in Seq(S), NEW x \in S
    PROVE  /\ Append(s, x) \in Seq(S) /\ Len(Append(s, x)) = Len(s) + 1 /\ Len(s) \in Nat
           /\ Append(s, x)[Len(s) + 1] = x
           /\ \A i \in 1 .. Len(s) : Append(s, x)[i] = s[i]
  BY AppendProperties

\* Up to each byte: what came out is what went in, one epb was noted for each byte
\* put in, at its place, and takes as many of the bytes as are in front of it.
Undone(s, i) ==
    LET e == Taken(s, i).epb
    IN  /\ Taken(s, i).rbsp \in Seq(Byte) /\ Len(Taken(s, i).rbsp) = i
        /\ \A j \in 1 .. i : Taken(s, i).rbsp[j] = s[j]
        /\ e \in Seq(Nat) /\ Len(e) = At(s, i) - i
        /\ \A j \in 1 .. Len(e) : e[j] < At(s, i) /\ e[j] - (j - 1) < i

LEMMA Undoes == ASSUME NEW s \in Seq(Byte) PROVE \A i \in 0 .. Len(s) : Undone(s, i)
<1> DEFINE T == {i \in Nat : i <= Len(s) => Undone(s, i)}
<1>1. Len(s) \in Nat /\ At(s, 0) = 0
  BY EscapeIs
<1>2. 0 \in T
  <2>1. Len(escapeRBSP(s)) \in Nat
    <3>1. Len(s) \in 0 .. Len(s)
      BY <1>1
    <3> QED
      BY <3>1, EscapeIs DEF escapeRBSP, At
  <2>2. Taken(s, 0) = [rbsp |-> <<>>, epb |-> <<>>]
    BY <1>1, <2>1, UnescapingIs DEF Taken
  <2>3. Taken(s, 0).rbsp = <<>> /\ Taken(s, 0).epb = <<>> /\ Len(<<>>) = 0 /\ <<>> \in Seq(Byte) /\ <<>> \in Seq(Nat)
    BY <2>2
  <2>4. Undone(s, 0)
    <3> DEFINE r == Taken(s, 0).rbsp
               e == Taken(s, 0).epb
    <3>4. r = <<>> /\ e = <<>>
      BY <2>2
    <3>5. At(s, 0) - 0 = 0
      BY <1>1
    <3>2. 1 .. 0 = {}
      OBVIOUS
    <3> HIDE DEF r, e
    <3>6. r \in Seq(Byte) /\ Len(r) = 0
      BY <3>4, EmptySeq
    <3>7. e \in Seq(Nat) /\ Len(e) = 0
      BY <3>4, EmptySeq
    <3>1. r \in Seq(Byte) /\ Len(r) = 0 /\ e \in Seq(Nat) /\ Len(e) = 0 /\ At(s, 0) - 0 = 0
      BY <3>5, <3>6, <3>7
    <3>3. /\ r \in Seq(Byte) /\ Len(r) = 0 /\ \A j \in 1 .. 0 : r[j] = s[j]
          /\ e \in Seq(Nat) /\ Len(e) = At(s, 0) - 0
          /\ \A j \in 1 .. Len(e) : e[j] < At(s, 0) /\ e[j] - (j - 1) < 0
      BY <3>1, <3>2
    <3> QED
      BY <3>3 DEF Undone, r, e
  <2> QED
    BY <2>4
<1>3. \A i \in T : i + 1 \in T
  <2> SUFFICES ASSUME NEW i \in Nat, Undone(s, i), i + 1 <= Len(s) PROVE Undone(s, i + 1)
    BY <1>1
  <2> DEFINE m == i + 1
             r == Taken(s, i).rbsp
             e == Taken(s, i).epb
             R == Taken(s, m).rbsp
             E == Taken(s, m).epb
             a == At(s, i)
             b == At(s, m)
  <2>1. m \in 1 .. Len(s) /\ m - 1 = i /\ i \in 0 .. Len(s) /\ m \in Nat
    BY <1>1
  <2>2. /\ r \in Seq(Byte) /\ Len(r) = i /\ \A j \in 1 .. i : r[j] = s[j]
        /\ e \in Seq(Nat) /\ Len(e) = a - i
        /\ \A j \in 1 .. Len(e) : e[j] < a /\ e[j] - (j - 1) < i
    BY DEF Undone
  <2>3. s[m] \in Byte /\ a \in Nat /\ b = a + (IF StopAt(s, m) THEN 2 ELSE 1)
    <3> HIDE DEF m
    <3> QED
      BY <2>1, EscapeIs, ElementOfSeq
  <2>4. R = Append(r, s[m]) /\ E = IF StopAt(s, m) THEN Append(e, a) ELSE e
    <3>1. Taken(s, m) = [rbsp |-> Append(Taken(s, m - 1).rbsp, s[m]),
                         epb |-> IF StopAt(s, m) THEN Append(Taken(s, m - 1).epb, At(s, m - 1))
                                 ELSE Taken(s, m - 1).epb]
      <4> HIDE DEF m
      <4> QED
        BY <2>1, UnescapeStep
    <3> HIDE DEF m
    <3> QED
      BY <2>1, <3>1
  <2> HIDE DEF m, r, e, R, E, a, b
  <2>5. R \in Seq(Byte) /\ Len(R) = m /\ \A j \in 1 .. m : R[j] = s[j]
    <3>1. /\ R \in Seq(Byte) /\ Len(R) = Len(r) + 1 /\ R[Len(r) + 1] = s[m]
          /\ \A j \in 1 .. Len(r) : R[j] = r[j]
      BY <2>2, <2>3, <2>4, AppendIs
    <3>2. Len(r) + 1 = m
      BY <2>2 DEF m
    <3> QED
      BY <2>1, <2>2, <3>1, <3>2
  <2>6. /\ E \in Seq(Nat) /\ Len(E) = b - m
        /\ \A j \in 1 .. Len(E) : E[j] < b /\ E[j] - (j - 1) < m
    <3>1. CASE StopAt(s, m)
      <4>1. /\ E \in Seq(Nat) /\ Len(E) = Len(e) + 1 /\ E[Len(e) + 1] = a /\ Len(e) \in Nat
            /\ \A j \in 1 .. Len(e) : E[j] = e[j]
        BY <2>2, <2>3, <2>4, <3>1, AppendIs
      <4>2. b = a + 2
        BY <2>3, <3>1
      <4>3. Len(E) = b - m
        BY <2>1, <2>2, <2>3, <4>1, <4>2
      <4>4. ASSUME NEW j \in 1 .. Len(E) PROVE E[j] < b /\ E[j] - (j - 1) < m
        <5>1. CASE j = Len(e) + 1
          BY <2>1, <2>2, <2>3, <4>1, <4>2, <5>1
        <5>2. CASE j # Len(e) + 1
          <6>1. j \in 1 .. Len(e) /\ E[j] = e[j] /\ e[j] \in Nat
            BY <2>2, <4>1, <5>2, ElementOfSeq
          <6> QED
            BY <2>1, <2>2, <2>3, <4>2, <6>1
        <5> QED
          BY <5>1, <5>2
      <4> QED
        BY <4>1, <4>3, <4>4
    <3>2. CASE ~StopAt(s, m)
      <4>1. E = e /\ b = a + 1
        BY <2>3, <2>4, <3>2
      <4>2. ASSUME NEW j \in 1 .. Len(e) PROVE e[j] < b /\ e[j] - (j - 1) < m
        <5>1. e[j] \in Nat /\ e[j] < a /\ e[j] - (j - 1) < i /\ Len(e) \in Nat
          BY <2>2, ElementOfSeq
        <5> QED
          BY <2>1, <2>3, <4>1, <5>1
      <4> QED
        BY <2>1, <2>2, <2>3, <4>1, <4>2
    <3> QED
      BY <3>1, <3>2
  <2>7. Undone(s, m)
    BY <2>5, <2>6 DEF Undone, R, E, b
  <2> QED
    BY <2>7 DEF m
<1>4. T = Nat
  <2> HIDE DEF T
  <2>1. T \in SUBSET Nat
    BY DEF T
  <2> QED
    BY <2>1, <1>2, <1>3, Induct
<1> QED
  BY <1>1, <1>4

LEMMA RoundTrip ==
    ASSUME NEW s \in Seq(Byte)
    PROVE  /\ unescape(escapeRBSP(s)).rbsp = s
           /\ unescape(escapeRBSP(s)) = Taken(s, Len(s))
           /\ unescape(escapeRBSP(s)).epb \in Seq(Nat)
           /\ Len(unescape(escapeRBSP(s)).epb) = At(s, Len(s)) - Len(s)
<1>1. Len(s) \in Nat /\ Len(s) \in 0 .. Len(s)
  OBVIOUS
<1>2. unescape(escapeRBSP(s)) = Taken(s, Len(s))
  BY DEF unescape, Taken, escapeRBSP, At
<1>3. Undone(s, Len(s))
  BY <1>1, Undoes
<1> DEFINE r == Taken(s, Len(s)).rbsp
<1>4. r \in Seq(Byte) /\ Len(r) = Len(s) /\ \A j \in 1 .. Len(r) : r[j] = s[j]
  BY <1>3 DEF Undone
<1> HIDE DEF r
<1>5. r = s
  BY <1>4, SeqEqual
<1> QED
  BY <1>2, <1>3, <1>5 DEF Undone, r

\* The bytes put in up to a place are those noted in front of it.
Split(s, e, i) ==
    /\ Len(e) \in Nat /\ At(s, i) - i \in 0 .. Len(e)
    /\ \A j \in 1 .. Len(e) :
          /\ e[j] \in Nat
          /\ j <= At(s, i) - i => e[j] < At(s, i) /\ e[j] - (j - 1) < i
          /\ j > At(s, i) - i => e[j] >= At(s, i) /\ e[j] - (j - 1) >= i

LEMMA EpbSplit ==
    ASSUME NEW s \in Seq(Byte), NEW i \in 0 .. Len(s)
    PROVE  Split(s, unescape(escapeRBSP(s)).epb, i)
<1> DEFINE T == {len \in Nat : i + len <= Len(s) => Split(s, Taken(s, i + len).epb, i)}
<1>1. Len(s) \in Nat /\ i \in Nat /\ At(s, i) \in Nat
  BY EscapeIs
<1>2. 0 \in T
  <2> DEFINE e == Taken(s, i).epb
  <2>1. /\ e \in Seq(Nat) /\ Len(e) = At(s, i) - i
        /\ \A j \in 1 .. Len(e) : e[j] < At(s, i) /\ e[j] - (j - 1) < i
    BY Undoes DEF Undone
  <2> HIDE DEF e
  <2>2. \A j \in 1 .. Len(e) : e[j] \in Nat
    BY <2>1, ElementOfSeq
  <2>3. Split(s, e, i)
    BY <1>1, <2>1, <2>2 DEF Split
  <2>4. i + 0 = i
    BY <1>1
  <2> QED
    BY <2>3, <2>4 DEF e
<1>3. \A len \in T : len + 1 \in T
  <2> SUFFICES ASSUME NEW len \in Nat, Split(s, Taken(s, i + len).epb, i), i + (len + 1) <= Len(s)
               PROVE  Split(s, Taken(s, i + (len + 1)).epb, i)
    BY <1>1
  <2> DEFINE m == i + (len + 1)
  <2>1. m \in 1 .. Len(s) /\ m - 1 = i + len /\ m - 1 \in 0 .. Len(s) /\ m - 1 \in i .. Len(s) /\ m \in Nat
    BY <1>1
  <2> HIDE DEF m
  <2> DEFINE e == Taken(s, m - 1).epb
             E == Taken(s, m).epb
             a == At(s, m - 1)
  <2>2. E = IF StopAt(s, m) THEN Append(e, a) ELSE e
    <3>1. Taken(s, m) = [rbsp |-> Append(Taken(s, m - 1).rbsp, s[m]), epb |-> IF StopAt(s, m) THEN Append(e, a) ELSE e]
      BY <2>1, UnescapeStep
    <3> HIDE DEF e, a
    <3> QED
      BY <3>1
  <2>3. e \in Seq(Nat) /\ Len(e) = a - (m - 1) /\ a \in Nat
    BY <2>1, Undoes, EscapeIs DEF Undone
  <2>4. Split(s, e, i)
    BY <2>1
  <2>5. At(s, i) + ((m - 1) - i) <= a
    BY <2>1, EscapePrefix
  <2> HIDE DEF e, E, a
  <2>6. CASE ~StopAt(s, m)
    BY <2>2, <2>4, <2>6 DEF m, E
  <2>7. CASE StopAt(s, m)
    <3>1. /\ E \in Seq(Nat) /\ Len(E) = Len(e) + 1 /\ E[Len(e) + 1] = a /\ Len(e) \in Nat
          /\ \A j \in 1 .. Len(e) : E[j] = e[j]
      BY <2>2, <2>3, <2>7, AppendIs
    <3>2. At(s, i) - i \in 0 .. Len(E)
      BY <1>1, <2>4, <3>1 DEF Split
    <3>3. ASSUME NEW j \in 1 .. Len(E)
          PROVE  /\ E[j] \in Nat
                 /\ j <= At(s, i) - i => E[j] < At(s, i) /\ E[j] - (j - 1) < i
                 /\ j > At(s, i) - i => E[j] >= At(s, i) /\ E[j] - (j - 1) >= i
      <4>1. CASE j = Len(e) + 1
        <5>1. E[j] = a /\ E[j] - (j - 1) = m - 1
          BY <2>1, <2>3, <3>1, <4>1
        <5>2. At(s, i) - i <= Len(e)
          BY <1>1, <2>1, <2>3, <2>5
        <5> QED
          BY <1>1, <2>1, <2>3, <2>5, <4>1, <5>1, <5>2
      <4>2. CASE j # Len(e) + 1
        <5>1. j \in 1 .. Len(e) /\ E[j] = e[j]
          BY <3>1, <4>2
        <5> QED
          BY <2>4, <5>1 DEF Split
      <4> QED
        BY <4>1, <4>2
    <3>4. Len(E) \in Nat
      BY <3>1
    <3> QED
      BY <3>2, <3>3, <3>4 DEF Split, m, E
  <2> QED
    BY <2>6, <2>7
<1>4. T = Nat
  <2> HIDE DEF T
  <2>1. T \in SUBSET Nat
    BY DEF T
  <2> QED
    BY <2>1, <1>2, <1>3, Induct
<1>5. Len(s) - i \in Nat /\ i + (Len(s) - i) = Len(s)
  BY <1>1
<1>6. Len(s) - i \in T
  BY <1>4, <1>5
<1>7. Split(s, Taken(s, Len(s)).epb, i)
  BY <1>1, <1>5, <1>6
<1> QED
  BY <1>7, RoundTrip

-----------------------------------------------------------------------------
(* Offsets into the payload and into the RBSP.                             *)

LEMMA RBSPOffsetIs ==
    ASSUME NEW e, Len(e) \in Nat, NEW off \in Nat, NEW k \in 0 .. Len(e),
           \A j \in 1 .. Len(e) : e[j] \in Nat /\ (j <= k => e[j] < off) /\ (j > k => e[j] >= off)
    PROVE  RBSPOffset(e, off) = off - k
<1> DEFINE P(i) == (\A j \in 1 .. i : e[j] < off) /\ (i < Len(e) => e[i + 1] >= off)
<1>1. P(k)
  OBVIOUS
<1>2. ASSUME NEW i \in 0 .. Len(e), P(i) PROVE i = k
  <2>1. CASE i < k
    <3>1. i + 1 \in 1 .. Len(e) /\ i + 1 <= k /\ i < Len(e)
      BY <2>1
    <3> QED
      BY <1>2, <3>1
  <2>2. CASE i > k
    <3>1. k + 1 \in 1 .. Len(e) /\ k + 1 > k /\ k + 1 \in 1 .. i
      BY <2>2
    <3> QED
      BY <1>2, <3>1
  <2> QED
    BY <2>1, <2>2
<1>3. (CHOOSE i \in 0 .. Len(e) : P(i)) = k
  <2> HIDE DEF P
  <2> QED
    BY <1>1, <1>2
<1> QED
  BY <1>3 DEF RBSPOffset

LEMMA NALOffsetIs ==
    ASSUME NEW e, Len(e) \in Nat, NEW off \in Nat, NEW k \in 0 .. Len(e),
           \A j \in 1 .. Len(e) : e[j] \in Nat /\ (j <= k => e[j] - (j - 1) <= off) /\ (j > k => e[j] - (j - 1) > off)
    PROVE  NALOffset(e, off) = off + k
<1> DEFINE P(i) == (\A j \in 1 .. i : e[j] <= off + j - 1) /\ (i < Len(e) => e[i + 1] > off + i)
<1>1. P(k)
  <2>1. ASSUME NEW j \in 1 .. k PROVE e[j] <= off + j - 1
    <3>1. j \in 1 .. Len(e) /\ j <= k
      OBVIOUS
    <3> QED
      BY <3>1
  <2>2. k < Len(e) => e[k + 1] > off + k
    <3>1. k < Len(e) => k + 1 \in 1 .. Len(e) /\ k + 1 > k /\ (k + 1) - 1 = k
      OBVIOUS
    <3> QED
      BY <3>1
  <2> QED
    BY <2>1, <2>2
<1>2. ASSUME NEW i \in 0 .. Len(e), P(i) PROVE i = k
  <2>1. CASE i < k
    <3>1. i + 1 \in 1 .. Len(e) /\ i + 1 <= k /\ i < Len(e)
      BY <2>1
    <3>2. e[i + 1] \in Nat /\ e[i + 1] - ((i + 1) - 1) <= off /\ e[i + 1] > off + i
      BY <1>2, <3>1
    <3> QED
      BY <3>1, <3>2
  <2>2. CASE i > k
    <3>1. k + 1 \in 1 .. Len(e) /\ k + 1 > k /\ k + 1 \in 1 .. i
      BY <2>2
    <3>2. e[k + 1] \in Nat /\ e[k + 1] - ((k + 1) - 1) > off /\ e[k + 1] <= off + (k + 1) - 1
      BY <1>2, <3>1
    <3> QED
      BY <3>1, <3>2
  <2> QED
    BY <2>1, <2>2
<1>3. (CHOOSE i \in 0 .. Len(e) : P(i)) = k
  <2> HIDE DEF P
  <2> QED
    BY <1>1, <1>2
<1> QED
  BY <1>3 DEF NALOffset

LEMMA OffsetsAre ==
    ASSUME NEW s \in Seq(Byte), NEW e, e = unescape(escapeRBSP(s)).epb, NEW i \in 0 .. Len(s)
    PROVE  /\ RBSPOffset(e, At(s, i)) = i
           /\ NALOffset(e, i) = (IF i = Len(s) THEN At(s, i) ELSE At(s, i + 1) - 1)
           /\ RBSPOffset(e, NALOffset(e, i)) = i
<1>1. Len(s) \in Nat /\ i \in Nat /\ At(s, i) \in Nat
  BY EscapeIs
<1>2. Split(s, e, i)
  BY EpbSplit
<1>3. RBSPOffset(e, At(s, i)) = i
  <2> DEFINE k == At(s, i) - i
  <2>1. /\ Len(e) \in Nat /\ k \in 0 .. Len(e)
        /\ \A j \in 1 .. Len(e) : e[j] \in Nat /\ (j <= k => e[j] < At(s, i)) /\ (j > k => e[j] >= At(s, i))
    BY <1>2 DEF Split
  <2>2. RBSPOffset(e, At(s, i)) = At(s, i) - k
    <3> HIDE DEF k
    <3> QED
      BY <1>1, <2>1, RBSPOffsetIs
  <2> QED
    BY <1>1, <2>2
<1>4. CASE i = Len(s)
  <2>1. Len(e) = At(s, i) - i
    BY <1>4, RoundTrip
  <2>2. /\ Len(e) \in Nat /\ Len(e) \in 0 .. Len(e)
        /\ \A j \in 1 .. Len(e) : /\ e[j] \in Nat /\ (j <= Len(e) => e[j] - (j - 1) <= i)
                                  /\ j > Len(e) => e[j] - (j - 1) > i
    BY <1>1, <1>2, <2>1 DEF Split
  <2>3. NALOffset(e, i) = i + Len(e)
    BY <1>1, <2>2, NALOffsetIs
  <2>4. NALOffset(e, i) = At(s, i)
    BY <1>1, <2>1, <2>3
  <2> QED
    BY <1>3, <1>4, <2>4
<1>5. CASE i # Len(s)
  <2> DEFINE m == i + 1
             b == At(s, m)
             k == b - m
  <2>1. m \in 1 .. Len(s) /\ m \in 0 .. Len(s) /\ m - 1 = i
    BY <1>1, <1>5
  <2> HIDE DEF m
  <2>2. b \in Nat /\ b = At(s, i) + (IF StopAt(s, m) THEN 2 ELSE 1)
    BY <2>1, EscapeIs
  <2>3. Split(s, e, m)
    BY <2>1, EpbSplit
  <2> HIDE DEF b
  <2>4. /\ Len(e) \in Nat /\ k \in 0 .. Len(e)
        /\ \A j \in 1 .. Len(e) : e[j] \in Nat /\ (j <= k => e[j] - (j - 1) <= i) /\ (j > k => e[j] - (j - 1) > i)
    BY <1>1, <2>1, <2>2, <2>3 DEF Split, b
  <2> HIDE DEF k
  <2>5. NALOffset(e, i) = i + k
    BY <1>1, <2>4, NALOffsetIs
  <2>6. NALOffset(e, i) = b - 1 /\ b - 1 \in Nat
    BY <1>1, <2>1, <2>2, <2>5 DEF k
  <2>7. RBSPOffset(e, b - 1) = i
    <3>1. CASE ~StopAt(s, m)
      <4>1. b - 1 = At(s, i)
        BY <1>1, <2>2, <3>1
      <4> QED
        BY <1>3, <4>1
    <3>2. CASE StopAt(s, m)
      <4>1. b = At(s, i) + 2 /\ k = (At(s, i) - i) + 1 /\ b - 1 = At(s, i) + 1
        BY <1>1, <2>1, <2>2, <3>2 DEF k
      <4>2. ASSUME NEW j \in 1 .. Len(e)
            PROVE  e[j] \in Nat /\ (j <= k => e[j] < b - 1) /\ (j > k => e[j] >= b - 1)
        <5>1. /\ e[j] \in Nat
              /\ j <= At(s, i) - i => e[j] < At(s, i)
              /\ j > k => e[j] >= b
          BY <1>2, <2>3 DEF Split, b, k
        <5>2. CASE j = k
          <6>1. e[j] - (j - 1) <= i
            BY <2>4, <5>2
          <6>2. e[j] <= At(s, i)
            BY <1>1, <2>1, <4>1, <5>1, <5>2, <6>1
          <6> QED
            BY <1>1, <4>1, <5>1, <5>2, <6>2
        <5>3. CASE j # k
          BY <1>1, <2>4, <4>1, <5>1, <5>3
        <5> QED
          BY <5>2, <5>3
      <4>3. RBSPOffset(e, b - 1) = (b - 1) - k
        BY <2>4, <2>6, <4>2, RBSPOffsetIs
      <4> QED
        BY <1>1, <4>1, <4>3
    <3> QED
      BY <3>1, <3>2
  <2> QED
    BY <1>3, <1>5, <2>6, <2>7 DEF b, m
<1> QED
  BY <1>4, <1>5

-----------------------------------------------------------------------------
(* Sequences behind each other.                                            *)

LEMMA SeqFrom ==
    ASSUME NEW n \in Nat, NEW S, NEW f, f = [i \in 1 .. n |-> f[i]], \A i \in 1 .. n : f[i] \in S
    PROVE  f \in Seq(S) /\ Len(f) = n
<1>1. f \in [1 .. n -> S]
  OBVIOUS
<1>2. f \in Seq(S)
  BY <1>1, SeqDef
<1>3. DOMAIN f = 1 .. Len(f) /\ Len(f) \in Nat
  BY <1>2, LenProperties
<1>4. 1 .. n = 1 .. Len(f)
  BY <1>1, <1>3
<1> QED
  BY <1>2, <1>3, <1>4

LEMMA JoinedTyped ==
    ASSUME NEW S, NEW seqs \in Seq(Seq(S))
    PROVE  \A k \in 0 .. Len(seqs) : Joined(seqs)[k] \in Seq(S)
<1> DEFINE T == {k \in Nat : k <= Len(seqs) => Joined(seqs)[k] \in Seq(S)}
<1>1. Len(seqs) \in Nat
  OBVIOUS
<1>2. 0 \in T
  <2>1. Joined(seqs)[0] = <<>>
    BY <1>1, JoinedIs
  <2>2. <<>> \in Seq(S)
    BY EmptySeq
  <2> QED
    BY <2>1, <2>2
<1>3. \A k \in T : k + 1 \in T
  <2> SUFFICES ASSUME NEW k \in Nat, Joined(seqs)[k] \in Seq(S), k + 1 <= Len(seqs)
               PROVE  Joined(seqs)[k + 1] \in Seq(S)
    BY <1>1
  <2> DEFINE m == k + 1
  <2>1. m \in 1 .. Len(seqs) /\ m - 1 = k
    BY <1>1
  <2> HIDE DEF m
  <2>2. Joined(seqs)[m] = Joined(seqs)[m - 1] \o seqs[m]
    BY <1>1, <2>1, JoinedIs
  <2>3. seqs[m] \in Seq(S)
    BY <2>1, ElementOfSeq
  <2>4. Joined(seqs)[m - 1] \in Seq(S)
    BY <2>1
  <2>5. Joined(seqs)[m - 1] \o seqs[m] \in Seq(S)
    BY ONLY <2>3, <2>4, ConcatProperties
  <2> QED
    BY <2>2, <2>5 DEF m
<1>4. T = Nat
  <2> HIDE DEF T
  <2>1. T \in SUBSET Nat
    BY DEF T
  <2> QED
    BY <2>1, <1>2, <1>3, Induct
<1> QED
  BY <1>1, <1>4

\* One more.
LEMMA JoinedStep ==
    ASSUME NEW S, NEW seqs \in Seq(Seq(S)), NEW k \in 1 .. Len(seqs)
    PROVE  /\ Joined(seqs)[k - 1] \in Seq(S) /\ Joined(seqs)[k] \in Seq(S) /\ seqs[k] \in Seq(S)
           /\ Len(seqs[k]) \in Nat /\ Len(Joined(seqs)[k - 1]) \in Nat
           /\ Len(Joined(seqs)[k]) = Len(Joined(seqs)[k - 1]) + Len(seqs[k])
           /\ \A j \in 1 .. Len(Joined(seqs)[k - 1]) : Joined(seqs)[k][j] = Joined(seqs)[k - 1][j]
           /\ \A j \in 1 .. Len(seqs[k]) : Joined(seqs)[k][Len(Joined(seqs)[k - 1]) + j] = seqs[k][j]
<1>1. Len(seqs) \in Nat /\ k \in 0 .. Len(seqs) /\ k - 1 \in 0 .. Len(seqs) /\ seqs[k] \in Seq(S)
  BY ElementOfSeq
<1>2. Joined(seqs)[k - 1] \in Seq(S) /\ Joined(seqs)[k] \in Seq(S)
  BY <1>1, JoinedTyped
<1>3. Joined(seqs)[k] = Joined(seqs)[k - 1] \o seqs[k]
  BY <1>1, JoinedIs
<1> DEFINE a == Joined(seqs)[k - 1]
           b == seqs[k]
           c == Joined(seqs)[k]
<1>4. a \in Seq(S) /\ b \in Seq(S) /\ c = a \o b
  BY <1>1, <1>2, <1>3
<1> HIDE DEF a, b, c
<1>5. /\ Len(c) = Len(a) + Len(b) /\ Len(a) \in Nat /\ Len(b) \in Nat
      /\ \A j \in 1 .. Len(a) : c[j] = a[j]
      /\ \A j \in 1 .. Len(b) : c[Len(a) + j] = b[j]
  BY ONLY <1>4, CatIs
<1> QED
  BY <1>1, <1>2, <1>5 DEF a, b, c

LEMMA JoinedPrefix ==
    ASSUME NEW S, NEW seqs \in Seq(Seq(S)), NEW k \in 0 .. Len(seqs), NEW m \in k .. Len(seqs)
    PROVE  /\ Len(Joined(seqs)[k]) <= Len(Joined(seqs)[m])
           /\ \A j \in 1 .. Len(Joined(seqs)[k]) : Joined(seqs)[m][j] = Joined(seqs)[k][j]
<1> DEFINE n == Len(Joined(seqs)[k])
           Before(i) == n <= Len(Joined(seqs)[i]) /\ \A j \in 1 .. n : Joined(seqs)[i][j] = Joined(seqs)[k][j]
           T == {len \in Nat : k + len <= Len(seqs) => Before(k + len)}
<1>1. Len(seqs) \in Nat /\ k \in Nat /\ n \in Nat
  <2>1. Joined(seqs)[k] \in Seq(S)
    BY JoinedTyped
  <2> QED
    BY <2>1
<1>2. 0 \in T
  BY <1>1
<1>3. \A len \in T : len + 1 \in T
  <2> SUFFICES ASSUME NEW len \in Nat, Before(k + len), k + (len + 1) <= Len(seqs) PROVE Before(k + (len + 1))
    BY <1>1
  <2> DEFINE i == k + (len + 1)
  <2>1. i \in 1 .. Len(seqs) /\ i - 1 = k + len
    BY <1>1
  <2> HIDE DEF i, n
  <2> DEFINE p == Joined(seqs)[i - 1]
             q == Joined(seqs)[i]
  <2>2. Len(p) \in Nat /\ Len(q) = Len(p) + Len(seqs[i]) /\ Len(seqs[i]) \in Nat /\ \A j \in 1 .. Len(p) : q[j] = p[j]
    <3>1. seqs \in Seq(Seq(S)) /\ i \in 1 .. Len(seqs)
      BY <2>1
    <3> QED
      BY ONLY <3>1, JoinedStep
  <2>3. n <= Len(p) /\ \A j \in 1 .. n : p[j] = Joined(seqs)[k][j]
    BY <2>1
  <2> HIDE DEF p, q
  <2>4. n <= Len(q)
    BY <1>1, <2>2, <2>3
  <2>5. \A j \in 1 .. n : q[j] = Joined(seqs)[k][j]
    <3> SUFFICES ASSUME NEW j \in 1 .. n PROVE q[j] = Joined(seqs)[k][j]
      OBVIOUS
    <3>1. j \in 1 .. Len(p)
      BY <1>1, <2>2, <2>3
    <3> QED
      BY <2>2, <2>3, <3>1
  <2> QED
    BY <2>4, <2>5 DEF i, q
<1>4. T = Nat
  <2> HIDE DEF T
  <2>1. T \in SUBSET Nat
    BY DEF T
  <2> QED
    BY <2>1, <1>2, <1>3, Induct
<1>5. m - k \in Nat /\ k + (m - k) = m /\ m <= Len(seqs)
  BY <1>1
<1>6. m - k \in T
  BY <1>4, <1>5
<1> QED
  BY <1>5, <1>6

\* Each is found in all of them.
LEMMA PieceIs ==
    ASSUME NEW S, NEW seqs \in Seq(Seq(S)), NEW k \in 1 .. Len(seqs)
    PROVE  /\ Flat(seqs) \in Seq(S) /\ seqs[k] \in Seq(S)
           /\ Len(Joined(seqs)[k - 1]) \in Nat /\ Len(seqs[k]) \in Nat /\ Len(Flat(seqs)) \in Nat
           /\ Len(Joined(seqs)[k]) = Len(Joined(seqs)[k - 1]) + Len(seqs[k])
           /\ Len(Joined(seqs)[k]) <= Len(Flat(seqs))
           /\ \A j \in 1 .. Len(seqs[k]) : Flat(seqs)[Len(Joined(seqs)[k - 1]) + j] = seqs[k][j]
<1>1. Len(seqs) \in Nat /\ k \in 0 .. Len(seqs) /\ Len(seqs) \in k .. Len(seqs) /\ Len(seqs) \in 0 .. Len(seqs)
  OBVIOUS
<1> DEFINE a == Joined(seqs)[k - 1]
           b == seqs[k]
           c == Joined(seqs)[k]
           all == Flat(seqs)
<1>2. /\ c \in Seq(S) /\ b \in Seq(S) /\ Len(b) \in Nat /\ Len(a) \in Nat /\ Len(c) = Len(a) + Len(b)
      /\ \A j \in 1 .. Len(b) : c[Len(a) + j] = b[j]
  BY JoinedStep
<1>3. all \in Seq(S)
  BY <1>1, JoinedTyped DEF Flat
<1>4. Len(c) <= Len(all) /\ \A j \in 1 .. Len(c) : all[j] = c[j]
  <2>1. all = Joined(seqs)[Len(seqs)]
    BY DEF Flat
  <2> QED
    BY <1>1, <2>1, JoinedPrefix
<1> HIDE DEF a, b, c, all
<1>5. \A j \in 1 .. Len(b) : all[Len(a) + j] = b[j]
  <2> SUFFICES ASSUME NEW j \in 1 .. Len(b) PROVE all[Len(a) + j] = b[j]
    OBVIOUS
  <2>1. Len(a) + j \in 1 .. Len(c)
    BY <1>2
  <2> QED
    BY <1>2, <1>4, <2>1
<1>6. Len(all) \in Nat
  BY <1>3
<1> QED
  BY <1>2, <1>3, <1>4, <1>5, <1>6 DEF a, b, c, all

-----------------------------------------------------------------------------
(* Where the substreams begin.                                             *)

LEMMA ZerosAre ==
    ASSUME NEW s \in Seq(Byte), NEW i \in 1 .. Len(s)
    PROVE  Escaping(s)[i].zeros = IF s[i] # 0 THEN 0 ELSE IF StopAt(s, i) THEN 1 ELSE Escaping(s)[i - 1].zeros + 1
<1>1. Len(s) \in Nat
  OBVIOUS
<1>2. Escaping(s)[i] = Escaped(Escaping(s)[i - 1], s[i])
  BY <1>1, EscapingIs
<1> QED
  BY <1>2 DEF Escaped, StopAt, Stop

\* Unread a header that ends on a set bit the data is escaped as if alone.
LEMMA Splice ==
    ASSUME NEW h \in Seq(Byte), NEW f \in Seq(Byte), h # <<>>, h[Len(h)] # 0
    PROVE  /\ h \o f \in Seq(Byte) /\ Len(h \o f) = Len(h) + Len(f) /\ Len(h) \in Nat /\ Len(f) \in Nat
           /\ Escaping(h \o f)[Len(h)].zeros = 0
           /\ \A j \in 0 .. Len(f) : /\ Escaping(h \o f)[Len(h) + j].zeros = Escaping(f)[j].zeros
                                     /\ At(h \o f, Len(h) + j) = At(h \o f, Len(h)) + At(f, j)
<1> DEFINE s == h \o f
           H == Len(h)
           Same(j) == /\ Escaping(s)[H + j].zeros = Escaping(f)[j].zeros
                      /\ At(s, H + j) = At(s, H) + At(f, j)
           T == {j \in Nat : j <= Len(f) => Same(j)}
<1>1. /\ s \in Seq(Byte) /\ Len(s) = H + Len(f) /\ H \in Nat /\ Len(f) \in Nat
      /\ \A i \in 1 .. H : s[i] = h[i]
      /\ \A i \in 1 .. Len(f) : s[H + i] = f[i]
  <2>1. h \in Seq(Byte) /\ f \in Seq(Byte)
    OBVIOUS
  <2> QED
    BY ONLY <2>1, CatIs
<1>2. H >= 1
  BY EmptySeq
<1> HIDE DEF s, H
<1>3. Escaping(s)[H].zeros = 0
  <2>1. H \in 1 .. Len(s) /\ s[H] # 0
    BY <1>1, <1>2 DEF H
  <2> QED
    BY <1>1, <2>1, EscapeIs
<1>4. At(s, H) \in Nat /\ At(f, 0) = 0 /\ Escaping(f)[0].zeros = 0
  <2>1. H \in 0 .. Len(s)
    BY <1>1
  <2> QED
    BY <1>1, <2>1, EscapeIs
<1>5. 0 \in T
  <2>1. H + 0 = H
    BY <1>1
  <2>2. Same(0)
    BY <1>3, <1>4, <2>1
  <2> QED
    BY <2>2
<1>6. \A j \in T : j + 1 \in T
  <2> SUFFICES ASSUME NEW j \in Nat, Same(j), j + 1 <= Len(f) PROVE Same(j + 1)
    BY <1>1
  <2> DEFINE m == j + 1
             k == H + m
  <2>1. /\ m \in 1 .. Len(f) /\ m - 1 = j /\ k \in 1 .. Len(s) /\ k - 1 = H + j
        /\ s[k] = f[m] /\ j \in 0 .. Len(f)
    BY <1>1
  <2> HIDE DEF m, k
  <2>2. StopAt(s, k) <=> StopAt(f, m)
    BY <2>1 DEF StopAt, Stop
  <2>3. Escaping(s)[k].zeros = Escaping(f)[m].zeros
    <3>1. Escaping(s)[k].zeros = IF s[k] # 0 THEN 0 ELSE IF StopAt(s, k) THEN 1 ELSE Escaping(s)[k - 1].zeros + 1
      BY <1>1, <2>1, ZerosAre
    <3>2. Escaping(f)[m].zeros = IF f[m] # 0 THEN 0 ELSE IF StopAt(f, m) THEN 1 ELSE Escaping(f)[m - 1].zeros + 1
      BY <2>1, ZerosAre
    <3>3. Escaping(s)[k - 1].zeros = Escaping(f)[m - 1].zeros
      BY <2>1
    <3> QED
      BY <2>1, <2>2, <3>1, <3>2, <3>3
  <2>4. At(s, k) = At(s, H) + At(f, m)
    <3>1. At(s, k) = At(s, k - 1) + (IF StopAt(s, k) THEN 2 ELSE 1)
      BY <1>1, <2>1, EscapeIs
    <3>2. At(f, m) = At(f, j) + (IF StopAt(f, m) THEN 2 ELSE 1) /\ At(f, j) \in Nat
      BY <2>1, EscapeIs
    <3>3. At(s, k - 1) = At(s, H) + At(f, j)
      BY <2>1
    <3> QED
      BY <1>4, <2>2, <3>1, <3>2, <3>3
  <2> QED
    BY <2>3, <2>4 DEF m, k
<1>7. T = Nat
  <2> HIDE DEF T
  <2>1. T \in SUBSET Nat
    BY DEF T
  <2> QED
    BY <2>1, <1>5, <1>6, Induct
<1>8. ASSUME NEW j \in 0 .. Len(f) PROVE Same(j)
  <2>1. j \in T /\ j <= Len(f)
    BY <1>1, <1>7
  <2> QED
    BY <2>1
<1> QED
  BY <1>1, <1>3, <1>8 DEF s, H

\* The bytes the first k substreams become.
Upto(subs, k) == At(Flat(subs), Len(Joined(subs)[k]))

LEMMA UptoIs ==
    ASSUME NEW subs \in Seq(Seq(Byte))
    PROVE  /\ Upto(subs, 0) = 0 /\ Flat(subs) \in Seq(Byte)
           /\ \A k \in 0 .. Len(subs) : /\ Upto(subs, k) \in Nat
                                        /\ Len(Joined(subs)[k]) \in 0 .. Len(Flat(subs))
<1>1. Len(subs) \in Nat /\ Len(subs) \in 0 .. Len(subs)
  OBVIOUS
<1>2. Flat(subs) \in Seq(Byte)
  BY <1>1, JoinedTyped DEF Flat
<1>3. Joined(subs)[0] = <<>>
  BY <1>1, JoinedIs
<1>4. Upto(subs, 0) = 0
  BY <1>2, <1>3, EscapeIs DEF Upto
<1>5. ASSUME NEW k \in 0 .. Len(subs)
      PROVE  Len(Joined(subs)[k]) \in 0 .. Len(Flat(subs)) /\ Upto(subs, k) \in Nat
  <2>1. Len(subs) \in k .. Len(subs)
    BY <1>1
  <2>2. Joined(subs)[k] \in Seq(Byte)
    BY JoinedTyped
  <2>3. Len(Joined(subs)[k]) <= Len(Flat(subs))
    BY <2>1, JoinedPrefix DEF Flat
  <2>4. Len(Joined(subs)[k]) \in 0 .. Len(Flat(subs))
    BY <1>2, <2>2, <2>3
  <2> QED
    BY <1>2, <2>4, EscapeIs DEF Upto
<1> QED
  BY <1>2, <1>4, <1>5

LEMMA EntryPointsAre ==
    ASSUME NEW subs \in Seq(Seq(Byte)), subs # <<>>
    PROVE  /\ Len(EntryPoints(escapedSizes(subs))) = Len(subs) - 1
           /\ \A i \in 1 .. Len(subs) - 1 : EntryPoints(escapedSizes(subs))[i] = Upto(subs, i)
<1> DEFINE n == Len(subs) - 1
           sizes == escapedSizes(subs)
           T == {k \in Nat : k <= n => Sums(sizes)[k] = Upto(subs, k)}
<1>1. n \in Nat /\ Len(subs) \in Nat /\ Len(subs) = n + 1
  BY EmptySeq
<1>2. sizes = [i \in 1 .. n |-> Upto(subs, i) - Upto(subs, i - 1)]
  BY DEF escapedSizes, Upto, At
<1> HIDE DEF n, sizes
<1>3. Len(sizes) = n
  <2>1. sizes = [i \in 1 .. n |-> sizes[i]] /\ \A i \in 1 .. n : sizes[i] \in {sizes[j] : j \in 1 .. n}
    BY <1>2
  <2> QED
    BY <1>1, <2>1, SeqFrom
<1>4. \A k \in 0 .. n : Upto(subs, k) \in Nat
  BY <1>1, UptoIs
<1>5. 0 \in T
  <2>1. Sums(sizes)[0] = 0
    BY <1>1, <1>3, SumsAre
  <2> QED
    BY <2>1, UptoIs
<1>6. \A k \in T : k + 1 \in T
  <2> SUFFICES ASSUME NEW k \in Nat, Sums(sizes)[k] = Upto(subs, k), k + 1 <= n
               PROVE  Sums(sizes)[k + 1] = Upto(subs, k + 1)
    BY <1>1
  <2> DEFINE m == k + 1
  <2>1. m \in 1 .. n /\ m - 1 = k /\ m \in 0 .. n /\ k \in 0 .. n
    BY <1>1
  <2> HIDE DEF m
  <2>2. Sums(sizes)[m] = Sums(sizes)[m - 1] + sizes[m]
    BY <1>1, <1>3, <2>1, SumsAre
  <2>3. sizes[m] = Upto(subs, m) - Upto(subs, k)
    BY <1>2, <2>1
  <2>4. Sums(sizes)[m] = Upto(subs, m)
    BY <1>4, <2>1, <2>2, <2>3
  <2> QED
    BY <2>4 DEF m
<1>7. T = Nat
  <2> HIDE DEF T
  <2>1. T \in SUBSET Nat
    BY DEF T
  <2> QED
    BY <2>1, <1>5, <1>6, Induct
<1>8. \A i \in 1 .. n : Sums(sizes)[i] = Upto(subs, i)
  BY <1>1, <1>7
<1> DEFINE entry == EntryPoints(sizes)
<1>9. entry = [i \in 1 .. n |-> Sums(sizes)[i]]
  BY <1>3 DEF EntryPoints
<1> HIDE DEF entry
<1>10. Len(entry) = n
  <2>1. entry = [i \in 1 .. n |-> entry[i]] /\ \A i \in 1 .. n : entry[i] \in {entry[j] : j \in 1 .. n}
    BY <1>9
  <2> QED
    BY <1>1, <2>1, SeqFrom
<1> QED
  BY <1>8, <1>9, <1>10 DEF n, sizes, entry

\* A unit of the assumption.
Usual(u) ==
    /\ EndsOnASetBit(u.hdr) /\ u.subs \in Seq(Seq(Byte)) /\ u.subs # <<>>
    /\ \A i \in 1 .. Len(u.subs) : EndsOnASetBit(u.subs[i])

LEMMA RbspIs ==
    ASSUME NEW u, Usual(u)
    PROVE  /\ EndsOnASetBit(Rbsp(u)) /\ Len(Rbsp(u)) = Len(u.hdr) + Len(Flat(u.subs))
           /\ Rbsp(u) = u.hdr \o Flat(u.subs) /\ Flat(u.subs) \in Seq(Byte) /\ u.hdr \in Seq(Byte)
<1> DEFINE h == u.hdr
           f == Flat(u.subs)
           s == h \o f
           n == Len(u.subs)
           b == u.subs[n]
           p == Len(Joined(u.subs)[n - 1])
<1>1. h \in Seq(Byte) /\ h # <<>> /\ n \in Nat /\ n >= 1 /\ u.subs \in Seq(Seq(Byte))
  BY EmptySeq DEF Usual, EndsOnASetBit
<1>2. b \in Seq(Byte) /\ b # <<>> /\ b[Len(b)] # 0
  BY <1>1 DEF Usual, EndsOnASetBit
<1>3. Len(b) \in Nat /\ Len(b) >= 1
  <2> HIDE DEF b
  <2> QED
    BY <1>2, EmptySeq
<1>4. /\ f \in Seq(Byte) /\ Len(f) = p + Len(b) /\ p \in Nat /\ f[p + Len(b)] = b[Len(b)]
  <2>1. n \in 1 .. n
    BY <1>1
  <2>2. /\ f \in Seq(Byte) /\ p \in Nat /\ \A j \in 1 .. Len(b) : f[p + j] = b[j]
        /\ Len(Joined(u.subs)[n]) = p + Len(b)
    BY <1>1, <2>1, PieceIs
  <2>3. f = Joined(u.subs)[n]
    BY DEF Flat
  <2>4. Len(b) \in 1 .. Len(b)
    BY <1>3
  <2> QED
    BY <2>2, <2>3, <2>4
<1> HIDE DEF h, f, n, b, p
<1>5. /\ s \in Seq(Byte) /\ Len(s) = Len(h) + Len(f) /\ Len(h) \in Nat
      /\ \A i \in 1 .. Len(f) : s[Len(h) + i] = f[i]
  <2>1. h \in Seq(Byte) /\ f \in Seq(Byte)
    BY <1>1, <1>4
  <2> QED
    BY ONLY <2>1, CatIs
<1> HIDE DEF s
<1>6. s[Len(s)] # 0
  <2>1. Len(f) \in 1 .. Len(f)
    BY <1>3, <1>4
  <2> QED
    BY <1>2, <1>4, <1>5, <2>1
<1>7. s # <<>>
  <2>1. Len(s) # 0
    BY <1>3, <1>4, <1>5
  <2> QED
    BY <2>1
<1>8. EndsOnASetBit(s)
  BY <1>5, <1>6, <1>7 DEF EndsOnASetBit
<1> QED
  BY <1>1, <1>4, <1>5, <1>8 DEF Rbsp, s, h, f

LEMMA StartsAre ==
    ASSUME NEW u, Usual(u)
    PROVE  substreamStarts(unescape(escapeRBSP(Rbsp(u))), Len(u.hdr), EntryPoints(escapedSizes(u.subs)))
               = [i \in 1 .. Len(u.subs) |-> Len(u.hdr) + Len(Joined(u.subs)[i - 1])]
<1> DEFINE h == u.hdr
           f == Flat(u.subs)
           s == Rbsp(u)
           subs == u.subs
           H == Len(h)
           n == Len(subs)
           e == unescape(escapeRBSP(s)).epb
           entry == EntryPoints(escapedSizes(subs))
           R(i) == RBSPOffset(e, NALOffset(e, H) + entry[i])
           tail == [i \in 1 .. Len(entry) |-> R(i)]
           want == [i \in 1 .. n |-> H + Len(Joined(subs)[i - 1])]
<1>1. /\ h \in Seq(Byte) /\ h # <<>> /\ h[H] # 0 /\ f \in Seq(Byte) /\ s = h \o f
      /\ subs \in Seq(Seq(Byte)) /\ subs # <<>> /\ n \in Nat /\ n >= 1
  <2>1. h # <<>> /\ h[H] # 0 /\ subs \in Seq(Seq(Byte)) /\ subs # <<>>
    BY DEF Usual, EndsOnASetBit
  <2>2. h \in Seq(Byte) /\ f \in Seq(Byte) /\ s = h \o f
    BY RbspIs
  <2>3. n \in Nat /\ n >= 1
    <3> HIDE DEF subs
    <3> QED
      BY <2>1, EmptySeq
  <2> QED
    BY <2>1, <2>2, <2>3
<1>2. /\ s \in Seq(Byte) /\ Len(s) = H + Len(f) /\ H \in Nat /\ Len(f) \in Nat
      /\ Escaping(s)[H].zeros = 0
      /\ \A j \in 0 .. Len(f) : At(s, H + j) = At(s, H) + At(f, j)
  <2> HIDE DEF h, f, s
  <2> QED
    BY <1>1, Splice
<1>3. Len(entry) = n - 1 /\ \A i \in 1 .. n - 1 : entry[i] = Upto(subs, i)
  <2> HIDE DEF subs
  <2> QED
    BY <1>1, EntryPointsAre
<1>4. H \in 0 .. Len(s) /\ At(s, H) \in Nat
  <2>1. H \in 0 .. Len(s)
    <3> HIDE DEF h, f, s, H
    <3> QED
      BY <1>2
  <2> QED
    BY <1>2, <2>1, EscapeIs
<1> HIDE DEF s
<1>5. NALOffset(e, H) = At(s, H)
  <2> HIDE DEF H, e
  <2>1. NALOffset(e, H) = IF H = Len(s) THEN At(s, H) ELSE At(s, H + 1) - 1
    BY <1>2, <1>4, OffsetsAre DEF e
  <2>2. H # Len(s) => At(s, H + 1) = At(s, H) + 1
    <3> SUFFICES ASSUME H # Len(s) PROVE At(s, H + 1) = At(s, H) + 1
      OBVIOUS
    <3>1. H + 1 \in 1 .. Len(s) /\ (H + 1) - 1 = H
      BY <1>2, <1>4
    <3>2. ~StopAt(s, H + 1)
      BY <1>2, <3>1 DEF StopAt, Stop
    <3> QED
      BY <1>2, <3>1, <3>2, EscapeIs
  <2> QED
    BY <1>4, <2>1, <2>2
<1>6. ASSUME NEW i \in 1 .. n - 1
      PROVE  R(i) = H + Len(Joined(subs)[i])
  <2> DEFINE k == Len(Joined(subs)[i])
  <2>1. i \in 0 .. n /\ k \in 0 .. Len(f)
    <3>1. i \in 0 .. n
      BY <1>1
    <3> QED
      BY <1>1, <3>1, UptoIs
  <2>2. entry[i] = At(f, k)
    BY <1>3 DEF Upto
  <2> HIDE DEF H, e, f, entry, k
  <2>3. NALOffset(e, H) + entry[i] = At(s, H + k) /\ H + k \in 0 .. Len(s)
    BY <1>2, <1>5, <2>1, <2>2
  <2>4. RBSPOffset(e, At(s, H + k)) = H + k
    BY <1>2, <2>3, OffsetsAre DEF e
  <2> QED
    BY <2>3, <2>4 DEF k
<1>7. substreamStarts(unescape(escapeRBSP(s)), H, entry) = <<H>> \o tail
  BY DEF substreamStarts
<1>8. Len(Joined(subs)[0]) = 0
  <2>1. Joined(subs)[0] = <<>>
    BY <1>1, JoinedIs
  <2> QED
    BY <2>1
<1>9. \A i \in 0 .. n : Len(Joined(subs)[i]) \in Nat
  BY <1>1, UptoIs
<1> DEFINE J(i) == Len(Joined(subs)[i])
<1> HIDE DEF H, e, f, h, entry, n, subs, R, J
<1>10. tail \in Seq(Nat) /\ Len(tail) = n - 1 /\ \A i \in 1 .. n - 1 : tail[i] = H + J(i)
  <2>1. tail = [i \in 1 .. n - 1 |-> H + J(i)]
    BY <1>3, <1>6 DEF J
  <2>2. \A i \in 1 .. n - 1 : H + J(i) \in Nat
    BY <1>1, <1>2, <1>9 DEF J
  <2> HIDE DEF tail
  <2>3. n - 1 \in Nat
    BY <1>1
  <2>4. tail \in Seq(Nat) /\ Len(tail) = n - 1
    BY <2>1, <2>2, <2>3, SeqFrom
  <2> QED
    BY <2>1, <2>4
<1>11. want \in Seq(Nat) /\ Len(want) = n /\ \A i \in 1 .. n : want[i] = H + J(i - 1)
  <2>1. want = [i \in 1 .. n |-> H + J(i - 1)]
    BY DEF J
  <2>2. \A i \in 1 .. n : i - 1 \in 0 .. n /\ H + J(i - 1) \in Nat
    BY <1>1, <1>2, <1>9 DEF J
  <2> HIDE DEF want
  <2>3. want = [i \in 1 .. n |-> want[i]] /\ \A i \in 1 .. n : want[i] \in Nat
    BY <2>1, <2>2
  <2>4. want \in Seq(Nat) /\ Len(want) = n
    BY <1>1, <2>3, SeqFrom
  <2> QED
    BY <2>1, <2>4
<1> DEFINE one == <<H>>
           all == one \o tail
<1>12. one \in Seq(Nat) /\ Len(one) = 1 /\ one[1] = H
  BY <1>2
<1> HIDE DEF one, tail, want
<1>13. /\ all \in Seq(Nat) /\ Len(all) = Len(one) + Len(tail)
       /\ \A i \in 1 .. Len(one) : all[i] = one[i]
       /\ \A i \in 1 .. Len(tail) : all[Len(one) + i] = tail[i]
  <2>1. one \in Seq(Nat) /\ tail \in Seq(Nat)
    BY <1>10, <1>12
  <2> QED
    BY ONLY <2>1, CatIs
<1> HIDE DEF all
<1>14. Len(all) = n
  BY <1>1, <1>10, <1>12, <1>13
<1>15. ASSUME NEW i \in 1 .. Len(all) PROVE all[i] = want[i]
  <2>1. CASE i = 1
    <3>1. all[1] = H
      BY <1>12, <1>13
    <3>2. want[1] = H + J(0) /\ J(0) = 0
      <4>1. 1 - 1 = 0 /\ 1 \in 1 .. n
        BY <1>1
      <4>2. J(0) = 0
        BY <1>8 DEF J
      <4> QED
        BY <1>11, <4>1, <4>2
    <3> QED
      BY <1>2, <2>1, <3>1, <3>2
  <2>2. CASE i # 1
    <3>1. i - 1 \in 1 .. n - 1 /\ 1 + (i - 1) = i /\ i \in 1 .. n
      BY <1>1, <1>14, <2>2
    <3>2. all[i] = tail[i - 1]
      BY <1>10, <1>12, <1>13, <3>1
    <3> QED
      BY <1>10, <1>11, <3>1, <3>2
  <2> QED
    BY <2>1, <2>2
<1>16. all = want
  BY <1>11, <1>13, <1>14, <1>15, SeqEqual
<1> QED
  BY <1>7, <1>16 DEF all, one, want, s, h, H, n, subs, entry

-----------------------------------------------------------------------------
(* The loops over the units.                                               *)

LEMMA Least ==
    ASSUME NEW T \in SUBSET Nat, T # {}
    PROVE  \E k \in T : \A n \in T : k <= n
<1>1. IsWellFoundedOn(OpToRel(<, Nat), Nat)
  BY NatLessThanWellFounded
<1>2. PICK k \in T : \A n \in T : <<n, k>> \notin OpToRel(<, Nat)
  BY <1>1, WFMin
<1>3. \A n \in T : ~(n < k)
  BY <1>2 DEF OpToRel
<1>4. k \in Nat /\ \A n \in T : n \in Nat
  OBVIOUS
<1> QED
  BY <1>3, <1>4

\* What a loop returns that goes forward, and collects something on the way.
Collects(g, M, done, piece, next) ==
    /\ g = [i \in 1 .. M |-> g[i]]
    /\ \A i \in 1 .. M : g[i] = IF i \in done THEN piece[i] ELSE piece[i] \o g[next[i]]

LEMMA LoopIs ==
    ASSUME NEW M \in Nat, M >= 1, NEW done, NEW piece, NEW next,
           \A i \in 1 .. M : i \notin done => next[i] \in i + 1 .. M
    PROVE  \E g : Collects(g, M, done, piece, next)
<1> DEFINE Solves(g, m) ==
               g = [i \in M - m .. M |-> IF i \in done THEN piece[i] ELSE piece[i] \o g[next[i]]]
           T == {m \in Nat : m < M => \E g : Solves(g, m)}
<1>1. 0 \in T
  <2> DEFINE g == [i \in {M} |-> piece[i]]
  <2>1. M \in done
    <3>1. M \in 1 .. M /\ ~(next[M] \in M + 1 .. M)
      OBVIOUS
    <3> QED
      BY <3>1
  <2>2. M - 0 .. M = {M}
    OBVIOUS
  <2>3. Solves(g, 0)
    BY <2>1, <2>2
  <2> QED
    BY <2>3
<1>2. ASSUME NEW m \in T PROVE m + 1 \in T
  <2>0. m \in Nat
    OBVIOUS
  <2> SUFFICES ASSUME m + 1 < M PROVE \E g : Solves(g, m + 1)
    <3> HIDE DEF Solves
    <3> QED
      BY <2>0
  <2>1. m \in Nat /\ m < M
    BY <2>0
  <2>2. PICK g : Solves(g, m)
    <3> HIDE DEF Solves
    <3> QED
      BY <2>1
  <2> DEFINE c == M - (m + 1)
             h == [i \in c .. M |-> IF i = c THEN IF i \in done THEN piece[i] ELSE piece[i] \o g[next[i]]
                                    ELSE g[i]]
  <2>3. c \in Nat /\ c >= 1 /\ c \in 1 .. M /\ c + 1 = M - m
    BY <2>1
  <2>4. \A i \in c + 1 .. M : g[i] = IF i \in done THEN piece[i] ELSE piece[i] \o g[next[i]]
    BY <2>2, <2>3
  <2> HIDE DEF c, Solves
  <2>5. ASSUME NEW i \in c .. M PROVE h[i] = IF i \in done THEN piece[i] ELSE piece[i] \o h[next[i]]
    <3>1. i \in 1 .. M /\ (i \notin done => next[i] \in i + 1 .. M)
      BY <2>3
    <3>2. i \notin done => next[i] \in c .. M /\ next[i] # c /\ h[next[i]] = g[next[i]]
      BY <2>3, <3>1
    <3>3. CASE i = c
      BY <3>2, <3>3
    <3>4. CASE i # c
      <4>1. i \in c + 1 .. M /\ h[i] = g[i]
        BY <2>3, <3>4
      <4> HIDE DEF h
      <4> QED
        BY <2>4, <3>2, <4>1
    <3> QED
      BY <3>3, <3>4
  <2>6. h = [i \in c .. M |-> h[i]]
    OBVIOUS
  <2> HIDE DEF h
  <2>7. Solves(h, m + 1)
    BY <2>5, <2>6 DEF Solves, c
  <2> QED
    BY <2>7
<1>3. M - 1 \in T
  <2> HIDE DEF T
  <2>1. T \in SUBSET Nat
    BY DEF T
  <2>2. T = Nat
    BY <1>1, <1>2, <2>1, Induct
  <2> QED
    BY <2>2
<1>4. PICK g : Solves(g, M - 1)
  <2> HIDE DEF Solves
  <2>1. M - 1 \in Nat /\ M - 1 < M
    OBVIOUS
  <2> QED
    BY <1>3, <2>1
<1>5. M - (M - 1) = 1
  OBVIOUS
<1>6. Collects(g, M, done, piece, next)
  BY <1>4, <1>5 DEF Collects
<1> QED
  BY <1>6

LEMMA StartCodeIs ==
    ASSUME NEW data, Len(data) \in Nat, NEW off \in 1 .. Len(data) + 1, StartCodes(data, off) # {}
    PROVE  /\ startCode(data, off) \in StartCodes(data, off)
           /\ startCode(data, off) \in off .. Len(data) - 2
           /\ \A j \in StartCodes(data, off) : startCode(data, off) <= j
<1>1. StartCodes(data, off) \in SUBSET Nat /\ \A i \in StartCodes(data, off) : i \in off .. Len(data) - 2
  BY DEF StartCodes
<1>2. \E i \in StartCodes(data, off) : \A j \in StartCodes(data, off) : i <= j
  BY <1>1, Least
<1> DEFINE X == StartCodes(data, off)
<1>3. startCode(data, off) = CHOOSE i \in X : \A j \in X : i <= j
  BY DEF startCode
<1> HIDE DEF X
<1>4. startCode(data, off) \in X /\ \A j \in X : startCode(data, off) <= j
  BY <1>2, <1>3 DEF X
<1> QED
  BY <1>1, <1>4 DEF X

LEMMA AnnexBIs ==
    ASSUME NEW data, Len(data) \in Nat, NEW i \in 1 .. Len(data) + 1
    PROVE  AnnexBUnits(data)[i] =
               IF i > Len(data) THEN <<>>
               ELSE IF StartCodes(data, i) = {} THEN ParseNAL(SubSeq(data, i, Len(data)))
               ELSE ParseNAL(Stripped(SubSeq(data, i, startCode(data, i) - 1)))
                        \o AnnexBUnits(data)[startCode(data, i) + 3]
<1> DEFINE M == Len(data) + 1
           Final(j) == StartCodes(data, j) = {}
           All(j) == ParseNAL(SubSeq(data, j, Len(data)))
           One(j) == ParseNAL(Stripped(SubSeq(data, j, startCode(data, j) - 1)))
           To(j) == startCode(data, j) + 3
           Solves(g) == g = [j \in 1 .. M |-> IF j > Len(data) THEN <<>>
                                              ELSE IF Final(j) THEN All(j) ELSE One(j) \o g[To(j)]]
           done == {j \in 1 .. M : j > Len(data) \/ Final(j)}
           piece == [j \in 1 .. M |-> IF j > Len(data) THEN <<>> ELSE IF Final(j) THEN All(j) ELSE One(j)]
           next == [j \in 1 .. M |-> To(j)]
<1>1. M \in Nat /\ M >= 1
  OBVIOUS
<1>2. \A j \in 1 .. M : j \notin done => next[j] \in j + 1 .. M
  <2> SUFFICES ASSUME NEW j \in 1 .. M, ~Final(j) PROVE To(j) \in j + 1 .. M
    OBVIOUS
  <2>1. startCode(data, j) \in j .. Len(data) - 2
    BY StartCodeIs
  <2> QED
    BY <2>1
<1>3. AnnexBUnits(data) = CHOOSE g : Solves(g)
  BY DEF AnnexBUnits
<1> HIDE DEF Final, All, One, To
<1>4. \E g : Solves(g)
  <2>1. PICK g : Collects(g, M, done, piece, next)
    <3> HIDE DEF done, piece, next, M
    <3> QED
      BY <1>1, <1>2, LoopIs
  <2>2. Solves(g)
    BY <2>1 DEF Collects
  <2> QED
    BY <2>2
<1>5. Solves(AnnexBUnits(data))
  <2> HIDE DEF Solves
  <2> QED
    BY <1>3, <1>4
<1> QED
  BY <1>5 DEF Final, All, One, To

LEMMA HVCCIs ==
    ASSUME NEW data \in Seq(Nat), NEW i \in 1 .. Len(data) + 1
    PROVE  HVCCUnits(data)[i] =
               IF i > Len(data) \/ data[i] = 0 \/ i + data[i] > Len(data) THEN <<>>
               ELSE ParseNAL(SubSeq(data, i + 1, i + data[i])) \o HVCCUnits(data)[i + data[i] + 1]
<1> DEFINE M == Len(data) + 1
           Final(j) == j > Len(data) \/ data[j] = 0 \/ j + data[j] > Len(data)
           One(j) == ParseNAL(SubSeq(data, j + 1, j + data[j]))
           To(j) == j + data[j] + 1
           Solves(g) == g = [j \in 1 .. M |-> IF Final(j) THEN <<>> ELSE One(j) \o g[To(j)]]
           done == {j \in 1 .. M : Final(j)}
           piece == [j \in 1 .. M |-> IF Final(j) THEN <<>> ELSE One(j)]
           next == [j \in 1 .. M |-> To(j)]
<1>1. M \in Nat /\ M >= 1
  OBVIOUS
<1>2. \A j \in 1 .. M : j \notin done => next[j] \in j + 1 .. M
  <2> SUFFICES ASSUME NEW j \in 1 .. M, ~Final(j) PROVE To(j) \in j + 1 .. M
    OBVIOUS
  <2>1. j \in 1 .. Len(data) /\ data[j] \in Nat
    OBVIOUS
  <2> QED
    BY <2>1
<1>3. HVCCUnits(data) = CHOOSE g : Solves(g)
  BY DEF HVCCUnits
<1> HIDE DEF Final, One, To
<1>4. \E g : Solves(g)
  <2>1. PICK g : Collects(g, M, done, piece, next)
    <3> HIDE DEF done, piece, next, M
    <3> QED
      BY <1>1, <1>2, LoopIs
  <2>2. Solves(g)
    BY <2>1 DEF Collects
  <2> QED
    BY <2>2
<1>5. Solves(HVCCUnits(data))
  <2> HIDE DEF Solves
  <2> QED
    BY <1>3, <1>4
<1> QED
  BY <1>5 DEF Final, One, To

-----------------------------------------------------------------------------
(* A unit as it is written.                                                *)

LEMMA NalIs ==
    ASSUME NEW s, EndsOnASetBit(s)
    PROVE  /\ MarshalNAL(s) \in Seq(Byte) /\ Len(MarshalNAL(s)) \in Nat /\ Len(MarshalNAL(s)) >= 3
           /\ Clean(MarshalNAL(s)) /\ MarshalNAL(s)[Len(MarshalNAL(s))] # 0
           /\ ParseNAL(MarshalNAL(s)) = <<unescape(escapeRBSP(s))>>
<1> DEFINE e == escapeRBSP(s)
           nal == NalHeader \o e
           L == Len(s)
<1>1. s \in Seq(Byte) /\ L \in Nat /\ L >= 1 /\ s[L] # 0
  <2>1. s \in Seq(Byte) /\ s # <<>> /\ s[L] # 0
    BY DEF EndsOnASetBit
  <2> QED
    BY <2>1, EmptySeq
<1>2. L \in 1 .. L /\ L \in 0 .. L /\ 0 \in 0 .. L
  BY <1>1
<1>3. e \in Seq(Byte) /\ Clean(e) /\ Ends(e, 0)
  <2>1. Good(Escaping(s)[L]) /\ Escaping(s)[L].zeros = 0
    BY <1>1, <1>2, EscapeIs
  <2> QED
    BY <2>1 DEF Good, escapeRBSP
<1>4. Len(e) \in Nat /\ Len(e) >= 1
  <2>1. At(s, 0) + (L - 0) <= At(s, L) /\ At(s, 0) = 0 /\ At(s, L) \in Nat
    BY <1>1, <1>2, EscapePrefix, EscapeIs
  <2>2. Len(e) = At(s, L)
    BY DEF At, escapeRBSP
  <2> HIDE DEF e
  <2> QED
    BY <1>1, <2>1, <2>2
<1> HIDE DEF e
<1>5. e[Len(e)] # 0
  <2>1. e # <<>>
    BY <1>4
  <2> QED
    BY <1>3, <2>1 DEF Ends
<1>6. NalHeader \in Seq(Byte) /\ Len(NalHeader) = 2 /\ NalHeader[1] = 0 /\ NalHeader[2] = 1
  BY DEF NalHeader, Byte
<1>7. /\ nal \in Seq(Byte) /\ Len(nal) = Len(NalHeader) + Len(e)
      /\ \A i \in 1 .. Len(NalHeader) : nal[i] = NalHeader[i]
      /\ \A i \in 1 .. Len(e) : nal[Len(NalHeader) + i] = e[i]
  <2>1. NalHeader \in Seq(Byte) /\ e \in Seq(Byte)
    BY <1>3, <1>6
  <2> QED
    BY ONLY <2>1, CatIs
<1> HIDE DEF nal
<1>8. /\ Len(nal) = 2 + Len(e) /\ nal[1] = 0 /\ nal[2] = 1
      /\ \A i \in 1 .. Len(e) : nal[2 + i] = e[i]
  BY <1>4, <1>6, <1>7
<1>9. nal[Len(nal)] # 0
  <2>1. Len(e) \in 1 .. Len(e)
    BY <1>4
  <2> QED
    BY <1>5, <1>8, <2>1
<1>10. Clean(nal)
  <2> SUFFICES ASSUME NEW i \in 1 .. Len(nal) - 2, nal[i] = 0, nal[i + 1] = 0 PROVE nal[i + 2] > 2
    BY DEF Clean
  <2>1. i # 1 /\ i # 2
    BY <1>8
  <2> DEFINE j == i - 2
  <2>2. j \in 1 .. Len(e) - 2 /\ j + 1 \in 1 .. Len(e) /\ j + 2 \in 1 .. Len(e) /\ j \in 1 .. Len(e)
    BY <1>4, <1>8, <2>1
  <2>3. i = 2 + j /\ i + 1 = 2 + (j + 1) /\ i + 2 = 2 + (j + 2)
    BY <1>4, <1>8
  <2> HIDE DEF j
  <2>4. e[j] = 0 /\ e[j + 1] = 0 /\ nal[i + 2] = e[j + 2]
    BY <1>8, <2>2, <2>3
  <2> QED
    BY <1>3, <2>2, <2>4 DEF Clean
<1>11. ParseNAL(nal) = <<unescape(e)>>
  <2>1. SubSeq(nal, 2 + 1, 2 + Len(e)) = e
    <3>1. 2 \in Nat /\ 2 + Len(e) <= Len(nal)
      BY <1>4, <1>8
    <3> QED
      BY <1>3, <1>7, <1>8, <3>1, PartIs
  <2>2. SubSeq(nal, 3, Len(nal)) = e
    BY <1>8, <2>1
  <2>3. Len(nal) >= 2 /\ nal[1] < 128 /\ nal[2] % 8 # 0
    BY <1>4, <1>8
  <2> QED
    BY <2>2, <2>3 DEF ParseNAL
<1> QED
  BY <1>4, <1>7, <1>8, <1>9, <1>10, <1>11 DEF MarshalNAL, nal, e

\* What a unit becomes.
Given(rs) == [k \in 1 .. Len(rs) |-> unescape(escapeRBSP(rs[k]))]

\* q is nals without the first k of them.
Unread(nals, q, k) ==
    /\ q \in Seq({nals[j] : j \in 1 .. Len(nals)}) /\ Len(q) = Len(nals) - k
    /\ \A j \in 1 .. Len(nals) - k : q[j] = nals[k + j]

LEMMA BehindStep ==
    ASSUME NEW nals, Len(nals) \in Nat, NEW k \in 1 .. Len(nals), NEW q, Unread(nals, q, k)
    PROVE  Unread(nals, <<nals[k]>> \o q, k - 1)
<1> DEFINE S == {nals[j] : j \in 1 .. Len(nals)}
           one == <<nals[k]>>
           p == one \o q
<1>1. q \in Seq(S) /\ Len(q) = Len(nals) - k /\ \A j \in 1 .. Len(nals) - k : q[j] = nals[k + j]
  BY DEF Unread
<1>2. one \in Seq(S) /\ Len(one) = 1 /\ one[1] = nals[k]
  <2>1. nals[k] \in S
    OBVIOUS
  <2> HIDE DEF S
  <2> QED
    BY <2>1
<1> HIDE DEF S, one
<1>3. /\ p \in Seq(S) /\ Len(p) = Len(one) + Len(q)
      /\ \A i \in 1 .. Len(one) : p[i] = one[i]
      /\ \A i \in 1 .. Len(q) : p[Len(one) + i] = q[i]
  <2>1. one \in Seq(S) /\ q \in Seq(S)
    BY <1>1, <1>2
  <2> QED
    BY ONLY <2>1, CatIs
<1> HIDE DEF p
<1>4. Len(p) = Len(nals) - (k - 1)
  BY <1>1, <1>2, <1>3
<1>5. ASSUME NEW j \in 1 .. Len(nals) - (k - 1) PROVE p[j] = nals[(k - 1) + j]
  <2>1. CASE j = 1
    <3>1. (k - 1) + 1 = k
      OBVIOUS
    <3> QED
      BY <1>2, <1>3, <2>1, <3>1
  <2>2. CASE j # 1
    <3> DEFINE i == j - 1
    <3>1. i \in 1 .. Len(nals) - k /\ j = 1 + i /\ (k - 1) + j = k + i
      BY <2>2
    <3> HIDE DEF i
    <3> QED
      BY <1>1, <1>2, <1>3, <3>1
  <2> QED
    BY <2>1, <2>2
<1> QED
  BY <1>3, <1>4, <1>5 DEF Unread, S, p, one

LEMMA BehindNone ==
    ASSUME NEW nals, Len(nals) \in Nat
    PROVE  Unread(nals, <<>>, Len(nals))
BY DEF Unread

LEMMA BehindAll ==
    ASSUME NEW rs, Len(rs) \in Nat, NEW q, Unread(Given(rs), q, 0),
           \A k \in 1 .. Len(rs) : rs[k] \in Seq(Byte), rs = [k \in 1 .. Len(rs) |-> rs[k]]
    PROVE  Received(q) = rs
<1> DEFINE nals == Given(rs)
           S == {nals[j] : j \in 1 .. Len(nals)}
<1>1. Len(nals) = Len(rs) /\ \A k \in 1 .. Len(rs) : nals[k] = unescape(escapeRBSP(rs[k]))
  BY DEF Given
<1>2. \A k \in 1 .. Len(rs) : nals[k].rbsp = rs[k]
  BY <1>1, RoundTrip
<1> HIDE DEF nals
<1>3. Len(q) = Len(rs) /\ \A j \in 1 .. Len(rs) : q[j] = nals[j]
  <2>1. Len(nals) - 0 = Len(nals)
    BY <1>1
  <2>2. \A j \in 1 .. Len(nals) : 0 + j = j
    BY <1>1
  <2> QED
    BY <1>1, <2>1, <2>2 DEF Unread, nals
<1>4. Received(q) = [k \in 1 .. Len(rs) |-> rs[k]]
  BY <1>2, <1>3 DEF Received
<1> QED
  BY <1>4

-----------------------------------------------------------------------------
(* Units behind their lengths.                                             *)

LEMMA LengthFirst ==
    ASSUME NEW nal \in Seq(Byte)
    PROVE  LET p == <<Len(nal)>> \o nal
           IN  /\ p \in Seq(Nat) /\ Len(p) = 1 + Len(nal) /\ Len(nal) \in Nat /\ p[1] = Len(nal)
               /\ \A j \in 1 .. Len(nal) : p[1 + j] = nal[j]
               /\ nal \in Seq(Nat)
<1> DEFINE one == <<Len(nal)>>
           p == one \o nal
<1>1. Len(nal) \in Nat /\ nal \in Seq(Nat)
  <2>1. Len(nal) \in Nat /\ nal = [i \in 1 .. Len(nal) |-> nal[i]] /\ \A i \in 1 .. Len(nal) : nal[i] \in Byte
    OBVIOUS
  <2>2. \A i \in 1 .. Len(nal) : nal[i] \in Nat
    <3>1. Byte \in SUBSET Nat
      BY DEF Byte
    <3> QED
      BY <2>1, <3>1
  <2> QED
    BY <2>1, <2>2, SeqFrom
<1>2. one \in Seq(Nat) /\ Len(one) = 1 /\ one[1] = Len(nal)
  BY <1>1
<1> HIDE DEF one
<1>3. /\ p \in Seq(Nat) /\ Len(p) = Len(one) + Len(nal)
      /\ \A i \in 1 .. Len(one) : p[i] = one[i]
      /\ \A i \in 1 .. Len(nal) : p[Len(one) + i] = nal[i]
  <2>1. one \in Seq(Nat) /\ nal \in Seq(Nat)
    BY <1>1, <1>2
  <2> QED
    BY ONLY <2>1, CatIs
<1> HIDE DEF p
<1>4. p[1] = Len(nal)
  BY <1>2, <1>3
<1>5. Len(p) = 1 + Len(nal) /\ \A i \in 1 .. Len(nal) : p[1 + i] = nal[i]
  BY <1>2, <1>3
<1> QED
  BY <1>1, <1>3, <1>4, <1>5 DEF p, one

LEMMA HVCCBack ==
    ASSUME NEW rs \in Seq(Seq(Byte)), \A k \in 1 .. Len(rs) : EndsOnASetBit(rs[k])
    PROVE  Received(SplitHVCC(marshalHVCC(rs))) = rs
<1> DEFINE N == Len(rs)
           nal(k) == MarshalNAL(rs[k])
           P == [k \in 1 .. N |-> <<Len(nal(k))>> \o nal(k)]
           data == Flat(P)
           at(k) == Len(Joined(P)[k])
           U == HVCCUnits(data)
           nals == Given(rs)
           T == {m \in Nat : m <= N => Unread(nals, U[at(N - m) + 1], N - m)}
<1>1. N \in Nat /\ \A k \in 1 .. N : rs[k] \in Seq(Byte)
  OBVIOUS
<1>2. ASSUME NEW k \in 1 .. N
      PROVE  /\ nal(k) \in Seq(Byte) /\ Len(nal(k)) \in Nat /\ Len(nal(k)) >= 3
             /\ ParseNAL(nal(k)) = <<unescape(escapeRBSP(rs[k]))>>
  BY NalIs
<1> HIDE DEF nal
<1>3. ASSUME NEW k \in 1 .. N
      PROVE  /\ P[k] \in Seq(Nat) /\ Len(P[k]) = 1 + Len(nal(k)) /\ P[k][1] = Len(nal(k))
             /\ \A j \in 1 .. Len(nal(k)) : P[k][1 + j] = nal(k)[j]
             /\ nal(k) \in Seq(Nat)
  <2>1. P[k] = <<Len(nal(k))>> \o nal(k)
    OBVIOUS
  <2>2. nal(k) \in Seq(Byte)
    BY <1>2
  <2> HIDE DEF P
  <2> QED
    BY <2>1, <2>2, LengthFirst
<1>4. P \in Seq(Seq(Nat)) /\ Len(P) = N
  <2>1. P = [k \in 1 .. N |-> P[k]]
    OBVIOUS
  <2> HIDE DEF P, N
  <2> QED
    BY <1>1, <1>3, <2>1, SeqFrom
<1>5. marshalHVCC(rs) = data
  BY DEF marshalHVCC, nal
<1>6. Len(nals) = N /\ \A k \in 1 .. N : nals[k] = unescape(escapeRBSP(rs[k]))
  BY DEF Given
<1> HIDE DEF N, P, nals
<1>7. /\ data \in Seq(Nat) /\ Len(data) \in Nat /\ Len(data) = at(N) /\ at(0) = 0
      /\ \A k \in 0 .. N : at(k) \in Nat /\ at(k) <= Len(data)
  <2>1. N \in 0 .. N /\ Joined(P)[0] = <<>> /\ N \in Nat
    <3>1. N \in Nat /\ Len(P) \in Nat
      BY <1>1, <1>4
    <3>2. Joined(P)[0] = <<>>
      BY <3>1, JoinedIs
    <3> QED
      BY <3>1, <3>2
  <2>2. \A k \in 0 .. N : Joined(P)[k] \in Seq(Nat)
    BY <1>4, JoinedTyped
  <2>3. ASSUME NEW k \in 0 .. N PROVE at(k) <= at(N)
    <3>1. k \in 0 .. Len(P) /\ N \in k .. Len(P)
      BY <1>4, <2>1
    <3> QED
      BY <1>4, <3>1, JoinedPrefix
  <2>4. data = Joined(P)[N]
    BY <1>4 DEF Flat
  <2> QED
    BY <2>1, <2>2, <2>3, <2>4
<1>8. ASSUME NEW k \in 1 .. N
      PROVE  /\ at(k) = at(k - 1) + 1 + Len(nal(k)) /\ at(k) <= Len(data) /\ at(k - 1) \in Nat
             /\ data[at(k - 1) + 1] = Len(nal(k))
             /\ \A j \in 1 .. Len(nal(k)) : data[at(k - 1) + 1 + j] = nal(k)[j]
  <2>1. /\ Len(P[k]) = 1 + Len(nal(k)) /\ P[k][1] = Len(nal(k)) /\ Len(nal(k)) \in Nat
        /\ \A j \in 1 .. Len(nal(k)) : P[k][1 + j] = nal(k)[j]
    BY <1>2, <1>3
  <2>2. /\ at(k - 1) \in Nat /\ at(k) = at(k - 1) + Len(P[k]) /\ at(k) <= Len(data)
        /\ \A j \in 1 .. Len(P[k]) : data[at(k - 1) + j] = P[k][j]
    BY <1>4, PieceIs
  <2> HIDE DEF data, at
  <2>3. data[at(k - 1) + 1] = Len(nal(k))
    <3>1. 1 \in 1 .. Len(P[k])
      BY <2>1
    <3> QED
      BY <2>1, <2>2, <3>1
  <2>4. ASSUME NEW j \in 1 .. Len(nal(k)) PROVE data[at(k - 1) + 1 + j] = nal(k)[j]
    <3>1. 1 + j \in 1 .. Len(P[k]) /\ at(k - 1) + 1 + j = at(k - 1) + (1 + j)
      BY <2>1, <2>2
    <3> QED
      BY <2>1, <2>2, <3>1
  <2>5. at(k) = at(k - 1) + 1 + Len(nal(k))
    BY <2>1, <2>2
  <2> QED
    BY <2>2, <2>3, <2>4, <2>5
<1> HIDE DEF data, at
<1>9. 0 \in T
  <2>1. U[at(N) + 1] = <<>>
    <3>1. at(N) + 1 \in 1 .. Len(data) + 1 /\ at(N) + 1 > Len(data)
      BY <1>7
    <3> QED
      BY <1>7, <3>1, HVCCIs
  <2>2. Unread(nals, <<>>, N)
    BY <1>1, <1>6, BehindNone
  <2>3. N - 0 = N
    BY <1>1
  <2> QED
    BY <2>1, <2>2, <2>3
<1>10. \A m \in T : m + 1 \in T
  <2> SUFFICES ASSUME NEW m \in Nat, m + 1 <= N, Unread(nals, U[at(N - m) + 1], N - m)
               PROVE  Unread(nals, U[at(N - (m + 1)) + 1], N - (m + 1))
    <3> HIDE DEF U
    <3> QED
      BY <1>1
  <2> DEFINE k == N - m
             i == at(k - 1) + 1
  <2>1. k \in 1 .. N /\ N - (m + 1) = k - 1
    BY <1>1
  <2> HIDE DEF k
  <2>2. /\ at(k) = i + Len(nal(k)) /\ at(k) <= Len(data) /\ i \in Nat /\ i >= 1
        /\ data[i] = Len(nal(k)) /\ Len(nal(k)) \in Nat /\ Len(nal(k)) >= 3
        /\ \A j \in 1 .. Len(nal(k)) : data[i + j] = nal(k)[j]
    BY <1>2, <1>8, <2>1
  <2> HIDE DEF i
  <2>3. U[i] = ParseNAL(SubSeq(data, i + 1, i + data[i])) \o U[i + data[i] + 1]
    <3>1. i \in 1 .. Len(data) + 1 /\ ~(i > Len(data) \/ data[i] = 0 \/ i + data[i] > Len(data))
      BY <1>7, <2>2
    <3> QED
      BY <1>7, <3>1, HVCCIs
  <2>4. SubSeq(data, i + 1, i + data[i]) = nal(k)
    <3>1. nal(k) \in Seq(Nat)
      BY <1>3, <2>1
    <3> QED
      BY <1>7, <2>2, <3>1, PartIs
  <2>5. U[i] = <<nals[k]>> \o U[at(k) + 1]
    BY <1>2, <1>6, <2>1, <2>2, <2>3, <2>4
  <2>6. Unread(nals, U[at(k) + 1], k)
    BY DEF k
  <2> HIDE DEF U
  <2>7. Unread(nals, U[i], k - 1)
    BY <1>1, <1>6, <2>1, <2>5, <2>6, BehindStep
  <2> QED
    BY <2>1, <2>7 DEF i
<1>11. N \in T
  <2> HIDE DEF T
  <2>1. T \in SUBSET Nat
    BY DEF T
  <2> QED
    BY <1>1, <1>9, <1>10, <2>1, Induct
<1>12. Unread(nals, U[1], 0)
  <2>1. N - N = 0 /\ at(0) + 1 = 1
    BY <1>1, <1>7
  <2>2. Unread(nals, U[at(N - N) + 1], N - N)
    <3> HIDE DEF U
    <3> QED
      BY <1>1, <1>11
  <2> QED
    BY <2>1, <2>2
<1>13. Unread(Given(rs), SplitHVCC(marshalHVCC(rs)), 0)
  BY <1>5, <1>12 DEF SplitHVCC, nals
<1>14. rs = [k \in 1 .. Len(rs) |-> rs[k]] /\ Len(rs) \in Nat
  OBVIOUS
<1> QED
  BY <1>1, <1>13, <1>14, BehindAll DEF N

-----------------------------------------------------------------------------
(* Units behind start codes.                                               *)

LEMMA CodeFirst ==
    ASSUME NEW nal \in Seq(Byte)
    PROVE  LET p == <<0, 0, 0, 1>> \o nal
           IN  /\ p \in Seq(Byte) /\ Len(p) = 4 + Len(nal)
               /\ p[1] = 0 /\ p[2] = 0 /\ p[3] = 0 /\ p[4] = 1
               /\ \A j \in 1 .. Len(nal) : p[4 + j] = nal[j]
<1> DEFINE code == <<0, 0, 0, 1>>
           p == code \o nal
<1>1. code \in Seq(Byte) /\ Len(code) = 4 /\ code[1] = 0 /\ code[2] = 0 /\ code[3] = 0 /\ code[4] = 1
  BY DEF Byte
<1> HIDE DEF code
<1>2. /\ p \in Seq(Byte) /\ Len(p) = Len(code) + Len(nal)
      /\ \A i \in 1 .. Len(code) : p[i] = code[i]
      /\ \A i \in 1 .. Len(nal) : p[Len(code) + i] = nal[i]
  <2>1. code \in Seq(Byte) /\ nal \in Seq(Byte)
    BY <1>1
  <2> QED
    BY ONLY <2>1, CatIs
<1> HIDE DEF p
<1>3. p[1] = 0 /\ p[2] = 0 /\ p[3] = 0 /\ p[4] = 1
  BY <1>1, <1>2
<1>4. Len(p) = 4 + Len(nal) /\ \A i \in 1 .. Len(nal) : p[4 + i] = nal[i]
  BY <1>1, <1>2
<1> QED
  BY <1>2, <1>3, <1>4 DEF p, code

LEMMA StrippedIs ==
    ASSUME NEW nal \in Seq(Byte), Len(nal) >= 1, nal[Len(nal)] # 0,
           NEW len \in Seq(Byte), Len(len) = Len(nal) + 1, len[Len(nal) + 1] = 0,
           \A j \in 1 .. Len(nal) : len[j] = nal[j]
    PROVE  Stripped(len) = nal
<1> DEFINE ends == {0} \cup {i \in 1 .. Len(len) : len[i] # 0}
           last == CHOOSE i \in ends : \A j \in ends : j <= i
           L == Len(nal)
<1>1. L \in Nat
  OBVIOUS
<1>2. L \in ends
  <2>1. L \in 1 .. Len(len) /\ L \in 1 .. Len(nal)
    BY <1>1
  <2> QED
    BY <2>1
<1>3. \A j \in ends : j \in Nat /\ j <= L
  <2> SUFFICES ASSUME NEW j \in 1 .. Len(len), len[j] # 0 PROVE j <= L
    BY <1>1
  <2> QED
    BY <1>1
<1> HIDE DEF ends, L
<1>4. last = L
  <2>1. last \in ends /\ \A j \in ends : j <= last
    BY <1>2, <1>3
  <2> HIDE DEF last
  <2> QED
    BY <1>1, <1>2, <1>3, <2>1
<1>5. Stripped(len) = SubSeq(len, 1, L)
  BY <1>4 DEF Stripped, ends, last
<1>6. SubSeq(len, 0 + 1, 0 + Len(nal)) = nal
  <2>1. 0 \in Nat /\ 0 + Len(nal) <= Len(len) /\ \A i \in 1 .. Len(nal) : len[0 + i] = nal[i]
    OBVIOUS
  <2> QED
    BY <2>1, PartIs
<1>7. 0 + 1 = 1 /\ 0 + Len(nal) = L
  BY DEF L
<1> QED
  BY <1>5, <1>6, <1>7

LEMMA SliceIs ==
    ASSUME NEW s \in Seq(Byte), NEW m \in Nat, NEW k \in Nat, m + k <= Len(s)
    PROVE  /\ SubSeq(s, m + 1, m + k) \in Seq(Byte) /\ Len(SubSeq(s, m + 1, m + k)) = k
           /\ \A j \in 1 .. k : SubSeq(s, m + 1, m + k)[j] = s[m + j]
<1> DEFINE u == SubSeq(s, m + 1, m + k)
<1>1. Len(s) \in Nat
  OBVIOUS
<1>2. \A i \in m + 1 .. m + k : s[i] \in Byte
  BY <1>1, ElementOfSeq
<1>3. /\ u \in Seq(Byte) /\ Len(u) = IF m + 1 <= m + k THEN (m + k) - (m + 1) + 1 ELSE 0
      /\ \A i \in 1 .. (m + k) - (m + 1) + 1 : u[i] = s[(m + 1) + i - 1]
  BY <1>1, <1>2, SubSeqProperties
<1> HIDE DEF u
<1>4. Len(u) = k
  BY <1>1, <1>3
<1>5. ASSUME NEW i \in 1 .. k PROVE u[i] = s[m + i]
  <2>1. i \in 1 .. (m + k) - (m + 1) + 1 /\ (m + 1) + i - 1 = m + i
    BY <1>1
  <2> QED
    BY <2>1, <1>3
<1> QED
  BY <1>3, <1>4, <1>5 DEF u

LEMMA AnnexBBack ==
    ASSUME NEW rs \in Seq(Seq(Byte)), \A k \in 1 .. Len(rs) : EndsOnASetBit(rs[k])
    PROVE  Received(SplitAnnexB(MarshalAnnexB(rs))) = rs
<1> DEFINE N == Len(rs)
           nal(k) == MarshalNAL(rs[k])
           P == [k \in 1 .. N |-> <<0, 0, 0, 1>> \o nal(k)]
           data == Flat(P)
           at(k) == Len(Joined(P)[k])
           from(k) == at(k - 1) + 5
           U == AnnexBUnits(data)
           nals == Given(rs)
           T == {m \in Nat : m + 1 <= N => Unread(nals, U[from(N - m)], N - (m + 1))}
<1>1. N \in Nat /\ \A k \in 1 .. N : rs[k] \in Seq(Byte)
  OBVIOUS
<1>2. ASSUME NEW k \in 1 .. N
      PROVE  /\ nal(k) \in Seq(Byte) /\ Len(nal(k)) \in Nat /\ Len(nal(k)) >= 3
             /\ Clean(nal(k)) /\ nal(k)[Len(nal(k))] # 0
             /\ ParseNAL(nal(k)) = <<unescape(escapeRBSP(rs[k]))>>
  BY NalIs
<1>3. ASSUME NEW k \in 1 .. N
      PROVE  /\ P[k] \in Seq(Byte) /\ Len(P[k]) = 4 + Len(nal(k))
             /\ P[k][1] = 0 /\ P[k][2] = 0 /\ P[k][3] = 0 /\ P[k][4] = 1
             /\ \A j \in 1 .. Len(nal(k)) : P[k][4 + j] = nal(k)[j]
  <2>1. P[k] = <<0, 0, 0, 1>> \o nal(k)
    OBVIOUS
  <2>2. nal(k) \in Seq(Byte)
    BY <1>2
  <2> HIDE DEF P, nal
  <2> QED
    BY <2>1, <2>2, CodeFirst
<1>4. P \in Seq(Seq(Byte)) /\ Len(P) = N
  <2>1. P = [k \in 1 .. N |-> P[k]]
    OBVIOUS
  <2> HIDE DEF P, N
  <2> QED
    BY <1>1, <1>3, <2>1, SeqFrom
<1>5. MarshalAnnexB(rs) = data
  BY DEF MarshalAnnexB
<1>6. Len(nals) = N /\ \A k \in 1 .. N : nals[k] = unescape(escapeRBSP(rs[k]))
  BY DEF Given
<1> HIDE DEF N, P, nals, nal
<1>7. /\ data \in Seq(Byte) /\ Len(data) \in Nat /\ Len(data) = at(N) /\ at(0) = 0
      /\ \A k \in 0 .. N : at(k) \in Nat /\ at(k) <= Len(data)
  <2>1. N \in 0 .. N /\ Joined(P)[0] = <<>> /\ N \in Nat
    <3>1. N \in Nat /\ Len(P) \in Nat
      BY <1>1, <1>4
    <3>2. Joined(P)[0] = <<>>
      BY <3>1, JoinedIs
    <3> QED
      BY <3>1, <3>2
  <2>2. \A k \in 0 .. N : Joined(P)[k] \in Seq(Byte)
    BY <1>4, JoinedTyped
  <2>3. ASSUME NEW k \in 0 .. N PROVE at(k) <= at(N)
    <3>1. k \in 0 .. Len(P) /\ N \in k .. Len(P)
      BY <1>4, <2>1
    <3> QED
      BY <1>4, <3>1, JoinedPrefix
  <2>4. data = Joined(P)[N]
    BY <1>4 DEF Flat
  <2> QED
    BY <2>1, <2>2, <2>3, <2>4
<1>8. ASSUME NEW k \in 1 .. N
      PROVE  /\ at(k) = at(k - 1) + 4 + Len(nal(k)) /\ at(k) <= Len(data) /\ at(k - 1) \in Nat
             /\ data[at(k - 1) + 1] = 0 /\ data[at(k - 1) + 2] = 0
             /\ data[at(k - 1) + 3] = 0 /\ data[at(k - 1) + 4] = 1
             /\ \A j \in 1 .. Len(nal(k)) : data[at(k - 1) + 4 + j] = nal(k)[j]
  <2>1. /\ Len(P[k]) = 4 + Len(nal(k)) /\ Len(nal(k)) \in Nat
        /\ P[k][1] = 0 /\ P[k][2] = 0 /\ P[k][3] = 0 /\ P[k][4] = 1
        /\ \A j \in 1 .. Len(nal(k)) : P[k][4 + j] = nal(k)[j]
    BY <1>2, <1>3
  <2>2. /\ at(k - 1) \in Nat /\ at(k) = at(k - 1) + Len(P[k]) /\ at(k) <= Len(data)
        /\ \A j \in 1 .. Len(P[k]) : data[at(k - 1) + j] = P[k][j]
    BY <1>4, PieceIs
  <2> HIDE DEF data, at
  <2>3. /\ data[at(k - 1) + 1] = 0 /\ data[at(k - 1) + 2] = 0
        /\ data[at(k - 1) + 3] = 0 /\ data[at(k - 1) + 4] = 1
    <3>1. 1 \in 1 .. Len(P[k]) /\ 2 \in 1 .. Len(P[k]) /\ 3 \in 1 .. Len(P[k]) /\ 4 \in 1 .. Len(P[k])
      BY <2>1
    <3> QED
      BY <2>1, <2>2, <3>1
  <2>4. ASSUME NEW j \in 1 .. Len(nal(k)) PROVE data[at(k - 1) + 4 + j] = nal(k)[j]
    <3>1. 4 + j \in 1 .. Len(P[k]) /\ at(k - 1) + 4 + j = at(k - 1) + (4 + j)
      BY <2>1, <2>2
    <3> QED
      BY <2>1, <2>2, <3>1
  <2>5. at(k) = at(k - 1) + 4 + Len(nal(k))
    BY <2>1, <2>2
  <2> QED
    BY <2>2, <2>3, <2>4, <2>5
<1> HIDE DEF data, at
<1>9. ASSUME NEW k \in 1 .. N, NEW i \in StartCodes(data, from(k))
      PROVE  k # N /\ i >= at(k) + 2
  <2> DEFINE a == at(k - 1) + 4
             L == Len(nal(k))
  <2>1. /\ a \in Nat /\ L \in Nat /\ L >= 3 /\ at(k) = a + L /\ at(k) <= Len(data) /\ from(k) = a + 1
        /\ \A j \in 1 .. L : data[a + j] = nal(k)[j]
    BY <1>2, <1>8
  <2>2. /\ i \in a + 1 .. Len(data) - 2 /\ data[i] = 0 /\ data[i + 1] = 0 /\ data[i + 2] = 1
    BY <2>1 DEF StartCodes
  <2> HIDE DEF a, L, from
  <2>3. ~(i + 2 <= at(k))
    <3> SUFFICES ASSUME i + 2 <= at(k) PROVE FALSE
      OBVIOUS
    <3> DEFINE j == i - a
    <3>1. /\ j \in 1 .. L - 2 /\ j \in 1 .. L /\ j + 1 \in 1 .. L /\ j + 2 \in 1 .. L
          /\ a + j = i /\ a + (j + 1) = i + 1 /\ a + (j + 2) = i + 2
      BY <1>7, <2>1, <2>2
    <3> HIDE DEF j
    <3>2. nal(k)[j] = 0 /\ nal(k)[j + 1] = 0 /\ nal(k)[j + 2] = 1
      BY <2>1, <2>2, <3>1
    <3> QED
      BY <1>2, <3>1, <3>2 DEF Clean, L
  <2>4. k # N
    <3>1. k = N => i + 2 <= at(k)
      BY <1>7, <2>2
    <3> QED
      BY <2>3, <3>1
  <2>5. data[at(k)] # 0
    <3>1. L \in 1 .. L
      BY <2>1
    <3>2. nal(k)[L] # 0
      BY <1>2 DEF L
    <3> QED
      BY <2>1, <3>1, <3>2
  <2>6. data[at(k) + 3] = 0
    <3>1. k + 1 \in 1 .. N /\ (k + 1) - 1 = k
      BY <1>1, <2>4
    <3> QED
      BY <1>8, <3>1
  <2>7. i # at(k) /\ i + 1 # at(k) /\ i + 2 # at(k) + 3
    BY <2>2, <2>5, <2>6
  <2> QED
    BY <2>1, <2>2, <2>3, <2>4, <2>7
<1>10. ASSUME NEW k \in 1 .. N, k # N
       PROVE  at(k) + 2 \in StartCodes(data, from(k)) /\ from(k + 1) = at(k) + 5 /\ at(k) + 4 <= Len(data)
  <2>1. k + 1 \in 1 .. N /\ (k + 1) - 1 = k
    BY <1>1, <1>10
  <2>2. /\ data[at(k) + 2] = 0 /\ data[at(k) + 3] = 0 /\ data[at(k) + 4] = 1 /\ at(k) \in Nat
        /\ at(k + 1) = at(k) + 4 + Len(nal(k + 1)) /\ at(k + 1) <= Len(data) /\ Len(nal(k + 1)) \in Nat
    BY <1>2, <1>8, <2>1
  <2>3. /\ at(k - 1) \in Nat /\ at(k) = at(k - 1) + 4 + Len(nal(k)) /\ Len(nal(k)) \in Nat
        /\ Len(nal(k)) >= 3
    BY <1>2, <1>8
  <2>4. at(k) + 2 \in from(k) .. Len(data) - 2
    <3>1. Len(data) \in Nat
      BY <1>7
    <3>2. from(k) = at(k - 1) + 5
      OBVIOUS
    <3> HIDE DEF from
    <3>3. at(k) + 2 >= from(k)
      BY <2>3, <3>2
    <3>4. at(k) + 2 <= Len(data) - 2
      BY <2>2, <3>1
    <3>5. from(k) \in Nat
      BY <2>3, <3>2
    <3> QED
      BY <2>2, <3>1, <3>3, <3>4, <3>5
  <2>5. (at(k) + 2) + 1 = at(k) + 3 /\ (at(k) + 2) + 2 = at(k) + 4
    BY <2>2
  <2>6. at(k) + 2 \in StartCodes(data, from(k))
    BY <2>2, <2>4, <2>5 DEF StartCodes
  <2> QED
    BY <1>7, <2>1, <2>2, <2>6
<1>11. ASSUME NEW k \in 1 .. N
       PROVE  /\ from(k) \in 1 .. Len(data) /\ from(k) = (at(k - 1) + 4) + 1 /\ at(k - 1) + 4 \in Nat
              /\ at(k) = (at(k - 1) + 4) + Len(nal(k)) /\ at(k) <= Len(data)
  BY <1>2, <1>7, <1>8
<1>12. ASSUME NEW k \in 1 .. N, k = N
       PROVE  U[from(k)] = <<nals[k]>>
  <2>1. StartCodes(data, from(k)) = {}
    BY <1>9, <1>12
  <2>2. SubSeq(data, from(k), Len(data)) = nal(k)
    <3> DEFINE a == at(k - 1) + 4
    <3>1. a \in Nat /\ a + Len(nal(k)) = Len(data) /\ from(k) = a + 1 /\ nal(k) \in Seq(Byte)
      BY <1>2, <1>7, <1>11, <1>12
    <3>2. \A j \in 1 .. Len(nal(k)) : data[a + j] = nal(k)[j]
      BY <1>8
    <3> HIDE DEF a, from
    <3>3. SubSeq(data, a + 1, a + Len(nal(k))) = nal(k)
      <4>1. a + Len(nal(k)) <= Len(data)
        BY <1>7, <3>1
      <4> QED
        BY <1>7, <3>1, <3>2, <4>1, PartIs
    <3> QED
      BY <3>1, <3>3
  <2>3. U[from(k)] = ParseNAL(SubSeq(data, from(k), Len(data)))
    <3>1. from(k) \in 1 .. Len(data) + 1 /\ ~(from(k) > Len(data))
      BY <1>7, <1>11
    <3> HIDE DEF from
    <3> QED
      BY <1>7, <2>1, <3>1, AnnexBIs
  <2> QED
    BY <1>2, <1>6, <2>2, <2>3
<1>13. ASSUME NEW k \in 1 .. N, k # N
       PROVE  U[from(k)] = <<nals[k]>> \o U[from(k + 1)]
  <2> DEFINE c == startCode(data, from(k))
             a == at(k - 1) + 4
             len == SubSeq(data, from(k), c - 1)
  <2>1. c = at(k) + 2
    <3>1. from(k) \in 1 .. Len(data) + 1 /\ StartCodes(data, from(k)) # {}
      BY <1>7, <1>10, <1>11, <1>13
    <3> HIDE DEF from
    <3>2. /\ c \in StartCodes(data, from(k)) /\ c \in from(k) .. Len(data) - 2
          /\ \A j \in StartCodes(data, from(k)) : c <= j
      BY <1>7, <3>1, StartCodeIs
    <3> HIDE DEF c
    <3>3. c <= at(k) + 2 /\ c >= at(k) + 2 /\ at(k) \in Nat
      BY <1>1, <1>7, <1>9, <1>10, <1>13, <3>2
    <3> QED
      BY <3>1, <3>2, <3>3
  <2> HIDE DEF c
  <2>2. /\ a \in Nat /\ from(k) = a + 1 /\ at(k) = a + Len(nal(k)) /\ at(k) + 1 <= Len(data)
        /\ Len(nal(k)) \in Nat /\ Len(nal(k)) >= 3 /\ nal(k) \in Seq(Byte) /\ nal(k)[Len(nal(k))] # 0
        /\ c - 1 = a + (Len(nal(k)) + 1)
    <3>1. /\ a \in Nat /\ from(k) = a + 1 /\ at(k) = a + Len(nal(k)) /\ at(k) + 4 <= Len(data)
          /\ Len(nal(k)) \in Nat /\ Len(nal(k)) >= 3 /\ nal(k) \in Seq(Byte) /\ nal(k)[Len(nal(k))] # 0
      BY <1>2, <1>10, <1>11, <1>13
    <3>2. Len(data) \in Nat
      BY <1>7
    <3> HIDE DEF a, from
    <3> QED
      BY <2>1, <3>1, <3>2
  <2>3. \A j \in 1 .. Len(nal(k)) : data[a + j] = nal(k)[j]
    BY <1>8
  <2>4. data[a + (Len(nal(k)) + 1)] = 0
    <3>1. k + 1 \in 1 .. N /\ (k + 1) - 1 = k
      BY <1>1, <1>13
    <3>2. data[at(k) + 1] = 0
      BY <1>8, <3>1
    <3>3. a + (Len(nal(k)) + 1) = at(k) + 1
      BY <2>2
    <3> QED
      BY <3>2, <3>3
  <2> HIDE DEF a
  <2>5. /\ len \in Seq(Byte) /\ Len(len) = Len(nal(k)) + 1
        /\ \A j \in 1 .. Len(nal(k)) + 1 : len[j] = data[a + j]
    <3>1. a + (Len(nal(k)) + 1) <= Len(data) /\ Len(nal(k)) + 1 \in Nat
      BY <1>7, <2>2
    <3>2. len = SubSeq(data, a + 1, a + (Len(nal(k)) + 1))
      BY <2>2
    <3> HIDE DEF len
    <3> QED
      BY <1>7, <2>2, <3>1, <3>2, SliceIs
  <2> HIDE DEF from
  <2>6. Stripped(len) = nal(k)
    <3> HIDE DEF len
    <3>1. len[Len(nal(k)) + 1] = 0 /\ \A j \in 1 .. Len(nal(k)) : len[j] = nal(k)[j]
      <4>1. Len(nal(k)) + 1 \in 1 .. Len(nal(k)) + 1 /\ \A j \in 1 .. Len(nal(k)) : j \in 1 .. Len(nal(k)) + 1
        BY <2>2
      <4> QED
        BY <2>3, <2>4, <2>5, <4>1
    <3>2. Len(nal(k)) >= 1
      BY <2>2
    <3> QED
      BY <2>2, <2>5, <3>1, <3>2, StrippedIs
  <2>7. U[from(k)] = ParseNAL(Stripped(len)) \o U[c + 3]
    <3>1. from(k) \in 1 .. Len(data) + 1 /\ ~(from(k) > Len(data)) /\ StartCodes(data, from(k)) # {}
      BY <1>7, <1>10, <1>11, <1>13
    <3> QED
      BY <1>7, <3>1, AnnexBIs DEF c
  <2>8. c + 3 = from(k + 1)
    <3>1. from(k + 1) = at(k) + 5 /\ at(k) \in Nat
      BY <1>7, <1>10, <1>13
    <3> QED
      BY <2>1, <3>1
  <2> QED
    BY <1>2, <1>6, <2>6, <2>7, <2>8
<1> HIDE DEF from, U
<1>14. N >= 1 => 0 \in T
  <2> SUFFICES ASSUME N >= 1 PROVE Unread(nals, U[from(N)], N - 1)
    <3>1. N - 0 = N /\ N - (0 + 1) = N - 1
      BY <1>1
    <3> QED
      BY <3>1
  <2>1. N \in 1 .. N
    BY <1>1
  <2>2. Unread(nals, <<nals[N]>> \o <<>>, N - 1)
    BY <1>1, <1>6, <2>1, BehindNone, BehindStep
  <2>3. <<nals[N]>> \o <<>> = <<nals[N]>>
    OBVIOUS
  <2> QED
    BY <1>12, <2>1, <2>2, <2>3
<1>15. \A m \in T : m + 1 \in T
  <2> SUFFICES ASSUME NEW m \in Nat, (m + 1) + 1 <= N, Unread(nals, U[from(N - m)], N - (m + 1))
               PROVE  Unread(nals, U[from(N - (m + 1))], N - ((m + 1) + 1))
    BY <1>1
  <2> DEFINE k == N - (m + 1)
  <2>1. k \in 1 .. N /\ k # N /\ k + 1 = N - m /\ k - 1 = N - ((m + 1) + 1)
    BY <1>1
  <2>2. Unread(nals, U[from(k + 1)], k)
    BY <2>1
  <2> HIDE DEF k
  <2>3. Unread(nals, <<nals[k]>> \o U[from(k + 1)], k - 1)
    BY <1>1, <1>6, <2>1, <2>2, BehindStep
  <2>4. Unread(nals, U[from(k)], k - 1)
    BY <1>13, <2>1, <2>3
  <2> QED
    BY <2>1, <2>4 DEF k
<1>16. N >= 1 => Unread(nals, U[5], 0)
  <2> SUFFICES ASSUME N >= 1 PROVE Unread(nals, U[5], 0)
    OBVIOUS
  <2>1. T = Nat
    <3> HIDE DEF T
    <3>1. T \in SUBSET Nat
      BY DEF T
    <3> QED
      BY <1>14, <1>15, <3>1, Induct
  <2>2. N - 1 \in T /\ (N - 1) + 1 <= N
    <3> HIDE DEF T
    <3> QED
      BY <1>1, <2>1
  <2>3. N - (N - 1) = 1 /\ N - ((N - 1) + 1) = 0
    BY <1>1
  <2>4. Unread(nals, U[from(1)], 0)
    BY <2>2, <2>3
  <2>5. from(1) = 5
    <3>1. 1 - 1 = 0
      OBVIOUS
    <3> QED
      BY <1>7, <3>1 DEF from
  <2> QED
    BY <2>4, <2>5
<1>17. N >= 1 => SplitAnnexB(data) = U[5]
  <2> SUFFICES ASSUME N >= 1 PROVE SplitAnnexB(data) = U[5]
    OBVIOUS
  <2>1. 1 \in 1 .. N /\ 1 - 1 = 0
    BY <1>1
  <2>2. /\ data[1] = 0 /\ data[2] = 0 /\ data[3] = 0 /\ data[4] = 1 /\ Len(data) >= 4
    <3>1. /\ data[at(0) + 1] = 0 /\ data[at(0) + 2] = 0 /\ data[at(0) + 3] = 0 /\ data[at(0) + 4] = 1
          /\ at(1) = at(0) + 4 + Len(nal(1)) /\ at(1) <= Len(data) /\ Len(nal(1)) \in Nat
      BY <1>2, <1>8, <2>1
    <3> QED
      BY <1>7, <3>1
  <2>3. 2 \in StartCodes(data, 1) /\ 1 \notin StartCodes(data, 1)
    BY <1>7, <2>2 DEF StartCodes
  <2>4. /\ startCode(data, 1) \in StartCodes(data, 1) /\ startCode(data, 1) \in 1 .. Len(data) - 2
        /\ \A j \in StartCodes(data, 1) : startCode(data, 1) <= j
    <3>1. 1 \in 1 .. Len(data) + 1
      BY <1>7
    <3> QED
      BY <1>7, <2>3, <3>1, StartCodeIs
  <2>5. startCode(data, 1) = 2
    BY <2>3, <2>4
  <2> QED
    BY <2>3, <2>5 DEF SplitAnnexB, U
<1>18. N = 0 => SplitAnnexB(data) = <<>> /\ Unread(nals, <<>>, 0)
  <2> SUFFICES ASSUME N = 0 PROVE SplitAnnexB(data) = <<>> /\ Unread(nals, <<>>, 0)
    OBVIOUS
  <2>1. StartCodes(data, 1) = {}
    BY <1>7 DEF StartCodes
  <2>2. SplitAnnexB(data) = <<>>
    BY <2>1 DEF SplitAnnexB
  <2>3. Len(nals) = 0
    BY <1>6
  <2>4. Unread(nals, <<>>, Len(nals))
    BY <2>3, BehindNone
  <2> QED
    BY <2>2, <2>3, <2>4
<1>19. Unread(Given(rs), SplitAnnexB(MarshalAnnexB(rs)), 0)
  BY <1>1, <1>5, <1>16, <1>17, <1>18 DEF nals
<1>20. rs = [k \in 1 .. Len(rs) |-> rs[k]] /\ Len(rs) \in Nat
  OBVIOUS
<1> QED
  BY <1>1, <1>19, <1>20, BehindAll DEF N

-----------------------------------------------------------------------------
(* The theorem.                                                            *)

LEMMA AllUsual == ASSUME NEW u \in Units \cup Followers PROVE Usual(u)
BY UnitsGiven DEF UnitAssumption, Usual

KnownUnits == written \in Seq(Units \cup Followers)

LEMMA SubstreamsAre == ASSUME KnownUnits PROVE SubstreamsFound
<1> SUFFICES ASSUME NEW k \in 1 .. Len(written)
             PROVE  LET u   == written[k]
                        nal == unescape(escapeRBSP(Rbsp(u)))
                    IN  /\ substreamStarts(nal, Len(u.hdr), EntryPoints(escapedSizes(u.subs)))
                             = [i \in 1 .. Len(u.subs) |-> Len(u.hdr) + Len(Joined(u.subs)[i - 1])]
                        /\ \A o \in 0 .. Len(nal.rbsp) : RBSPOffset(nal.epb, NALOffset(nal.epb, o)) = o
  BY DEF SubstreamsFound
<1> DEFINE u == written[k]
           s == Rbsp(u)
           nal == unescape(escapeRBSP(s))
<1>1. Usual(u)
  <2>1. u \in Units \cup Followers
    BY DEF KnownUnits
  <2> QED
    BY <2>1, AllUsual
<1> HIDE DEF u
<1>2. s \in Seq(Byte)
  BY <1>1, RbspIs DEF EndsOnASetBit
<1>3. nal.rbsp = s
  <2> HIDE DEF s
  <2> QED
    BY <1>2, RoundTrip
<1>4. \A o \in 0 .. Len(nal.rbsp) : RBSPOffset(nal.epb, NALOffset(nal.epb, o)) = o
  <2> HIDE DEF s
  <2> QED
    BY <1>2, <1>3, OffsetsAre
<1>5. substreamStarts(nal, Len(u.hdr), EntryPoints(escapedSizes(u.subs)))
          = [i \in 1 .. Len(u.subs) |-> Len(u.hdr) + Len(Joined(u.subs)[i - 1])]
  BY <1>1, StartsAre
<1> QED
  BY <1>4, <1>5 DEF u, s, nal

LEMMA FramingIs == ASSUME KnownUnits PROVE FramingRoundTrip
<1> DEFINE rs == Rbsps
<1>1. Len(written) \in Nat
  BY DEF KnownUnits
<1>2. ASSUME NEW k \in 1 .. Len(written) PROVE EndsOnASetBit(Rbsp(written[k]))
  <2>1. written[k] \in Units \cup Followers
    BY DEF KnownUnits
  <2>2. Usual(written[k])
    BY <2>1, AllUsual
  <2> QED
    BY <2>2, RbspIs
<1>3. Len(rs) = Len(written) /\ \A k \in 1 .. Len(written) : rs[k] = Rbsp(written[k])
  BY <1>1 DEF Rbsps
<1>4. \A k \in 1 .. Len(written) : EndsOnASetBit(rs[k]) /\ rs[k] \in Seq(Byte)
  BY <1>2, <1>3 DEF EndsOnASetBit
<1>5. rs = [k \in 1 .. Len(written) |-> rs[k]]
  BY DEF Rbsps
<1> HIDE DEF rs
<1>6. rs \in Seq(Seq(Byte))
  BY <1>1, <1>4, <1>5, SeqFrom
<1>7. \A k \in 1 .. Len(rs) : EndsOnASetBit(rs[k])
  BY <1>3, <1>4
<1> QED
  BY <1>6, <1>7, AnnexBBack, HVCCBack DEF FramingRoundTrip, rs

\* In every state a sequence of units was written that end on a set bit.
LEMMA UnitsAreKnown == NalSpec => []KnownUnits
<1>1. NalInit => KnownUnits
  BY DEF NalInit, KnownUnits
<1>2. KnownUnits /\ [NalNext]_written => KnownUnits'
  <2> SUFFICES ASSUME KnownUnits, NalNext PROVE KnownUnits'
    BY DEF KnownUnits
  <2>1. PICK u \in Units \cup Followers : written' = Append(written, u)
    <3>1. PICK u \in (IF written = <<>> THEN Units ELSE Followers) : Write(u)
      BY DEF NalNext
    <3> QED
      BY <3>1 DEF Write
  <2> QED
    BY <2>1, AppendProperties DEF KnownUnits
<1> QED
  BY <1>1, <1>2, PTL DEF NalSpec

\* Whatever units are written, of whatever bytes, both framings give them back,
\* and the decoder starts every substream at the byte the encoder began it with
\* (escapeRBSP, SplitAnnexB, SplitHVCC, unescape, NALOffset and RBSPOffset of
\* nal.go, escapedSizes of lossyenc.go, substreamStarts of decoder.go).
THEOREM UnitsArriveWhole == NalSpec => []UnitsAsWritten
<1>1. KnownUnits => UnitsAsWritten
  BY SubstreamsAre, FramingIs DEF UnitsAsWritten
<1> QED
  BY <1>1, UnitsAreKnown, PTL

-----------------------------------------------------------------------------
(* The least and the greatest number of a set.                             *)

LEMMA LeastOf ==
    ASSUME NEW T \in SUBSET Nat, T # {}
    PROVE  \E k \in T : \A n \in T : k <= n
<1>1. IsWellFoundedOn(OpToRel(<, Nat), Nat)
  BY NatLessThanWellFounded
<1>2. PICK k \in T : \A n \in T : <<n, k>> \notin OpToRel(<, Nat)
  BY <1>1, WFMin
<1>3. \A n \in T : ~(n < k)
  BY <1>2 DEF OpToRel
<1> QED
  BY <1>3

LEMMA GreatestOf ==
    ASSUME NEW N \in Nat, NEW T \in SUBSET (0 .. N), T # {}
    PROVE  \E k \in T : \A n \in T : n <= k
<1> DEFINE U == {N - n : n \in T}
<1>1. U \in SUBSET Nat /\ U # {}
  <2>1. \A n \in T : N - n \in Nat
    OBVIOUS
  <2> QED
    BY <2>1
<1>2. PICK u \in U : \A n \in U : u <= n
  <2> HIDE DEF U
  <2> QED
    BY <1>1, LeastOf
<1>3. PICK k \in T : u = N - k
  OBVIOUS
<1>4. ASSUME NEW n \in T PROVE n <= k
  BY <1>2, <1>3
<1> QED
  BY <1>4

-----------------------------------------------------------------------------
(* SegmentData: the inductive invariant.  Of a picture with wavefronts it   *)
(* needs that the tile scan is the raster scan, that a row is in one tile   *)
(* and that a tile is what lies between two of its blocks.                  *)

PicOK(p) ==
    /\ p.size \in Nat \ {0} /\ p.wpp \in BOOLEAN
    /\ p.wpp =>
          /\ p.w \in Nat \ {0}
          /\ \A t \in 0 .. p.size - 1 : p.rsToTs[t] = t /\ p.tsToRs[t] = t
          /\ \A t, u \in 0 .. p.size - 1 : t \div p.w = u \div p.w => p.tileID[t] = p.tileID[u]
          /\ \A t, u, x \in 0 .. p.size - 1 :
                t <= u /\ u <= x /\ p.tileID[t] = p.tileID[x] => p.tileID[u] = p.tileID[x]

PartsOK(p, segs) ==
    /\ \A s \in segs : /\ s.start \in 0 .. p.size - 1 /\ s.end \in 0 .. p.size - 1 /\ s.start <= s.end
                       /\ s.dep \in BOOLEAN /\ (s.start = 0 => ~s.dep)
    /\ \A t \in 0 .. p.size - 1 : \E s \in segs : s.start <= t /\ t <= s.end
    /\ \A s, x \in segs : s.start <= x.end /\ x.start <= s.end => s = x

Coded == PicOK(pic) /\ PartsOK(pic, segments) /\ Conforming(pic, segments)

Header(n) == Slice(pic.tsToRs[SliceStart(n)])
Divided(t) == FirstInTile(t) \/ FirstInRow(t)
Substreams(s, n) == Cardinality({t \in s.start + 1 .. n : Divided(t)})

Fields == {"open", "prevSlic", "sliceAddrRs", "depSliceAddrRs", "nextCTU",
           "ctx", "qp", "saved", "depSaved", "corrupt"}
Shaped == DOMAIN d = Fields /\ d.open \in BOOLEAN /\ d.corrupt \in BOOLEAN

ReadUpTo(n) == read = [t \in Blocks |-> IF t < n THEN CodedWith(t) ELSE Unset]

SavedFor(n) ==
    \A t \in Blocks :
        /\ pic.wpp /\ pic.w >= 2 /\ t % pic.w = 1 /\ t < n /\ n <= t + pic.w
        /\ n \in Blocks /\ pic.tileID[t] = pic.tileID[n]
        => d.saved = After(t)

InSegment(s, n) ==
    /\ s \in segments /\ n \in Blocks /\ s.start <= n /\ n <= s.end
    /\ seg = [on |-> TRUE, start |-> s.start, end |-> s.end, hdr |-> Header(n),
              ts |-> n, sub |-> Substreams(s, n)]
    /\ d.ctx = IF FirstInTile(n) \/ (n = s.start /\ ~s.dep) THEN Header(n) ELSE After(n - 1)
    /\ n = SliceStart(n) \/ FirstInTile(n) => d.qp = Header(n)
    /\ ~(n = SliceStart(n) \/ FirstInTile(n) \/ FirstInRow(n)) => d.qp = After(n - 1)
    /\ d.prevSlic = Header(n)
    /\ d.sliceAddrRs = pic.tsToRs[SliceStart(n)]
    /\ d.depSliceAddrRs = pic.tsToRs[SliceStart(n)]

Between(n) ==
    /\ seg = Idle /\ n \in Nat /\ n > 0 /\ n - 1 \in Blocks
    /\ d.prevSlic = Header(n - 1)
    /\ d.depSliceAddrRs = pic.tsToRs[SliceStart(n - 1)]
    /\ d.depSaved = After(n - 1) /\ d.qp = After(n - 1)

Fresh == ~d.open /\ seg = Idle /\ d.nextCTU = 0 /\ read = [t \in Blocks |-> Unset]
DecodedUpTo(n) ==
    /\ d.open /\ d.nextCTU = n /\ ReadUpTo(n) /\ SavedFor(n)
    /\ (\E s \in segments : InSegment(s, n)) \/ Between(n)
Decoded == \E n \in Nat : DecodedUpTo(n)

SegmentsInv == Shaped /\ Coded /\ (d.corrupt \/ Fresh \/ Decoded)

-----------------------------------------------------------------------------
(* Segments and slices. *)

LEMMA BlocksAre == ASSUME PicOK(pic) PROVE pic.size \in Nat \ {0} /\ Blocks = 0 .. pic.size - 1
BY DEF PicOK, Blocks

\* Behind a segment another one starts.
LEMMA NextStarts ==
    ASSUME Coded, NEW s \in segments, s.end + 1 \in Blocks
    PROVE  \E x \in segments : x.start = s.end + 1
<1>1. PICK x \in segments : x.start <= s.end + 1 /\ s.end + 1 <= x.end
  BY DEF Coded, PartsOK, Blocks
<1>2. s.start \in Int /\ s.end \in Int /\ s.start <= s.end /\ x.start \in Int /\ x.end \in Int
  BY DEF Coded, PartsOK
<1>3. CASE x.start <= s.end
  <2>1. x = s
    BY <1>1, <1>2, <1>3 DEF Coded, PartsOK
  <2> QED
    BY <2>1, <1>1, <1>2
<1> QED
  BY <1>1, <1>2, <1>3

\* One segment holds a block.
LEMMA SegmentOfIs ==
    ASSUME Coded, NEW n \in Blocks, NEW s \in segments, s.start <= n, n <= s.end
    PROVE  SegmentOf(n) = s
<1>1. \A x \in segments : x.start \in Int /\ x.end \in Int
  BY DEF Coded, PartsOK
<1>2. n \in Int
  BY BlocksAre DEF Coded
<1>3. ASSUME NEW x \in segments, x.start <= n, n <= x.end PROVE x = s
  BY <1>1, <1>2, <1>3 DEF Coded, PartsOK
<1> QED
  BY <1>3 DEF SegmentOf

IsSliceStart(a, n) ==
    /\ a \in {s.start : s \in {x \in segments : ~x.dep}}
    /\ a <= n
    /\ \A s \in segments : a < s.start /\ s.start <= n => s.dep

\* The slice of a block begins with the last segment at or before it that is not
\* dependent.
LEMMA SliceStartIs ==
    ASSUME Coded, NEW n \in Blocks
    PROVE  IsSliceStart(SliceStart(n), n) /\ SliceStart(n) \in Blocks
<1>1. n \in Nat /\ Blocks = 0 .. pic.size - 1 /\ pic.size \in Nat \ {0}
  BY BlocksAre DEF Coded
<1>2. \A s \in segments : s.start \in Blocks /\ s.end \in Blocks /\ s.start <= s.end /\ s.dep \in BOOLEAN /\ (s.start = 0 => ~s.dep)
  BY DEF Coded, PartsOK, Blocks
<1> DEFINE T == {a \in 0 .. n : \E s \in segments : ~s.dep /\ s.start = a}
<1>3. 0 \in T
  <2>1. 0 \in Blocks
    BY <1>1
  <2>2. PICK s \in segments : s.start <= 0 /\ 0 <= s.end
    BY <2>1 DEF Coded, PartsOK, Blocks
  <2>3. s.start = 0
    BY <1>1, <1>2, <2>2
  <2> QED
    BY <1>1, <1>2, <2>3
<1>4. PICK a \in T : \A b \in T : b <= a
  <2>1. T \in SUBSET (0 .. n) /\ T # {}
    BY <1>3
  <2> HIDE DEF T
  <2> QED
    BY <1>1, <2>1, GreatestOf
<1>5. ASSUME NEW s \in segments, a < s.start, s.start <= n PROVE s.dep
  <2>1. s.start \in Nat /\ s.start \in 0 .. n
    BY <1>1, <1>2, <1>5
  <2>2. SUFFICES ASSUME ~s.dep PROVE FALSE
    OBVIOUS
  <2>3. s.start \in T
    BY <2>1, <2>2
  <2> QED
    BY <1>1, <1>4, <1>5, <2>1, <2>3
<1>6. IsSliceStart(a, n)
  BY <1>1, <1>4, <1>5 DEF IsSliceStart
<1>7. SliceStart(n) = CHOOSE b \in {s.start : s \in {x \in segments : ~x.dep}} : IsSliceStart(b, n)
  BY DEF SliceStart, IsSliceStart
<1>8. a \in {s.start : s \in {x \in segments : ~x.dep}}
  BY <1>6 DEF IsSliceStart
<1>9. IsSliceStart(SliceStart(n), n)
  BY <1>6, <1>7, <1>8
<1> QED
  BY <1>2, <1>9 DEF IsSliceStart

LEMMA SliceStartOnly ==
    ASSUME Coded, NEW n \in Blocks, NEW a, IsSliceStart(a, n)
    PROVE  SliceStart(n) = a
<1> DEFINE b == SliceStart(n)
<1>1. IsSliceStart(b, n) /\ b \in Blocks
  BY SliceStartIs
<1>2. PICK s \in segments, x \in segments : s.start = a /\ ~s.dep /\ x.start = b /\ ~x.dep
  BY <1>1 DEF IsSliceStart
<1>3. s.start \in Int /\ x.start \in Int /\ n \in Int
  BY BlocksAre DEF Coded, PartsOK
<1>4. ~(a < b) /\ ~(b < a)
  BY <1>1, <1>2 DEF IsSliceStart
<1> QED
  BY <1>2, <1>3, <1>4

\* A slice that starts with a block, and one that goes on.
LEMMA SliceStarts ==
    ASSUME Coded, NEW s \in segments, ~s.dep
    PROVE  SliceStart(s.start) = s.start
<1>1. s.start \in Blocks /\ s.start \in Int
  BY BlocksAre DEF Coded, PartsOK
<1>2. IsSliceStart(s.start, s.start)
  <2>1. \A x \in segments : x.start \in Int
    BY BlocksAre DEF Coded, PartsOK
  <2> QED
    BY <1>1, <2>1 DEF IsSliceStart
<1> QED
  BY <1>1, <1>2, SliceStartOnly

LEMMA SliceGoesOn ==
    ASSUME Coded, NEW n \in Blocks, NEW m \in Blocks, m <= n, SliceStart(n) <= m
    PROVE  SliceStart(m) = SliceStart(n)
<1>1. IsSliceStart(SliceStart(n), n)
  BY SliceStartIs
<1>2. \A x \in segments : x.start \in Int
  BY DEF Coded, PartsOK
<1>3. n \in Int /\ m \in Int
  BY BlocksAre DEF Coded
<1>4. IsSliceStart(SliceStart(n), m)
  BY <1>1, <1>2, <1>3 DEF IsSliceStart
<1> QED
  BY <1>4, SliceStartOnly

LEMMA SliceStep ==
    ASSUME Coded, NEW n \in Blocks, n + 1 \in Blocks,
           \A s \in segments : s.start = n + 1 => s.dep
    PROVE  SliceStart(n + 1) = SliceStart(n)
<1>1. IsSliceStart(SliceStart(n), n) /\ SliceStart(n) \in Blocks
  BY SliceStartIs
<1>2. n \in Int /\ SliceStart(n) \in Int
  BY <1>1, BlocksAre DEF Coded
<1>3. ASSUME NEW s \in segments, SliceStart(n) < s.start, s.start <= n + 1 PROVE s.dep
  <2>1. s.start \in Int
    BY DEF Coded, PartsOK
  <2>2. CASE s.start = n + 1
    BY <2>2
  <2>3. CASE s.start <= n
    BY <1>1, <1>3, <2>3 DEF IsSliceStart
  <2> QED
    BY <1>2, <1>3, <2>1, <2>2, <2>3
<1>4. IsSliceStart(SliceStart(n), n + 1)
  <2>1. SliceStart(n) <= n + 1
    BY <1>1, <1>2 DEF IsSliceStart
  <2> QED
    BY <1>1, <1>3, <2>1 DEF IsSliceStart
<1> QED
  BY <1>4, SliceStartOnly

\* Within a segment the slice goes on.
LEMMA SegmentStep ==
    ASSUME Coded, NEW s \in segments, NEW n \in Blocks, s.start <= n, n < s.end
    PROVE  n + 1 \in Blocks /\ SliceStart(n + 1) = SliceStart(n)
<1>1. \A x \in segments : x.start \in Int /\ x.end \in Blocks /\ x.start <= x.end
  BY DEF Coded, PartsOK, Blocks
<1>2. n \in Int /\ \A t \in Blocks : t \in Int
  BY BlocksAre DEF Coded
<1>3. n + 1 \in Blocks
  BY <1>1, <1>2, BlocksAre DEF Coded
<1>4. ASSUME NEW x \in segments, x.start = n + 1 PROVE FALSE
  <2>1. x = s
    BY <1>1, <1>2, <1>4 DEF Coded, PartsOK
  <2> QED
    BY <1>2, <1>4, <2>1
<1> QED
  BY <1>3, <1>4, SliceStep

\* A slice ends behind all of its blocks.
LEMMA SliceEndIs ==
    ASSUME Coded, NEW s \in segments, ~s.dep, NEW n \in Blocks, SliceStart(n) = s.start
    PROVE  SliceEnd(segments, s) \in Blocks /\ SliceEnd(segments, s) >= n
<1> DEFINE Borders == {x.end : x \in segments}
           Ok(e) == /\ e >= s.end
                    /\ \A x \in segments : x.start > s.start /\ x.start <= e => x.dep
                    /\ \A x \in segments : x.start = e + 1 => ~x.dep
           T == {e \in Borders : e >= s.end /\ \A x \in segments : x.start = e + 1 => ~x.dep}
           last == pic.size - 1
<1>1. \A x \in segments : x.start \in Blocks /\ x.end \in Blocks /\ x.start <= x.end /\ x.dep \in BOOLEAN
  BY DEF Coded, PartsOK, Blocks
<1>2. Blocks = 0 .. last /\ last \in Nat /\ n \in Nat
  BY BlocksAre DEF Coded
<1>3. last \in T
  <2>1. PICK x \in segments : x.start <= last /\ last <= x.end
    BY <1>2 DEF Coded, PartsOK, Blocks
  <2>2. x.end = last
    BY <1>1, <1>2, <2>1
  <2>3. last >= s.end /\ \A y \in segments : y.start # last + 1
    BY <1>1, <1>2
  <2> QED
    BY <2>2, <2>3
<1>4. T \in SUBSET Nat
  BY <1>1, <1>2
<1>5. PICK e \in T : \A f \in T : e <= f
  <2> HIDE DEF T
  <2> QED
    BY <1>3, <1>4, LeastOf
<1>6. e \in Blocks /\ e \in Nat /\ e \in Borders
  BY <1>1, <1>2, <1>5
<1>7. ASSUME NEW x \in segments, x.start > s.start, x.start <= e PROVE x.dep
  <2>1. SUFFICES ASSUME ~x.dep PROVE FALSE
    BY <1>1
  <2>2. x.start > s.end
    BY <1>1, <1>2, <1>7 DEF Coded, PartsOK
  <2>3. x.start - 1 \in Blocks
    BY <1>1, <1>2, <2>2
  <2>4. PICK y \in segments : y.start <= x.start - 1 /\ x.start - 1 <= y.end
    BY <2>3 DEF Coded, PartsOK, Blocks
  <2>5. y.end = x.start - 1
    <3>1. SUFFICES ASSUME y.end # x.start - 1 PROVE FALSE
      OBVIOUS
    <3>2. y.start <= x.end /\ x.start <= y.end
      BY <1>1, <1>2, <2>4, <3>1
    <3>3. y = x
      BY <3>2 DEF Coded, PartsOK
    <3> QED
      BY <1>1, <1>2, <2>4, <3>3
  <2>6. \A z \in segments : z.start = y.end + 1 => z = x
    BY <1>1, <1>2, <2>5 DEF Coded, PartsOK
  <2>7. y.end \in T
    BY <1>1, <1>2, <2>1, <2>2, <2>5, <2>6
  <2>8. e <= y.end
    <3> HIDE DEF T
    <3> QED
      BY <1>5, <2>7
  <2> QED
    BY <1>1, <1>2, <1>6, <1>7, <2>5, <2>8
<1>8. Ok(e)
  BY <1>5, <1>7
<1> DEFINE E == SliceEnd(segments, s)
<1>9. E \in Borders /\ Ok(E)
  <2>1. E = CHOOSE f \in Borders : Ok(f)
    BY DEF SliceEnd
  <2> HIDE DEF Ok, Borders, E
  <2> QED
    BY <1>6, <1>8, <2>1
<1>10. E \in Blocks /\ E \in Nat
  BY <1>1, <1>2, <1>9
<1>11. E >= n
  <2> HIDE DEF E
  <2>1. SUFFICES ASSUME E < n PROVE FALSE
    BY <1>2, <1>10
  <2>2. PICK y \in segments : y.end = E
    BY <1>9
  <2>3. E + 1 \in Blocks
    BY <1>2, <1>10, <2>1
  <2>4. PICK x \in segments : x.start = E + 1
    BY <2>2, <2>3, NextStarts
  <2>5. ~x.dep
    BY <1>9, <2>4
  <2>6. IsSliceStart(s.start, n)
    BY SliceStartIs
  <2>7. s.start < x.start /\ x.start <= n
    BY <1>1, <1>2, <1>9, <1>10, <2>1, <2>4
  <2> QED
    BY <2>5, <2>6, <2>7 DEF IsSliceStart
<1> QED
  BY <1>10, <1>11

\* The segments of an encoder partition the picture.
LEMMA SegmentsArePart ==
    ASSUME NEW p, p.size \in Nat \ {0}, NEW b \in Begins(p)
    PROVE  PartsOK(p, Segments(p, b))
<1> DEFINE last == p.size - 1
           S == Starts(p, b)
           End(t) == EndOf(p, b, t)
           IsEnd(t, e) == (\A u \in t + 1 .. e : u \notin S) /\ (e = last \/ e + 1 \in S)
           segs == Segments(p, b)
<1>1. last \in Nat /\ S \in SUBSET (0 .. last) /\ 0 \in S
  BY DEF Starts
<1>2. ASSUME NEW t \in S PROVE End(t) \in t .. last /\ IsEnd(t, End(t))
  <2> DEFINE T == {e \in t .. last : e = last \/ e + 1 \in S}
  <2>1. last \in T /\ T \in SUBSET Nat
    BY <1>1
  <2>2. PICK e \in T : \A f \in T : e <= f
    <3> HIDE DEF T
    <3> QED
      BY <2>1, LeastOf
  <2>3. ASSUME NEW u \in t + 1 .. e PROVE u \notin S
    <3>1. SUFFICES ASSUME u \in S PROVE FALSE
      OBVIOUS
    <3>2. u - 1 \in T
      BY <1>1, <2>2, <3>1
    <3>3. e <= u - 1
      <4> HIDE DEF T
      <4> QED
        BY <2>2, <3>2
    <3> QED
      BY <1>1, <2>2, <3>3
  <2>4. e \in t .. last /\ IsEnd(t, e)
    BY <2>2, <2>3
  <2>5. End(t) = CHOOSE f \in t .. last : IsEnd(t, f)
    BY DEF EndOf
  <2> HIDE DEF End, IsEnd
  <2> QED
    BY <2>4, <2>5
<1>3. segs = {[start |-> t, end |-> End(t), dep |-> t > 0 /\ b[t] = "dependent"] : t \in S}
  BY DEF Segments
<1> HIDE DEF End, S, segs
<1>4. ASSUME NEW s \in segs
      PROVE  s.start \in S /\ s = [start |-> s.start, end |-> End(s.start), dep |-> s.start > 0 /\ b[s.start] = "dependent"]
  BY <1>3
<1>5. ASSUME NEW s \in segs
      PROVE  /\ s.start \in 0 .. last /\ s.end \in 0 .. last /\ s.start <= s.end
             /\ s.dep \in BOOLEAN /\ (s.start = 0 => ~s.dep)
  <2> DEFINE a == s.start
  <2>1. a \in S /\ s = [start |-> a, end |-> End(a), dep |-> a > 0 /\ b[a] = "dependent"]
    BY <1>4
  <2> HIDE DEF a
  <2>2. a \in 0 .. last /\ End(a) \in a .. last
    BY <1>1, <1>2, <2>1
  <2>3. s.start = a /\ s.end = End(a) /\ s.dep \in BOOLEAN /\ (a = 0 => ~s.dep)
    <3> DEFINE dep == a > 0 /\ b[a] = "dependent"
    <3>1. dep \in BOOLEAN /\ (a = 0 => dep = FALSE)
      BY <2>2
    <3>2. s = [start |-> a, end |-> End(a), dep |-> dep]
      BY <2>1
    <3> HIDE DEF dep
    <3>3. s.start = a /\ s.end = End(a) /\ s.dep = dep
      BY <3>2
    <3> QED
      BY <3>1, <3>3
  <2> QED
    BY <1>1, <2>2, <2>3
<1>6. ASSUME NEW t \in 0 .. last PROVE \E s \in segs : s.start <= t /\ t <= s.end
  <2> DEFINE T == {a \in 0 .. t : a \in S}
  <2>1. T \in SUBSET (0 .. t) /\ 0 \in T /\ t \in Nat
    BY <1>1
  <2>2. PICK a \in T : \A x \in T : x <= a
    <3> HIDE DEF T
    <3> QED
      BY <2>1, GreatestOf
  <2>3. a \in S /\ a \in 0 .. t
    OBVIOUS
  <2>4. End(a) \in a .. last /\ IsEnd(a, End(a))
    BY <1>2, <2>3
  <2>5. t <= End(a)
    <3>1. SUFFICES ASSUME End(a) < t PROVE FALSE
      BY <2>1, <2>4, <1>1
    <3>2. End(a) + 1 \in S
      BY <1>1, <2>1, <2>4, <3>1
    <3>3. End(a) + 1 \in T
      BY <1>1, <2>3, <2>4, <3>1, <3>2
    <3> HIDE DEF T
    <3> QED
      BY <1>1, <2>2, <2>3, <2>4, <3>3
  <2> DEFINE s == [start |-> a, end |-> End(a), dep |-> a > 0 /\ b[a] = "dependent"]
  <2>6. s \in segs
    BY <1>3, <2>3
  <2> QED
    BY <2>3, <2>5, <2>6
<1>7. ASSUME NEW s \in segs, NEW x \in segs, s.start <= x.end, x.start <= s.end PROVE s = x
  <2>0. ASSUME NEW y \in segs PROVE y.start \in S /\ y.end = End(y.start)
    BY <1>4
  <2> DEFINE a == s.start
             c == x.start
  <2>1. a \in S /\ c \in S /\ s.end = End(a) /\ x.end = End(c) /\ a <= End(c) /\ c <= End(a)
    BY <2>0, <1>7
  <2>2. a = c
    <3> HIDE DEF a, c
    <3>1. a \in 0 .. last /\ c \in 0 .. last
      BY <1>1, <2>1
    <3>2. (\A u \in a + 1 .. End(a) : u \notin S) /\ (\A u \in c + 1 .. End(c) : u \notin S)
      BY <1>2, <2>1
    <3>3. End(a) \in Int /\ End(c) \in Int
      BY <1>1, <1>2, <2>1
    <3>4. ~(a < c) /\ ~(c < a)
      BY <1>1, <2>1, <3>1, <3>2, <3>3
    <3> QED
      BY <3>1, <3>4, <1>1
  <2> QED
    BY <1>4, <2>2
<1>8. PartsOK(p, segs)
  BY <1>5, <1>6, <1>7 DEF PartsOK
<1> QED
  BY <1>8 DEF segs

-----------------------------------------------------------------------------
(* Rows and tiles. *)

LEMMA DivMod ==
    ASSUME NEW a \in Nat, NEW n \in Nat \ {0}
    PROVE  /\ a \div n \in Nat /\ a % n \in 0 .. n - 1
           /\ n * (a \div n) \in Nat
           /\ a = n * (a \div n) + (a % n)
  BY SMT

LEMMA DivModOnly ==
    ASSUME NEW a \in Nat, NEW n \in Nat \ {0}, NEW q \in Nat, NEW r \in 0 .. n - 1, a = n * q + r
    PROVE  a \div n = q /\ a % n = r
  BY SMT

\* A row ends where the next one begins.
LEMMA RowStep ==
    ASSUME NEW n \in Nat, NEW w \in Nat \ {0}
    PROVE  /\ n % w = w - 1 <=> (n + 1) % w = 0
           /\ (n + 1) % w # 0 => (n + 1) \div w = n \div w
<1> DEFINE q == n \div w
           r == n % w
<1>1. q \in Nat /\ r \in 0 .. w - 1 /\ w * q \in Nat /\ n = w * q + r
  BY DivMod
<1>4. n + 1 \in Nat
  OBVIOUS
<1>2. CASE r = w - 1
  <2>1. n + 1 = w * (q + 1) + 0 /\ 0 \in 0 .. w - 1 /\ q + 1 \in Nat
    <3> HIDE DEF q, r
    <3> QED
      BY <1>1, <1>2
  <2>2. (n + 1) % w = 0
    <3> HIDE DEF q, r
    <3> QED
      BY <1>4, <2>1, DivModOnly
  <2> QED
    BY <1>2, <2>2
<1>3. CASE r # w - 1
  <2>1. n + 1 = w * q + (r + 1) /\ r + 1 \in 0 .. w - 1
    <3> HIDE DEF q, r
    <3> QED
      BY <1>1, <1>3
  <2>2. (n + 1) % w = r + 1 /\ (n + 1) \div w = q
    <3> HIDE DEF q, r
    <3> QED
      BY <1>1, <1>4, <2>1, DivModOnly
  <2> QED
    BY <1>1, <1>3, <2>2
<1> QED
  BY <1>2, <1>3

\* The block above-right of the first block of a row.
LEMMA AboveRightIs ==
    ASSUME NEW n \in Nat, NEW w \in Nat, w >= 2, n % w = 0, n > 0
    PROVE  /\ n >= w /\ n - w + 1 \in Nat /\ (n - w + 1) % w = 1
           /\ (n - w + 1) \div w = (n - 1) \div w /\ (n - 1) \div w + 1 = n \div w
           /\ n \div w \in Nat
           /\ \A a \in n - w + 1 .. n - 1 : a \div w = n \div w - 1 /\ a % w = a - (n - w)
<1> DEFINE q == n \div w
<1>1. q \in Nat /\ w * q \in Nat /\ n = w * q + 0 /\ w \in Nat \ {0}
  BY DivMod
<1>2. q >= 1
  BY <1>1
<1>3. q - 1 \in Nat /\ w * (q - 1) = n - w /\ n - w \in Nat
  BY <1>1, <1>2
<1>4. ASSUME NEW a \in n - w .. n - 1 PROVE a \div w = q - 1 /\ a % w = a - (n - w)
  <2> DEFINE r == a - (n - w)
             p == q - 1
  <2>1. a \in Nat /\ r \in 0 .. w - 1 /\ a = w * p + r /\ p \in Nat
    <3> HIDE DEF q
    <3> QED
      BY <1>1, <1>3
  <2> HIDE DEF q, r, p
  <2>2. a \div w = p /\ a % w = r
    BY <1>1, <2>1, DivModOnly
  <2> QED
    BY <2>2 DEF r, p
<1>5. n - w + 1 \in n - w .. n - 1 /\ n - 1 \in n - w .. n - 1
  BY <1>1, <1>3
<1>6. (n - w + 1) \div w = q - 1 /\ (n - w + 1) % w = (n - w + 1) - (n - w) /\ (n - 1) \div w = q - 1
  BY <1>4, <1>5
<1> HIDE DEF q
<1>7. \A a \in n - w + 1 .. n - 1 : a \in n - w .. n - 1
  BY <1>3
<1> QED
  BY <1>1, <1>2, <1>3, <1>4, <1>6, <1>7 DEF q

\* Two blocks of a column less than a row apart are one.
LEMMA SameColumn ==
    ASSUME NEW t \in Nat, NEW n \in Nat, NEW w \in Nat \ {0}, t % w = n % w, t <= n, n < t + w
    PROVE  t = n
<1> DEFINE q == t \div w
           r == t % w
<1>1. q \in Nat /\ r \in 0 .. w - 1 /\ w * q \in Nat /\ t = w * q + r
  BY DivMod
<1> DEFINE p == n \div w
<1>2. p \in Nat /\ w * p \in Nat /\ n = w * p + r
  BY DivMod
<1>3. w * (p - q) = n - t /\ p - q \in Int
  BY <1>1, <1>2
<1>4. ~(p - q >= 1)
  <2>1. SUFFICES ASSUME p - q >= 1 PROVE FALSE
    OBVIOUS
  <2>2. w * (p - q) >= w
    BY <1>3, <2>1
  <2> QED
    BY <1>3, <2>2
<1>5. ~(p - q <= -1)
  <2>1. SUFFICES ASSUME p - q <= -1 PROVE FALSE
    OBVIOUS
  <2>2. w * (p - q) <= -w
    BY <1>3, <2>1
  <2> QED
    BY <1>3, <2>2
<1> QED
  BY <1>1, <1>2, <1>3, <1>4, <1>5

LEMMA RowsUp ==
    ASSUME NEW n \in Nat, NEW e \in Nat, NEW w \in Nat \ {0}, n <= e
    PROVE  n \div w <= e \div w
BY SMT

\* A row that is a substream starts with a multiple of its width.
LEMMA RowStarts ==
    ASSUME Coded, NEW n \in Blocks
    PROVE  FirstInRow(n) <=> pic.wpp /\ pic.tsToRs[n] % pic.w = 0
<1>1. CASE ~pic.wpp
  BY <1>1 DEF FirstInRow
<1>2. CASE pic.wpp
  <2> DEFINE w == pic.w
  <2>1. n \in Nat /\ Blocks = 0 .. pic.size - 1 /\ pic.size \in Nat \ {0} /\ w \in Nat \ {0}
    BY <1>2, BlocksAre DEF Coded, PicOK
  <2>2. pic.tsToRs[n] = n
    BY <1>2, <2>1 DEF Coded, PicOK
  <2>3. ASSUME n % w # 0 PROVE n - 1 \in Blocks /\ pic.rsToTs[n - 1] = n - 1 /\ pic.tileID[n - 1] = pic.tileID[n]
    <3>1. n # 0
      BY <2>1, <2>3
    <3>2. n - 1 \in Nat /\ n - 1 \in Blocks /\ (n - 1) + 1 = n
      BY <2>1, <3>1
    <3>3. n \div w = (n - 1) \div w
      <4>1. ((n - 1) + 1) % w # 0 => ((n - 1) + 1) \div w = (n - 1) \div w
        BY <2>1, <3>2, RowStep
      <4> QED
        BY <2>3, <3>2, <4>1
    <3> QED
      BY <1>2, <2>1, <3>2, <3>3 DEF Coded, PicOK
  <2> QED
    BY <1>2, <2>2, <2>3 DEF FirstInRow
<1> QED
  BY <1>1, <1>2 DEF Coded, PicOK

\* Where the loop goes on to another substream, the text has one begin.
LEMMA SubstreamsEnd ==
    ASSUME Coded, NEW n \in Blocks, n + 1 \in Blocks
    PROVE  /\ EndOfTile(n) <=> FirstInTile(n + 1)
           /\ EndOfRow(n) <=> FirstInRow(n + 1)
<1>1. n \in Nat /\ n + 1 < pic.size /\ (n + 1) - 1 = n /\ n + 1 # 0 /\ Blocks = 0 .. pic.size - 1
  BY BlocksAre DEF Coded
<1>2. EndOfTile(n) <=> FirstInTile(n + 1)
  BY <1>1 DEF EndOfTile, FirstInTile
<1>3. CASE ~pic.wpp
  BY <1>2, <1>3 DEF EndOfRow, FirstInRow
<1>4. CASE pic.wpp
  <2>1. pic.tsToRs[n] = n /\ pic.tsToRs[n + 1] = n + 1 /\ pic.w \in Nat \ {0}
    BY <1>1, <1>4 DEF Coded, PicOK
  <2>2. n % pic.w = pic.w - 1 <=> (n + 1) % pic.w = 0
    BY <1>1, <2>1, RowStep
  <2> QED
    BY <1>2, <1>4, <2>1, <2>2, RowStarts DEF EndOfRow
<1> QED
  BY <1>3, <1>4 DEF Coded, PicOK

-----------------------------------------------------------------------------
(* Every block is parsed as it was coded. *)

\* What the tables of a picture with wavefronts are.
LEMMA WithRows ==
    ASSUME Coded, pic.wpp
    PROVE  /\ pic.w \in Nat \ {0}
           /\ \A t \in Blocks : pic.rsToTs[t] = t /\ pic.tsToRs[t] = t
           /\ \A t, u \in Blocks : t \div pic.w = u \div pic.w => pic.tileID[t] = pic.tileID[u]
           /\ \A t, u, x \in Blocks :
                 t <= u /\ u <= x /\ pic.tileID[t] = pic.tileID[x] => pic.tileID[u] = pic.tileID[x]
BY DEF Coded, PicOK, Blocks

\* What was left by a block, or set for a slice, is not what nothing was.
LEMMA IsSet ==
    ASSUME NEW t
    PROVE  After(t) # Unset /\ Slice(t) # Unset /\ Unset # After(t) /\ Unset # Slice(t)
<1>1. Unset.from = "nothing" /\ After(t).from = "block" /\ Slice(t).from = "slice"
  BY DEF Unset, After, Slice
<1> QED
  BY <1>1

\* At the start of a row of a wavefront, which is not that of a tile: the block
\* above-right is in the tile.
LEMMA RowAbove ==
    ASSUME Coded, pic.wpp, pic.w >= 2, NEW n \in Blocks, n % pic.w = 0, ~FirstInTile(n)
    PROVE  LET top == n - pic.w + 1
           IN  /\ n >= pic.w /\ top \in Blocks /\ top < n /\ top % pic.w = 1 /\ n <= top + pic.w
               /\ pic.rsToTs[top] = top /\ pic.tileID[top] = pic.tileID[n]
<1> DEFINE w == pic.w
           top == n - w + 1
<1>1. n \in Nat /\ Blocks = 0 .. pic.size - 1 /\ pic.size \in Nat \ {0} /\ w \in Nat
  BY BlocksAre DEF Coded, PicOK
<1>2. n > 0 /\ pic.tileID[n - 1] = pic.tileID[n]
  BY <1>1 DEF FirstInTile
<1>3. n >= w /\ top \in Nat /\ top % w = 1 /\ top \div w = (n - 1) \div w
  BY <1>1, <1>2, AboveRightIs
<1>6. w >= 2
  OBVIOUS
<1>4. top \in Blocks /\ n - 1 \in Blocks /\ top < n /\ n <= top + w
  <2> HIDE DEF w
  <2> QED
    BY <1>1, <1>2, <1>3, <1>6
<1>5. pic.rsToTs[top] = top /\ pic.tileID[top] = pic.tileID[n - 1]
  <2> HIDE DEF top
  <2> QED
    BY <1>3, <1>4, WithRows
<1> QED
  BY <1>2, <1>3, <1>4, <1>5

\* The decoder synchronises when 6.4.1 has the block above-right available, and
\* with what that one left.
LEMMA SyncAsSpecified ==
    ASSUME Coded, NEW n \in Blocks, pic.wpp, n % pic.w = 0, ~FirstInTile(n),
           d.sliceAddrRs = SliceStart(n), SavedFor(n)
    PROVE  /\ SyncContexts(n, n) <=> pic.w >= 2 /\ n - pic.w + 1 >= SliceStart(n)
           /\ SyncContexts(n, n) => AboveRight(n) # Unset /\ d.saved = AboveRight(n)
           /\ ~SyncContexts(n, n) => AboveRight(n) = Unset
<1> DEFINE w == pic.w
           top == n - w + 1
<1>1. n \in Nat /\ Blocks = 0 .. pic.size - 1 /\ pic.size \in Nat \ {0} /\ w \in Nat \ {0} /\ pic.tsToRs[n] = n
  BY BlocksAre DEF Coded, PicOK
<1>2. CASE ~(w >= 2)
  <2>1. w = 1
    BY <1>1, <1>2
  <2>2. ~SyncContexts(n, n)
    BY <1>2 DEF SyncContexts
  <2>3. n % w = w - 1
    BY <2>1
  <2>4. AboveRight(n) = Unset
    BY <1>1, <2>3 DEF AboveRight
  <2> QED
    BY <1>2, <2>2, <2>4
<1>3. CASE w >= 2
  <2>1. /\ n >= w /\ top \in Blocks /\ top < n /\ top % w = 1 /\ n <= top + w
        /\ pic.rsToTs[top] = top /\ pic.tileID[top] = pic.tileID[n]
    BY <1>3, RowAbove
  <2>2. d.saved = After(top)
    BY <1>3, <2>1 DEF SavedFor
  <2>3. SyncContexts(n, n) <=> top >= SliceStart(n)
    BY <1>3, <2>1, <2>2, IsSet DEF SyncContexts
  <2>4. n % w # w - 1 /\ ~(n < w)
    BY <1>1, <1>3, <2>1
  <2>5. AboveRight(n) = IF top < n /\ pic.tileID[top] = pic.tileID[n] /\ SliceStart(top) = SliceStart(n)
                        THEN After(top) ELSE Unset
    BY <1>1, <2>1, <2>4 DEF AboveRight
  <2>6. SliceStart(n) <= top <=> SliceStart(top) = SliceStart(n)
    <3>1. ASSUME SliceStart(n) <= top PROVE SliceStart(top) = SliceStart(n)
      BY <1>1, <2>1, <3>1, SliceGoesOn
    <3>2. ASSUME SliceStart(top) = SliceStart(n) PROVE SliceStart(n) <= top
      BY <2>1, <3>2, SliceStartIs DEF IsSliceStart
    <3> QED
      BY <3>1, <3>2
  <2>7. SliceStart(n) \in Int /\ top \in Int
    BY <1>1, <2>1, SliceStartIs
  <2>8. SyncContexts(n, n) <=> SliceStart(top) = SliceStart(n)
    BY <2>3, <2>6, <2>7
  <2>9. AboveRight(n) = IF SyncContexts(n, n) THEN After(top) ELSE Unset
    BY <2>1, <2>5, <2>8
  <2> QED
    BY <1>3, <2>2, <2>3, <2>9, IsSet
<1> QED
  BY <1>2, <1>3

\* A dependent segment that begins a row always finds the row above: its slice
\* may not begin within that row, for it would not end there.
LEMMA DependentSyncs ==
    ASSUME Coded, NEW s \in segments, s.dep, pic.wpp, pic.w >= 2,
           s.start % pic.w = 0, ~FirstInTile(s.start)
    PROVE  s.start - pic.w + 1 >= SliceStart(s.start)
<1> DEFINE n == s.start
           w == pic.w
           top == n - w + 1
           a == SliceStart(n)
<1>0. n \in Blocks
  BY DEF Coded, PartsOK, Blocks
<1>1. n \in Nat /\ Blocks = 0 .. pic.size - 1 /\ pic.size \in Nat \ {0} /\ w \in Nat \ {0}
  BY <1>0, BlocksAre DEF Coded, PicOK
<1>2. n >= w /\ top \in Blocks /\ n > 0
  BY <1>0, <1>1, RowAbove
<1>3. IsSliceStart(a, n) /\ a \in Blocks
  BY <1>0, SliceStartIs
<1>4. SUFFICES ASSUME a > top PROVE FALSE
  BY <1>1, <1>2, <1>3
<1>5. PICK x \in segments : x.start = a /\ ~x.dep
  BY <1>3 DEF IsSliceStart
<1>6. a # n
  <2>1. SUFFICES ASSUME a = n PROVE FALSE
    OBVIOUS
  <2>2. x.start <= s.end /\ s.start <= x.end
    BY <1>5, <2>1 DEF Coded, PartsOK
  <2>3. x = s
    BY <2>2 DEF Coded, PartsOK
  <2> QED
    BY <1>5, <2>3
<1>7. a \in n - w + 1 .. n - 1 /\ a - 1 \in n - w + 1 .. n - 1 /\ a \in Nat /\ a - 1 \in Blocks
  <2>1. a <= n
    BY <1>3 DEF IsSliceStart
  <2> QED
    BY <1>1, <1>2, <1>3, <1>4, <1>6, <2>1
<1>8. a \div w = n \div w - 1 /\ a % w = a - (n - w) /\ (a - 1) \div w = n \div w - 1 /\ n \div w \in Nat
  BY <1>1, <1>2, <1>7, AboveRightIs
<1> DEFINE e == SliceEnd(segments, x)
<1>9. e \in Blocks /\ e >= n
  BY <1>0, <1>5, SliceEndIs
<1>10. /\ pic.tsToRs[a] = a /\ pic.tsToRs[e] = e /\ pic.rsToTs[a - 1] = a - 1
       /\ pic.tileID[a - 1] = pic.tileID[a]
  <2> HIDE DEF a, e
  <2>1. a - 1 \in Blocks /\ a \in Blocks /\ e \in Blocks /\ (a - 1) \div w = a \div w
    BY <1>3, <1>7, <1>8, <1>9
  <2> QED
    BY <2>1, WithRows
<1>11. a % w # 0
  BY <1>1, <1>2, <1>7, <1>8
<1>12. RowAligned(pic, a, e)
  BY <1>5 DEF Coded, Conforming
<1>13. a \div w = e \div w
  BY <1>10, <1>11, <1>12 DEF RowAligned
<1>14. n \div w <= e \div w
  BY <1>1, <1>9, RowsUp
<1> QED
  BY <1>8, <1>13, <1>14

\* Where the invariant holds the next block is parsed as it was coded.
LEMMA ParsedWell ==
    ASSUME Coded, NEW s, NEW n, InSegment(s, n), SavedFor(n)
    PROVE  Parsing(n) = CodedWith(n)
<1> DEFINE hdr == Header(n)
           rs == pic.tsToRs[n]
           row == pic.wpp /\ rs % pic.w = 0
           ctx == CASE FirstInTile(n) -> hdr
                    [] ~FirstInTile(n) /\ FirstInRow(n) ->
                          IF AboveRight(n) # Unset THEN AboveRight(n) ELSE hdr
                    [] OTHER -> IF n = s.start /\ ~s.dep THEN hdr ELSE After(n - 1)
<1>1. s \in segments /\ n \in Blocks /\ s.start <= n /\ n <= s.end
  BY DEF InSegment
<1>2. SegmentOf(n) = s
  BY <1>1, SegmentOfIs
<1>3. row <=> FirstInRow(n)
  BY <1>1, RowStarts
<1>4. seg.hdr = hdr /\ seg.start = s.start /\ seg.sub = Substreams(s, n)
  BY DEF InSegment
<1>5. n \in Nat /\ s.start \in Nat /\ pic.size \in Nat \ {0} /\ Blocks = 0 .. pic.size - 1 /\ s.dep \in BOOLEAN
  BY <1>1, BlocksAre DEF Coded, PartsOK
<1>6. d.ctx = IF FirstInTile(n) \/ (n = s.start /\ ~s.dep) THEN hdr ELSE After(n - 1)
  BY DEF InSegment
<1>7. (IF row /\ SyncContexts(n, rs) THEN d.saved
       ELSE IF row /\ (n > seg.start \/ (pic.w < 2 /\ rs > 0)) THEN seg.hdr
       ELSE d.ctx) = ctx
  <2>1. CASE ~row
    BY <1>3, <1>6, <2>1
  <2>2. CASE row
    <3>1. pic.wpp /\ rs = n /\ pic.w \in Nat \ {0} /\ n % pic.w = 0
      BY <1>1, <1>5, <2>2 DEF Coded, PicOK
    <3>2. d.sliceAddrRs = SliceStart(n)
      <4>1. pic.tsToRs[SliceStart(n)] = SliceStart(n)
        BY <1>1, <1>5, <3>1, SliceStartIs DEF Coded, PicOK
      <4> QED
        BY <4>1 DEF InSegment
    <3>3. CASE FirstInTile(n)
      <4>1. ~SyncContexts(n, n)
        <5>1. SUFFICES ASSUME SyncContexts(n, n) PROVE FALSE
          OBVIOUS
        <5> DEFINE top == n - pic.w + 1
        <5>2. pic.w >= 2 /\ n >= pic.w /\ pic.tileID[n] = pic.tileID[pic.rsToTs[top]]
          BY <5>1 DEF SyncContexts
        <5>3. top \in Blocks /\ n - 1 \in Blocks /\ top <= n - 1 /\ n - 1 <= n
          BY <1>1, <1>5, <3>1, <5>2
        <5>4. pic.rsToTs[top] = top
          BY <1>5, <3>1, <5>3 DEF Coded, PicOK
        <5>5. pic.tileID[n - 1] = pic.tileID[n]
          BY <1>1, <1>5, <3>1, <5>2, <5>3, <5>4 DEF Coded, PicOK
        <5> QED
          BY <1>5, <3>3, <5>3, <5>5 DEF FirstInTile
      <4> QED
        BY <1>4, <1>6, <3>1, <3>3, <4>1
    <3>4. CASE ~FirstInTile(n)
      <4>1. /\ SyncContexts(n, n) <=> pic.w >= 2 /\ n - pic.w + 1 >= SliceStart(n)
            /\ SyncContexts(n, n) => AboveRight(n) # Unset /\ d.saved = AboveRight(n)
            /\ ~SyncContexts(n, n) => AboveRight(n) = Unset
        BY <1>1, <3>1, <3>2, <3>4, SyncAsSpecified
      <4>2. CASE SyncContexts(n, n)
        BY <1>3, <2>2, <3>1, <3>4, <4>1, <4>2
      <4>3. CASE ~SyncContexts(n, n)
        <5>1. ctx = hdr
          BY <1>3, <2>2, <3>4, <4>1, <4>3
        <5>2. CASE n > seg.start \/ (pic.w < 2 /\ n > 0)
          BY <1>4, <2>2, <3>1, <4>3, <5>1, <5>2
        <5>3. CASE ~(n > seg.start \/ (pic.w < 2 /\ n > 0))
          <6>1. n = s.start
            BY <1>1, <1>4, <1>5, <5>3
          <6>2. n > 0
            BY <1>5, <3>4 DEF FirstInTile
          <6>3. pic.w >= 2
            BY <3>1, <5>3, <6>2
          <6>4. ~s.dep
            BY <1>1, <3>1, <3>4, <4>1, <4>3, <6>1, <6>3, DependentSyncs
          <6>5. d.ctx = hdr
            BY <1>6, <6>1, <6>4
          <6> QED
            BY <3>1, <4>3, <5>1, <5>3, <6>5
        <5> QED
          BY <5>2, <5>3
      <4> QED
        BY <4>2, <4>3
    <3> QED
      BY <3>3, <3>4
  <2> QED
    BY <2>1, <2>2
<1>8. (IF row THEN seg.hdr ELSE d.qp)
      = IF n = SliceStart(n) \/ FirstInTile(n) \/ FirstInRow(n) THEN hdr ELSE After(n - 1)
  BY <1>3, <1>4 DEF InSegment
<1>9. seg.sub = Cardinality({t \in s.start + 1 .. n : FirstInTile(t) \/ FirstInRow(t)})
  BY <1>4 DEF Substreams, Divided
<1> QED
  BY <1>2, <1>7, <1>8, <1>9 DEF Parsing, CodedWith, Header

-----------------------------------------------------------------------------
(* The steps. *)

\* The picture and its segments stay.
LEMMA CodedStays ==
    ASSUME UNCHANGED <<pic, segments>>
    PROVE  /\ Coded' <=> Coded
           /\ Blocks' = Blocks
           /\ \A n : /\ Header(n)' = Header(n) /\ SliceStart(n)' = SliceStart(n)
                     /\ CodedWith(n)' = CodedWith(n)
                     /\ (FirstInTile(n)' <=> FirstInTile(n)) /\ (FirstInRow(n)' <=> FirstInRow(n))
           /\ \A s, n : Substreams(s, n)' = Substreams(s, n)
<1>1. \A n : SliceStart(n)' = SliceStart(n)
  BY DEF SliceStart
<1>2. \A n : (FirstInTile(n)' <=> FirstInTile(n)) /\ (FirstInRow(n)' <=> FirstInRow(n))
  BY DEF FirstInTile, FirstInRow
<1>3. \A n : CodedWith(n)' = CodedWith(n)
  BY DEF CodedWith, SegmentOf, SliceStart, FirstInTile, FirstInRow, AboveRight
<1>4. \A s, n : Substreams(s, n)' = Substreams(s, n)
  BY DEF Substreams, Divided, FirstInTile, FirstInRow
<1>5. Coded' <=> Coded
  BY DEF Coded
<1>6. Blocks' = Blocks
  BY DEF Blocks
<1>7. \A n : Header(n)' = Header(n)
  BY DEF Header, SliceStart
<1> QED
  BY <1>1, <1>2, <1>3, <1>4, <1>5, <1>6, <1>7

\* What a segment that arrives does to the decoder.
LEMMA Arrives ==
    ASSUME Shaped, NEW s \in segments, StartSegment(s)
    PROVE  LET hdr == IF s.dep THEN d.prevSlic ELSE Slice(pic.tsToRs[s.start])
           IN  /\ ~seg.on /\ UNCHANGED <<pic, segments, read>> /\ Shaped'
               /\ \/ hdr = Unset /\ UNCHANGED <<d, seg>>
                  \/ /\ ~d.open /\ s.start # 0 /\ seg' = seg
                     /\ ~d'.open /\ d'.nextCTU = d.nextCTU /\ d'.corrupt = d.corrupt
                  \/ /\ d.open \/ s.start = 0
                     /\ s.start < d.nextCTU /\ seg' = seg
                     /\ d'.corrupt = (d.corrupt \/ s.start # d.nextCTU)
                  \/ /\ d.open \/ s.start = 0
                     /\ ~(s.start < d.nextCTU)
                     /\ seg' = [on |-> TRUE, start |-> s.start, end |-> s.end,
                                hdr |-> hdr, ts |-> s.start, sub |-> 0]
                     /\ d'.corrupt = (d.corrupt \/ s.start # d.nextCTU)
                     /\ d'.open = TRUE /\ d'.prevSlic = hdr /\ d'.nextCTU = d.nextCTU /\ d'.saved = d.saved
                     /\ d'.sliceAddrRs = IF s.dep THEN d.depSliceAddrRs ELSE pic.tsToRs[s.start]
                     /\ d'.depSliceAddrRs = IF s.dep THEN d.depSliceAddrRs ELSE pic.tsToRs[s.start]
                     /\ d'.ctx = IF Carry(s) THEN d.depSaved ELSE hdr
                     /\ d'.qp = IF Carry(s) THEN d.qp ELSE hdr
<1> DEFINE hdr == IF s.dep THEN d.prevSlic ELSE Slice(pic.tsToRs[s.start])
           opened == [d EXCEPT !.prevSlic = hdr, !.open = @ \/ s.start = 0]
           addressed == [opened EXCEPT
                            !.sliceAddrRs = IF s.dep THEN d.depSliceAddrRs ELSE pic.tsToRs[s.start],
                            !.depSliceAddrRs = IF s.dep THEN @ ELSE pic.tsToRs[s.start]]
           marked == [addressed EXCEPT !.corrupt = @ \/ s.start # d.nextCTU]
           init == [marked EXCEPT !.ctx = IF Carry(s) THEN d.depSaved ELSE hdr,
                                  !.qp = IF Carry(s) THEN @ ELSE hdr]
           on == [on |-> TRUE, start |-> s.start, end |-> s.end, hdr |-> hdr, ts |-> s.start, sub |-> 0]
<1>1. /\ ~seg.on /\ UNCHANGED <<pic, segments, read>>
      /\ IF hdr = Unset \/ ~opened.open
         THEN d' = (IF hdr = Unset THEN d ELSE opened) /\ UNCHANGED seg
         ELSE IF s.start < d.nextCTU THEN d' = marked /\ UNCHANGED seg
         ELSE d' = init /\ seg' = on
  BY DEF StartSegment
<1> DEFINE first == (s.start = 0)
           gap == (s.start # d.nextCTU)
           addr == IF s.dep THEN d.depSliceAddrRs ELSE pic.tsToRs[s.start]
           ctx == IF Carry(s) THEN d.depSaved ELSE hdr
           qp == IF Carry(s) THEN d.qp ELSE hdr
<1>2. /\ DOMAIN opened = Fields /\ opened.open = (d.open \/ first) /\ opened.prevSlic = hdr
      /\ \A f \in Fields \ {"open", "prevSlic"} : opened[f] = d[f]
  <2> HIDE DEF hdr
  <2> QED
    BY DEF Shaped, Fields
<1>3. /\ DOMAIN addressed = Fields /\ addressed.sliceAddrRs = addr /\ addressed.depSliceAddrRs = addr
      /\ \A f \in Fields \ {"sliceAddrRs", "depSliceAddrRs"} : addressed[f] = opened[f]
  <2>1. opened.depSliceAddrRs = d.depSliceAddrRs
    BY <1>2 DEF Fields
  <2> HIDE DEF opened
  <2> QED
    BY <1>2, <2>1 DEF Fields
<1>4. /\ DOMAIN marked = Fields /\ marked.corrupt = (d.corrupt \/ gap)
      /\ \A f \in Fields \ {"corrupt"} : marked[f] = addressed[f]
  <2>1. addressed.corrupt = d.corrupt
    BY <1>2, <1>3 DEF Fields
  <2> HIDE DEF addressed
  <2> QED
    BY <1>3, <2>1 DEF Fields
<1>5. /\ DOMAIN init = Fields /\ init.ctx = ctx /\ init.qp = qp
      /\ \A f \in Fields \ {"ctx", "qp"} : init[f] = marked[f]
  <2>1. marked.qp = d.qp
    BY <1>2, <1>3, <1>4 DEF Fields
  <2> HIDE DEF marked
  <2> QED
    BY <1>4, <2>1 DEF Fields
<1> HIDE DEF init, marked, addressed, opened, hdr, addr, ctx, qp, on
<1>6. /\ opened.nextCTU = d.nextCTU /\ opened.corrupt = d.corrupt
  BY <1>2 DEF Fields
<1>7. marked.open = (d.open \/ first)
  BY <1>2, <1>3, <1>4 DEF Fields
<1>8. /\ init.open = (d.open \/ first) /\ init.corrupt = (d.corrupt \/ gap)
      /\ init.prevSlic = hdr /\ init.nextCTU = d.nextCTU /\ init.saved = d.saved
      /\ init.sliceAddrRs = addr /\ init.depSliceAddrRs = addr
  BY <1>2, <1>3, <1>4, <1>5 DEF Fields
<1>9. /\ opened.open \in BOOLEAN /\ opened.corrupt \in BOOLEAN
      /\ marked.open \in BOOLEAN /\ marked.corrupt \in BOOLEAN
      /\ init.open \in BOOLEAN /\ init.corrupt \in BOOLEAN
  BY <1>2, <1>4, <1>6, <1>7, <1>8 DEF Shaped
<1>10. CASE hdr = Unset
  BY <1>1, <1>10 DEF Shaped, hdr
<1>11. CASE hdr # Unset /\ ~opened.open
  <2>1. d' = opened /\ seg' = seg
    BY <1>1, <1>11
  <2>2. ~d.open /\ s.start # 0
    BY <1>2, <1>11
  <2> QED
    BY <1>1, <1>2, <1>6, <1>9, <1>11, <2>1, <2>2 DEF Shaped
<1>12. CASE hdr # Unset /\ opened.open /\ s.start < d.nextCTU
  <2>1. d' = marked /\ seg' = seg
    BY <1>1, <1>12
  <2>2. d.open \/ s.start = 0
    BY <1>2, <1>12
  <2> QED
    BY <1>1, <1>4, <1>9, <1>12, <2>1, <2>2 DEF Shaped
<1>13. CASE hdr # Unset /\ opened.open /\ ~(s.start < d.nextCTU)
  <2>1. d' = init /\ seg' = on
    BY <1>1, <1>13
  <2>2. d.open \/ s.start = 0
    BY <1>2, <1>13
  <2>3. init.open = TRUE
    BY <1>2, <1>8, <1>13
  <2> QED
    BY <1>1, <1>5, <1>8, <1>9, <1>13, <2>1, <2>2, <2>3 DEF Shaped, hdr, addr, ctx, qp, on
<1> QED
  BY <1>10, <1>11, <1>12, <1>13

LEMMA SegmentsStart ==
    ASSUME Coded, NEW s \in segments
    PROVE  /\ s.start \in Blocks /\ s.start \in Nat /\ s.start <= s.end /\ s.dep \in BOOLEAN
           /\ s.start = 0 => ~s.dep
           /\ \A x \in segments : x.start = s.start => x = s
<1>1. s.start \in Blocks /\ s.start \in Nat /\ s.start <= s.end /\ s.dep \in BOOLEAN /\ (s.start = 0 => ~s.dep)
  BY BlocksAre DEF Coded, PartsOK
<1>2. ASSUME NEW x \in segments, x.start = s.start PROVE x = s
  <2>1. x.start <= x.end
    BY DEF Coded, PartsOK
  <2>2. x.start <= s.end /\ s.start <= x.end
    BY <1>1, <1>2, <2>1
  <2> QED
    BY <2>2 DEF Coded, PartsOK
<1> QED
  BY <1>1, <1>2

LEMMA NoSubstreams ==
    ASSUME NEW s, s.start \in Nat
    PROVE  Substreams(s, s.start) = 0
<1>1. {t \in s.start + 1 .. s.start : Divided(t)} = {}
  BY SMT
<1> QED
  BY <1>1, FS_EmptySet DEF Substreams

\* A segment is ignored, marks the picture, or is begun where the last one ended.
LEMMA ArrivesWell ==
    ASSUME SegmentsInv, NEW s \in segments, StartSegment(s)
    PROVE  SegmentsInv'
<1> DEFINE n == s.start
           hdr == IF s.dep THEN d.prevSlic ELSE Slice(pic.tsToRs[n])
           Ignored == hdr = Unset /\ UNCHANGED <<d, seg>>
           Early == /\ ~d.open /\ n # 0 /\ seg' = seg
                    /\ ~d'.open /\ d'.nextCTU = d.nextCTU /\ d'.corrupt = d.corrupt
           Late == /\ d.open \/ n = 0
                   /\ n < d.nextCTU /\ seg' = seg
                   /\ d'.corrupt = (d.corrupt \/ n # d.nextCTU)
           Started == /\ d.open \/ n = 0
                      /\ ~(n < d.nextCTU)
                      /\ seg' = [on |-> TRUE, start |-> n, end |-> s.end, hdr |-> hdr, ts |-> n, sub |-> 0]
                      /\ d'.corrupt = (d.corrupt \/ n # d.nextCTU)
                      /\ d'.open = TRUE /\ d'.prevSlic = hdr /\ d'.nextCTU = d.nextCTU /\ d'.saved = d.saved
                      /\ d'.sliceAddrRs = IF s.dep THEN d.depSliceAddrRs ELSE pic.tsToRs[n]
                      /\ d'.depSliceAddrRs = IF s.dep THEN d.depSliceAddrRs ELSE pic.tsToRs[n]
                      /\ d'.ctx = IF Carry(s) THEN d.depSaved ELSE hdr
                      /\ d'.qp = IF Carry(s) THEN d.qp ELSE hdr
<1>1. ~seg.on /\ UNCHANGED <<pic, segments, read>> /\ Shaped'
  BY Arrives DEF SegmentsInv
<1>2. Ignored \/ Early \/ Late \/ Started
  BY Arrives DEF SegmentsInv
<1> HIDE DEF Ignored, Early, Late, Started
<1>3. Coded
  BY DEF SegmentsInv
<1>4. /\ Coded' /\ Blocks' = Blocks
      /\ \A m : /\ Header(m)' = Header(m) /\ SliceStart(m)' = SliceStart(m)
                /\ CodedWith(m)' = CodedWith(m)
                /\ (FirstInTile(m)' <=> FirstInTile(m)) /\ (FirstInRow(m)' <=> FirstInRow(m))
      /\ \A x, m : Substreams(x, m)' = Substreams(x, m)
  BY <1>1, <1>3, CodedStays
<1>5. /\ n \in Blocks /\ n \in Nat /\ n <= s.end /\ s.dep \in BOOLEAN /\ (n = 0 => ~s.dep)
      /\ \A x \in segments : x.start = n => x = s
  BY <1>3, SegmentsStart
<1>6. d.corrupt \in BOOLEAN /\ d.open \in BOOLEAN
  BY DEF SegmentsInv, Shaped
<1>7. SUFFICES d'.corrupt \/ Fresh' \/ Decoded'
  BY <1>1, <1>4 DEF SegmentsInv
<1>8. CASE d.corrupt
  <2>1. d'.corrupt = d.corrupt \/ d'.corrupt = (d.corrupt \/ n # d.nextCTU)
    BY <1>2 DEF Ignored, Early, Late, Started
  <2> QED
    BY <1>6, <1>8, <2>1
<1>9. CASE ~d.corrupt /\ Fresh
  <2>1. CASE Ignored
    BY <1>1, <1>4, <1>9, <2>1 DEF Fresh, Ignored, Idle, Unset
  <2>2. CASE Early
    BY <1>1, <1>4, <1>9, <2>2 DEF Fresh, Early, Idle, Unset
  <2>3. CASE Late
    BY <1>5, <1>9, <2>3 DEF Fresh, Late
  <2>4. CASE Started /\ n # 0
    BY <1>6, <1>9, <2>4 DEF Fresh, Started
  <2>5. CASE Started /\ n = 0
    <3>1. ~s.dep /\ SliceStart(0) = 0
      BY <1>3, <1>5, <2>5, SliceStarts
    <3>2. hdr = Header(0) /\ ~Carry(s) /\ FirstInTile(0) /\ Substreams(s, 0) = 0
      BY <1>5, <2>5, <3>1, NoSubstreams DEF Header, Carry, FirstInTile
    <3>3. InSegment(s, 0)'
      <4>1. /\ Header(0)' = Header(0) /\ SliceStart(0)' = 0 /\ Substreams(s, 0)' = 0
            /\ FirstInTile(0)' /\ pic' = pic /\ segments' = segments
        BY <1>1, <1>4, <3>1, <3>2
      <4>2. seg' = [on |-> TRUE, start |-> s.start, end |-> s.end, hdr |-> Header(0), ts |-> 0, sub |-> 0]
        BY <2>5, <3>2 DEF Started
      <4>3. /\ d'.ctx = Header(0) /\ d'.qp = Header(0) /\ d'.prevSlic = Header(0)
            /\ d'.sliceAddrRs = pic.tsToRs[0] /\ d'.depSliceAddrRs = pic.tsToRs[0]
        BY <2>5, <3>1, <3>2 DEF Started
      <4>4. s \in segments /\ 0 \in Blocks' /\ s.start <= 0 /\ 0 <= s.end
        BY <1>4, <1>5, <2>5
      <4> QED
        BY <4>1, <4>2, <4>3, <4>4 DEF InSegment
    <3>4. ReadUpTo(0)'
      <4>1. \A t \in Blocks : ~(t < 0)
        BY <1>3, BlocksAre DEF Coded
      <4>2. read' = [t \in Blocks |-> Unset]
        BY <1>1, <1>9 DEF Fresh
      <4> QED
        BY <1>4, <4>1, <4>2 DEF ReadUpTo, Unset
    <3>5. SavedFor(0)'
      <4>1. \A t \in Blocks : ~(t < 0)
        BY <1>3, BlocksAre DEF Coded
      <4> QED
        BY <1>4, <4>1 DEF SavedFor
    <3>6. DecodedUpTo(0)'
      BY <1>1, <1>9, <2>5, <3>3, <3>4, <3>5 DEF DecodedUpTo, Fresh, Started
    <3> QED
      BY <3>6 DEF Decoded
  <2> QED
    BY <1>2, <2>1, <2>2, <2>3, <2>4, <2>5
<1>10. CASE ~d.corrupt /\ Decoded
  <2>1. PICK m \in Nat : DecodedUpTo(m)
    BY <1>10 DEF Decoded
  <2>2. Between(m)
    <3>1. ASSUME NEW x \in segments, InSegment(x, m) PROVE FALSE
      BY <1>1, <3>1 DEF InSegment
    <3> QED
      BY <2>1, <3>1 DEF DecodedUpTo
  <2>3. d.open /\ d.nextCTU = m
    BY <2>1 DEF DecodedUpTo
  <2>4. ReadUpTo(m)'
    BY <1>1, <1>4, <2>1 DEF DecodedUpTo, ReadUpTo, Unset
  <2>5. ASSUME d'.saved = d.saved PROVE SavedFor(m)'
    BY <1>1, <1>4, <2>1, <2>5 DEF DecodedUpTo, SavedFor, After
  <2>6. CASE Ignored
    <3>1. Between(m)'
      BY <1>1, <1>4, <2>2, <2>6 DEF Between, Ignored, Idle, After
    <3>2. DecodedUpTo(m)'
      BY <2>3, <2>4, <2>5, <2>6, <3>1 DEF DecodedUpTo, Ignored
    <3> QED
      BY <3>2 DEF Decoded
  <2>7. CASE Early
    BY <2>3, <2>7 DEF Early
  <2>8. CASE Late
    <3>1. n # d.nextCTU
      BY <1>5, <2>3, <2>8 DEF Late
    <3> QED
      BY <2>8, <3>1 DEF Late
  <2>9. CASE Started /\ n # m
    BY <1>6, <2>3, <2>9 DEF Started
  <2>10. CASE Started /\ n = m
    <3>1. /\ m > 0 /\ m - 1 \in Blocks /\ m \in Blocks /\ d.prevSlic = Header(m - 1)
          /\ d.depSliceAddrRs = pic.tsToRs[SliceStart(m - 1)]
          /\ d.depSaved = After(m - 1) /\ d.qp = After(m - 1)
      BY <1>5, <2>2, <2>10 DEF Between
    <3>2. hdr = Header(m) /\ (IF s.dep THEN d.depSliceAddrRs ELSE pic.tsToRs[n]) = pic.tsToRs[SliceStart(m)]
          /\ (~s.dep => SliceStart(m) = m) /\ (s.dep => SliceStart(m) # m)
      <4>1. CASE ~s.dep
        <5>1. SliceStart(m) = m
          BY <1>3, <2>10, <4>1, SliceStarts
        <5> QED
          BY <2>10, <4>1, <5>1 DEF Header
      <4>2. CASE s.dep
        <5>1. (m - 1) + 1 = m
          OBVIOUS
        <5>2. SliceStart((m - 1) + 1) = SliceStart(m - 1)
          BY <1>3, <1>5, <2>10, <3>1, <4>2, <5>1, SliceStep
        <5>3. SliceStart(m) = SliceStart(m - 1)
          BY <5>1, <5>2
        <5>4. SliceStart(m - 1) <= m - 1 /\ SliceStart(m - 1) \in Blocks
          BY <1>3, <3>1, SliceStartIs DEF IsSliceStart
        <5>5. SliceStart(m - 1) \in Int
          BY <1>3, <5>4, BlocksAre DEF Coded
        <5> QED
          BY <3>1, <4>2, <5>3, <5>4, <5>5 DEF Header
      <4> QED
        BY <1>5, <4>1, <4>2
    <3>3. Carry(s) <=> s.dep /\ ~FirstInTile(m)
      BY <2>10, <3>1, IsSet DEF Carry, FirstInTile
    <3>4. Substreams(s, m) = 0
      BY <1>5, <2>10, NoSubstreams
    <3> DEFINE ctx == IF Carry(s) THEN d.depSaved ELSE hdr
               qp == IF Carry(s) THEN d.qp ELSE hdr
    <3>5. ctx = IF FirstInTile(m) \/ (m = s.start /\ ~s.dep) THEN Header(m) ELSE After(m - 1)
      BY <2>10, <3>1, <3>2, <3>3
    <3>6. /\ m = SliceStart(m) \/ FirstInTile(m) => qp = Header(m)
          /\ ~(m = SliceStart(m) \/ FirstInTile(m) \/ FirstInRow(m)) => qp = After(m - 1)
      BY <1>5, <3>1, <3>2, <3>3
    <3>7. /\ seg' = [on |-> TRUE, start |-> n, end |-> s.end, hdr |-> Header(m), ts |-> m, sub |-> Substreams(s, m)]
          /\ d'.ctx = ctx /\ d'.qp = qp /\ d'.prevSlic = Header(m)
          /\ d'.sliceAddrRs = pic.tsToRs[SliceStart(m)] /\ d'.depSliceAddrRs = pic.tsToRs[SliceStart(m)]
      BY <2>10, <3>2, <3>4 DEF Started
    <3> HIDE DEF ctx, qp
    <3>8. InSegment(s, m)'
      <4>1. /\ Header(m)' = Header(m) /\ SliceStart(m)' = SliceStart(m) /\ Substreams(s, m)' = Substreams(s, m)
            /\ (FirstInTile(m)' <=> FirstInTile(m)) /\ (FirstInRow(m)' <=> FirstInRow(m))
            /\ pic' = pic /\ segments' = segments
        BY <1>1, <1>4
      <4>2. s \in segments /\ m \in Blocks' /\ s.start <= m /\ m <= s.end
        BY <1>4, <1>5, <2>10
      <4>3. d'.ctx = IF FirstInTile(m)' \/ (m = s.start /\ ~s.dep) THEN Header(m)' ELSE After(m - 1)
        BY <3>5, <3>7, <4>1
      <4>4. /\ m = SliceStart(m)' \/ FirstInTile(m)' => d'.qp = Header(m)'
            /\ ~(m = SliceStart(m)' \/ FirstInTile(m)' \/ FirstInRow(m)') => d'.qp = After(m - 1)
        BY <3>6, <3>7, <4>1
      <4> QED
        BY <3>7, <4>1, <4>2, <4>3, <4>4 DEF InSegment
    <3>9. DecodedUpTo(m)'
      BY <1>1, <2>3, <2>4, <2>5, <2>10, <3>8 DEF DecodedUpTo, Started
    <3> QED
      BY <3>9 DEF Decoded
  <2> QED
    BY <1>2, <2>6, <2>7, <2>8, <2>9, <2>10
<1> QED
  BY <1>6, <1>8, <1>9, <1>10 DEF SegmentsInv

\* A block is read, and its contexts are kept for the row below.
LEMMA ReadsOn ==
    ASSUME Coded, NEW s, NEW n \in Nat, InSegment(s, n), ReadUpTo(n), SavedFor(n),
           UNCHANGED <<pic, segments>>, read' = [read EXCEPT ![seg.ts] = Parsing(seg.ts)]
    PROVE  ReadUpTo(n + 1)'
<1>1. seg.ts = n /\ n \in Blocks
  BY DEF InSegment
<1>2. Parsing(n) = CodedWith(n)
  BY ParsedWell
<1>3. read' = [t \in Blocks |-> IF t < n + 1 THEN CodedWith(t) ELSE Unset]
  <2>1. read = [t \in Blocks |-> IF t < n THEN CodedWith(t) ELSE Unset]
    BY DEF ReadUpTo
  <2>2. read' = [t \in Blocks |-> IF t = n THEN CodedWith(n) ELSE read[t]]
    BY <1>1, <1>2, <2>1
  <2>3. \A t \in Blocks : t \in Nat
    BY BlocksAre DEF Coded
  <2>4. ASSUME NEW t \in Blocks
        PROVE  (IF t = n THEN CodedWith(n) ELSE read[t]) = IF t < n + 1 THEN CodedWith(t) ELSE Unset
    <3>1. read[t] = IF t < n THEN CodedWith(t) ELSE Unset
      BY <2>1
    <3>2. t < n + 1 <=> t < n \/ t = n
      BY <2>3
    <3>3. ~(n < n)
      OBVIOUS
    <3> QED
      BY <3>1, <3>2, <3>3
  <2> QED
    BY <2>2, <2>4
<1> QED
  BY <1>3, CodedStays DEF ReadUpTo, Unset

LEMMA SavesOn ==
    ASSUME Coded, NEW n \in Nat, n \in Blocks, SavedFor(n), UNCHANGED <<pic, segments>>,
           \/ EndOfTile(n)
           \/ d'.saved = IF pic.wpp /\ pic.tsToRs[n] % pic.w = 1 THEN After(n) ELSE d.saved
    PROVE  SavedFor(n + 1)'
<1> DEFINE w == pic.w
<1>1. SUFFICES ASSUME NEW t \in Blocks, pic.wpp, w >= 2, t % w = 1, t < n + 1, n + 1 <= t + w,
                      n + 1 \in Blocks, pic.tileID[t] = pic.tileID[n + 1]
               PROVE  d'.saved = After(t)
  BY CodedStays DEF SavedFor, After
<1>2. t \in Nat /\ t <= n /\ n < t + w /\ w \in Nat \ {0} /\ n <= n + 1 /\ n + 1 < pic.size
  BY <1>1, BlocksAre, WithRows DEF Coded
<1>3. pic.tileID[n] = pic.tileID[n + 1] /\ pic.tsToRs[n] = n
  BY <1>1, <1>2, WithRows
<1>4. ~EndOfTile(n)
  BY <1>3 DEF EndOfTile
<1>5. d'.saved = IF n % w = 1 THEN After(n) ELSE d.saved
  BY <1>1, <1>3, <1>4
<1>6. CASE n % w = 1
  <2>1. t = n
    BY <1>1, <1>2, <1>6, SameColumn
  <2> QED
    BY <1>5, <1>6, <2>1
<1>7. CASE n % w # 1
  <2>1. t < n
    BY <1>1, <1>2, <1>7
  <2>2. n <= t + w /\ pic.tileID[t] = pic.tileID[n]
    BY <1>1, <1>2, <1>3
  <2>3. d.saved = After(t)
    BY <1>1, <2>1, <2>2 DEF SavedFor
  <2> QED
    BY <1>5, <1>7, <2>3
<1> QED
  BY <1>6, <1>7

\* The decoder behind a block.
LEMMA BehindIs ==
    ASSUME Shaped, NEW n
    PROVE  /\ DOMAIN Behind(n) = Fields
           /\ Behind(n).ctx = After(n) /\ Behind(n).qp = After(n) /\ Behind(n).nextCTU = n + 1
           /\ Behind(n).saved = IF pic.wpp /\ pic.tsToRs[n] % pic.w = 1 THEN After(n) ELSE d.saved
           /\ \A f \in Fields \ {"ctx", "qp", "nextCTU", "saved"} : Behind(n)[f] = d[f]
<1> DEFINE kept == IF pic.wpp /\ pic.tsToRs[n] % pic.w = 1 THEN After(n) ELSE d.saved
           b == [d EXCEPT !.ctx = After(n), !.qp = After(n), !.nextCTU = n + 1, !.saved = kept]
<1>1. Behind(n) = b
  BY DEF Behind
<1>2. /\ DOMAIN b = Fields /\ b.ctx = After(n) /\ b.qp = After(n) /\ b.nextCTU = n + 1 /\ b.saved = kept
      /\ \A f \in Fields \ {"ctx", "qp", "nextCTU", "saved"} : b[f] = d[f]
  <2> HIDE DEF kept
  <2> QED
    BY DEF Shaped, Fields
<1> QED
  BY <1>1, <1>2

\* Within a segment a substream more has begun where one does.
LEMMA SubstreamsStep ==
    ASSUME NEW s, NEW n \in Nat, s.start \in Nat, s.start <= n
    PROVE  /\ Divided(n + 1) => Substreams(s, n + 1) = Substreams(s, n) + 1
           /\ ~Divided(n + 1) => Substreams(s, n + 1) = Substreams(s, n)
<1> DEFINE T(m) == {t \in s.start + 1 .. m : Divided(t)}
<1>1. IsFiniteSet(T(n))
  <2>1. IsFiniteSet(s.start + 1 .. n)
    BY FS_Interval
  <2> QED
    BY <2>1, FS_Subset
<1>2. CASE Divided(n + 1)
  <2>1. T(n + 1) = T(n) \cup {n + 1} /\ n + 1 \notin T(n)
    BY <1>2
  <2>2. Cardinality(T(n) \cup {n + 1}) = Cardinality(T(n)) + 1
    BY <1>1, <2>1, FS_AddElement
  <2> QED
    BY <1>2, <2>1, <2>2 DEF Substreams
<1>3. CASE ~Divided(n + 1)
  <2>1. T(n + 1) = T(n)
    BY <1>3
  <2> QED
    BY <1>3, <2>1 DEF Substreams
<1> QED
  BY <1>2, <1>3

\* The next block of a segment, which may begin a substream.
LEMMA GoesOn ==
    ASSUME Coded, NEW s, NEW n \in Nat, InSegment(s, n), n < s.end, UNCHANGED <<pic, segments>>,
           LET new == EndOfTile(n) \/ EndOfRow(n)
           IN  /\ seg' = [seg EXCEPT !.ts = @ + 1, !.sub = IF new THEN @ + 1 ELSE @]
               /\ d'.ctx = IF EndOfTile(n) THEN Header(n) ELSE After(n)
               /\ d'.qp = IF new THEN Header(n) ELSE After(n)
               /\ d'.prevSlic = d.prevSlic /\ d'.sliceAddrRs = d.sliceAddrRs
               /\ d'.depSliceAddrRs = d.depSliceAddrRs
    PROVE  InSegment(s, n + 1)'
<1> DEFINE new == EndOfTile(n) \/ EndOfRow(n)
<1>1. /\ s \in segments /\ n \in Blocks /\ s.start <= n
      /\ seg = [on |-> TRUE, start |-> s.start, end |-> s.end, hdr |-> Header(n), ts |-> n, sub |-> Substreams(s, n)]
      /\ d.prevSlic = Header(n) /\ d.sliceAddrRs = pic.tsToRs[SliceStart(n)]
      /\ d.depSliceAddrRs = pic.tsToRs[SliceStart(n)]
  BY DEF InSegment
<1>2. s.start \in Nat /\ s.end \in Nat
  BY <1>1, BlocksAre DEF Coded, PartsOK
<1>3. n + 1 \in Blocks /\ SliceStart(n + 1) = SliceStart(n)
  BY <1>1, SegmentStep
<1>4. Header(n + 1) = Header(n)
  BY <1>3 DEF Header
<1>5. (EndOfTile(n) <=> FirstInTile(n + 1)) /\ (EndOfRow(n) <=> FirstInRow(n + 1))
  BY <1>1, <1>3, SubstreamsEnd
<1>6. new <=> Divided(n + 1)
  BY <1>5 DEF Divided
<1>7. seg' = [on |-> TRUE, start |-> s.start, end |-> s.end, hdr |-> Header(n + 1),
              ts |-> n + 1, sub |-> Substreams(s, n + 1)]
  <2>1. seg' = [seg EXCEPT !.ts = @ + 1, !.sub = IF new THEN @ + 1 ELSE @]
    OBVIOUS
  <2>2. (IF new THEN Substreams(s, n) + 1 ELSE Substreams(s, n)) = Substreams(s, n + 1)
    BY <1>1, <1>2, <1>6, SubstreamsStep
  <2>3. seg' = [on |-> TRUE, start |-> s.start, end |-> s.end, hdr |-> Header(n), ts |-> n + 1,
                sub |-> IF new THEN Substreams(s, n) + 1 ELSE Substreams(s, n)]
    <3> HIDE DEF new
    <3> QED
      BY <1>1, <2>1
  <2> QED
    BY <1>4, <2>2, <2>3
<1>8. n + 1 # SliceStart(n + 1) /\ n + 1 # s.start /\ (n + 1) - 1 = n /\ s.start <= n + 1 /\ n + 1 <= s.end
  <2>1. SliceStart(n) <= n /\ SliceStart(n) \in Int
    BY <1>1, SliceStartIs, BlocksAre DEF IsSliceStart, Coded
  <2> QED
    BY <1>1, <1>2, <1>3, <2>1
<1>9. d'.ctx = IF FirstInTile(n + 1) \/ (n + 1 = s.start /\ ~s.dep) THEN Header(n + 1) ELSE After((n + 1) - 1)
  BY <1>4, <1>5, <1>8
<1>10. d'.qp = IF FirstInTile(n + 1) \/ FirstInRow(n + 1) THEN Header(n + 1) ELSE After((n + 1) - 1)
  BY <1>4, <1>5, <1>8
<1>11. /\ Header(n + 1)' = Header(n + 1) /\ SliceStart(n + 1)' = SliceStart(n + 1)
       /\ Substreams(s, n + 1)' = Substreams(s, n + 1)
       /\ (FirstInTile(n + 1)' <=> FirstInTile(n + 1)) /\ (FirstInRow(n + 1)' <=> FirstInRow(n + 1))
       /\ Blocks' = Blocks
  BY CodedStays
<1>12. /\ d'.prevSlic = Header(n + 1) /\ d'.sliceAddrRs = pic.tsToRs[SliceStart(n + 1)]
       /\ d'.depSliceAddrRs = pic.tsToRs[SliceStart(n + 1)]
  BY <1>1, <1>3, <1>4
<1>13. /\ d'.ctx = IF FirstInTile(n + 1)' \/ (n + 1 = s.start /\ ~s.dep) THEN Header(n + 1)' ELSE After((n + 1) - 1)
       /\ n + 1 = SliceStart(n + 1)' \/ FirstInTile(n + 1)' => d'.qp = Header(n + 1)'
       /\ ~(n + 1 = SliceStart(n + 1)' \/ FirstInTile(n + 1)' \/ FirstInRow(n + 1)')
             => d'.qp = After((n + 1) - 1)
  BY <1>8, <1>9, <1>10, <1>11
<1> QED
  BY <1>1, <1>3, <1>7, <1>8, <1>11, <1>12, <1>13 DEF InSegment

\* The three ways a block ends.
LEMMA BlockStep ==
    ASSUME SegmentsInv, EndSegment \/ NextSubstream \/ NextBlock
    PROVE  SegmentsInv'
<1> DEFINE t == seg.ts
<1>1. seg.on /\ UNCHANGED <<pic, segments>> /\ read' = [read EXCEPT ![t] = Parsing(t)]
  BY DEF EndSegment, NextSubstream, NextBlock
<1>2. Shaped /\ Coded /\ Coded'
  BY <1>1, CodedStays DEF SegmentsInv
<1> DEFINE b == Behind(t)
           new == EndOfTile(t) \/ EndOfRow(t)
           E == t = seg.end /\ d' = [b EXCEPT !.depSaved = After(t)] /\ seg' = Idle
           S == /\ t < seg.end /\ new
                /\ d' = [b EXCEPT !.qp = seg.hdr,
                                  !.ctx = IF EndOfTile(t) THEN seg.hdr ELSE @,
                                  !.saved = IF EndOfTile(t) THEN Unset ELSE @]
                /\ seg' = [seg EXCEPT !.ts = @ + 1, !.sub = @ + 1]
           B == /\ t < seg.end /\ ~new /\ d' = b
                /\ seg' = [seg EXCEPT !.ts = @ + 1]
           Same == /\ DOMAIN d' = Fields /\ d'.open = d.open /\ d'.corrupt = d.corrupt
                   /\ d'.nextCTU = t + 1 /\ d'.prevSlic = d.prevSlic /\ d'.sliceAddrRs = d.sliceAddrRs
                   /\ d'.depSliceAddrRs = d.depSliceAddrRs
           saved == IF pic.wpp /\ pic.tsToRs[t] % pic.w = 1 THEN After(t) ELSE d.saved
<1>3. E \/ S \/ B
  BY DEF EndSegment, NextSubstream, NextBlock
<1>4. /\ DOMAIN b = Fields /\ b.ctx = After(t) /\ b.qp = After(t) /\ b.nextCTU = t + 1
      /\ b.saved = saved
      /\ \A f \in Fields \ {"ctx", "qp", "nextCTU", "saved"} : b[f] = d[f]
  BY <1>2, BehindIs
<1> HIDE DEF b, saved
<1>5. /\ b.open = d.open /\ b.corrupt = d.corrupt /\ b.prevSlic = d.prevSlic
      /\ b.sliceAddrRs = d.sliceAddrRs /\ b.depSliceAddrRs = d.depSliceAddrRs
  BY <1>4 DEF Fields
<1>6. ASSUME E PROVE Same /\ d'.ctx = After(t) /\ d'.qp = After(t) /\ d'.saved = saved /\ d'.depSaved = After(t)
  BY <1>4, <1>5, <1>6 DEF Fields
<1>7. ASSUME S
      PROVE  /\ Same /\ d'.ctx = (IF EndOfTile(t) THEN seg.hdr ELSE After(t)) /\ d'.qp = seg.hdr
             /\ d'.saved = IF EndOfTile(t) THEN Unset ELSE saved
  <2>1. d' = [b EXCEPT !.qp = seg.hdr,
                       !.ctx = IF EndOfTile(t) THEN seg.hdr ELSE @,
                       !.saved = IF EndOfTile(t) THEN Unset ELSE @]
    BY <1>7
  <2> QED
    BY <1>4, <1>5, <2>1 DEF Fields
<1>8. ASSUME B PROVE Same /\ d'.ctx = After(t) /\ d'.qp = After(t) /\ d'.saved = saved
  BY <1>4, <1>5, <1>8
<1>9. Same
  BY <1>3, <1>6, <1>7, <1>8
<1>10. Shaped'
  BY <1>2, <1>9 DEF Shaped
<1>11. CASE d.corrupt
  BY <1>2, <1>9, <1>10, <1>11 DEF SegmentsInv
<1>12. CASE ~d.corrupt
  <2>1. ~Fresh
    BY <1>1 DEF Fresh, Idle
  <2>2. PICK n \in Nat : DecodedUpTo(n)
    BY <1>12, <2>1 DEF SegmentsInv, Decoded
  <2>3. ~Between(n)
    BY <1>1 DEF Between, Idle
  <2>4. PICK s \in segments : InSegment(s, n)
    BY <2>2, <2>3 DEF DecodedUpTo
  <2>5. /\ d.open /\ ReadUpTo(n) /\ SavedFor(n)
    BY <2>2 DEF DecodedUpTo
  <2>6. /\ t = n /\ seg.hdr = Header(n) /\ seg.end = s.end /\ n \in Blocks
        /\ seg = [on |-> TRUE, start |-> s.start, end |-> s.end, hdr |-> Header(n), ts |-> n, sub |-> Substreams(s, n)]
        /\ d.prevSlic = Header(n) /\ d.depSliceAddrRs = pic.tsToRs[SliceStart(n)]
    BY <2>4 DEF InSegment
  <2>7. ReadUpTo(n + 1)'
    BY <1>1, <1>2, <2>4, <2>5, ReadsOn
  <2>8. EndOfTile(n) \/ d'.saved = IF pic.wpp /\ pic.tsToRs[n] % pic.w = 1 THEN After(n) ELSE d.saved
    BY <1>3, <1>6, <1>7, <1>8, <2>6 DEF saved
  <2>9. SavedFor(n + 1)'
    BY <1>1, <1>2, <2>5, <2>6, <2>8, SavesOn
  <2>10. d'.open /\ d'.nextCTU = n + 1
    BY <1>9, <2>5, <2>6
  <2>11. CASE E
    <3>1. Header(n)' = Header(n) /\ SliceStart(n)' = SliceStart(n) /\ Blocks' = Blocks /\ (n + 1) - 1 = n
      BY <1>1, CodedStays
    <3>2. d'.depSaved = After(n) /\ d'.qp = After(n) /\ d'.prevSlic = Header(n)
          /\ d'.depSliceAddrRs = pic.tsToRs[SliceStart(n)] /\ seg' = Idle
      BY <1>6, <1>9, <2>6, <2>11
    <3>3. Between(n + 1)'
      BY <1>1, <2>6, <3>1, <3>2 DEF Between, Idle
    <3>4. DecodedUpTo(n + 1)'
      BY <2>7, <2>9, <2>10, <3>3 DEF DecodedUpTo
    <3> QED
      BY <1>2, <1>10, <3>4 DEF SegmentsInv, Decoded
  <2>12. CASE S \/ B
    <3>1. n < s.end
      BY <2>6, <2>12
    <3> DEFINE more == EndOfTile(n) \/ EndOfRow(n)
    <3>2. seg' = [seg EXCEPT !.ts = @ + 1, !.sub = IF more THEN @ + 1 ELSE @]
      <4>1. CASE S
        BY <2>6, <4>1
      <4>2. CASE B
        <5>1. ~more /\ seg' = [seg EXCEPT !.ts = @ + 1]
          BY <2>6, <4>2
        <5> HIDE DEF more
        <5> QED
          BY <2>6, <5>1
      <4> QED
        BY <2>12, <4>1, <4>2
    <3>3. /\ d'.ctx = IF EndOfTile(n) THEN Header(n) ELSE After(n)
          /\ d'.qp = IF more THEN Header(n) ELSE After(n)
      <4>1. CASE S
        BY <1>7, <2>6, <4>1
      <4>2. CASE B
        BY <1>8, <2>6, <4>2
      <4> QED
        BY <2>12, <4>1, <4>2
    <3>4. InSegment(s, n + 1)'
      BY <1>1, <1>2, <1>9, <2>4, <3>1, <3>2, <3>3, GoesOn
    <3>5. s \in segments'
      BY <1>1
    <3>6. DecodedUpTo(n + 1)'
      BY <2>7, <2>9, <2>10, <3>4, <3>5 DEF DecodedUpTo
    <3> QED
      BY <1>2, <1>10, <3>6 DEF SegmentsInv, Decoded
  <2> QED
    BY <1>3, <2>11, <2>12
<1> QED
  BY <1>2, <1>11, <1>12 DEF Shaped

\* Losing a segment does nothing to the decoder.
LEMMA StaysWhenUnread ==
    ASSUME SegmentsInv, UNCHANGED <<pic, segments, d, seg, read>>
    PROVE  SegmentsInv'
<1>1. Coded' /\ Shaped'
  BY CodedStays DEF SegmentsInv, Shaped
<1>2. CASE d.corrupt
  BY <1>1, <1>2 DEF SegmentsInv
<1>3. CASE Fresh
  BY <1>1, <1>3, CodedStays DEF SegmentsInv, Fresh, Idle, Unset
<1>4. CASE Decoded
  <2>1. PICK n \in Nat : DecodedUpTo(n)
    BY <1>4 DEF Decoded
  <2>2. ReadUpTo(n)' /\ SavedFor(n)'
    BY <2>1, CodedStays DEF DecodedUpTo, ReadUpTo, SavedFor, Unset, After
  <2>3. ASSUME NEW s \in segments, InSegment(s, n) PROVE InSegment(s, n)'
    <3>1. /\ Header(n)' = Header(n) /\ SliceStart(n)' = SliceStart(n) /\ Substreams(s, n)' = Substreams(s, n)
          /\ (FirstInTile(n)' <=> FirstInTile(n)) /\ (FirstInRow(n)' <=> FirstInRow(n)) /\ Blocks' = Blocks
      BY CodedStays
    <3>2. d.ctx = IF FirstInTile(n)' \/ (n = s.start /\ ~s.dep) THEN Header(n)' ELSE After(n - 1)
      BY <2>3, <3>1 DEF InSegment
    <3> QED
      BY <2>3, <3>1, <3>2 DEF InSegment
  <2>4. Between(n) => Between(n)'
    BY CodedStays DEF Between, Idle, After
  <2>5. DecodedUpTo(n)'
    BY <2>1, <2>2, <2>3, <2>4 DEF DecodedUpTo
  <2> QED
    BY <1>1, <2>5 DEF SegmentsInv, Decoded
<1> QED
  BY <1>2, <1>3, <1>4 DEF SegmentsInv

\* The invariant is inductive.
LEMMA SegmentsInvNext ==
    ASSUME SegmentsInv, [DataNext]_dataVars
    PROVE  SegmentsInv'
<1>1. CASE Deliver
  BY <1>1, ArrivesWell DEF Deliver
<1>2. CASE Again
  BY <1>2, ArrivesWell DEF Again
<1>3. CASE Lose
  BY <1>3, StaysWhenUnread DEF Lose
<1>4. CASE EndSegment \/ NextSubstream \/ NextBlock
  BY <1>4, BlockStep
<1>5. CASE UNCHANGED dataVars
  BY <1>5, StaysWhenUnread DEF dataVars
<1> QED
  BY <1>1, <1>2, <1>3, <1>4, <1>5 DEF DataNext

\* And it is enough.
LEMMA SegmentsInvParsed ==
    ASSUME SegmentsInv
    PROVE  ParsedAsCoded
<1>1. SUFFICES ASSUME ~d.corrupt
               PROVE  /\ \A t \in Blocks : read[t] # Unset => read[t] = CodedWith(t)
                      /\ d.nextCTU = pic.size => \A t \in Blocks : read[t] # Unset
  BY DEF ParsedAsCoded
<1>2. pic.size \in Nat \ {0} /\ Blocks = 0 .. pic.size - 1
  BY BlocksAre DEF SegmentsInv, Coded
<1>3. CASE Fresh
  BY <1>2, <1>3 DEF Fresh
<1>4. CASE Decoded
  <2>1. PICK n \in Nat : DecodedUpTo(n)
    BY <1>4 DEF Decoded
  <2>2. d.nextCTU = n /\ \A t \in Blocks : read[t] = IF t < n THEN CodedWith(t) ELSE Unset
    BY <2>1 DEF DecodedUpTo, ReadUpTo
  <2>3. ASSUME NEW t PROVE CodedWith(t) # Unset
    <3>1. PICK a, b, c : CodedWith(t) = [ctx |-> a, qp |-> b, sub |-> c]
      BY DEF CodedWith
    <3>2. "ctx" \in DOMAIN CodedWith(t) /\ "ctx" \notin DOMAIN Unset
      BY <3>1 DEF Unset
    <3> QED
      BY <3>2
  <2> QED
    BY <1>2, <2>2, <2>3
<1> QED
  BY <1>1, <1>3, <1>4 DEF SegmentsInv

-----------------------------------------------------------------------------
(* The scan of a picture with one column of tiles is that of its rows.     *)

\* The borders of columns and rows: a recursive function is what its equation says.
LEMMA BoundsAre ==
    ASSUME NEW q, Len(q) \in Nat
    PROVE  Bound(q, 0) = 0 /\ \A i \in 1 .. Len(q) : Bound(q, i) = Bound(q, i - 1) + q[i]
<1> DEFINE N == Len(q)
           Solves(g, m) == g = [i \in 0 .. m |-> IF i = 0 THEN 0 ELSE g[i - 1] + q[i]]
           T == {m \in Nat : \E g : Solves(g, m)}
<1>1. 0 \in T
  <2> DEFINE g == [i \in {0} |-> 0]
  <2>1. Solves(g, 0)
    OBVIOUS
  <2> QED
    BY <2>1
<1>2. ASSUME NEW m \in T PROVE m + 1 \in T
  <2>1. m \in Nat
    OBVIOUS
  <2>2. PICK g : Solves(g, m)
    OBVIOUS
  <2> DEFINE h == [i \in 0 .. m + 1 |-> IF i = m + 1 THEN g[m] + q[m + 1] ELSE g[i]]
  <2>3. ASSUME NEW i \in 0 .. m + 1
        PROVE  h[i] = IF i = 0 THEN 0 ELSE h[i - 1] + q[i]
    <3>1. CASE i = m + 1
      BY <2>1, <3>1
    <3>2. CASE i # m + 1
      <4>1. i \in 0 .. m /\ h[i] = g[i] /\ g[i] = IF i = 0 THEN 0 ELSE g[i - 1] + q[i]
        BY <2>1, <2>2, <3>2
      <4>2. i # 0 => i - 1 \in 0 .. m + 1 /\ i - 1 # m + 1 /\ h[i - 1] = g[i - 1]
        BY <2>1, <3>2
      <4> HIDE DEF h
      <4> QED
        BY <4>1, <4>2
    <3> QED
      BY <3>1, <3>2
  <2>4. Solves(h, m + 1)
    BY <2>3
  <2> HIDE DEF h, Solves
  <2> QED
    BY <2>1, <2>4
<1>3. N \in T
  <2> HIDE DEF Solves
  <2> QED
    BY <1>1, <1>2, Induct
<1>4. Bounds(q) = CHOOSE g : Solves(g, N)
  BY DEF Bounds
<1>5. Solves(Bounds(q), N)
  <2> HIDE DEF Solves, N
  <2> QED
    BY <1>3, <1>4
<1> QED
  BY <1>5 DEF Bound

LEMMA BoundsGrow ==
    ASSUME NEW q, Sizes(q)
    PROVE  /\ Len(q) \in Nat \ {0} /\ Bound(q, 0) = 0 /\ Bound(q, Len(q)) \in Nat \ {0}
           /\ \A j \in 0 .. Len(q) : Bound(q, j) \in Nat /\ \A i \in 0 .. j : Bound(q, i) <= Bound(q, j)
           /\ \A i \in 1 .. Len(q) : q[i] \in Nat /\ Bound(q, i) = Bound(q, i - 1) + q[i]
<1> DEFINE N == Len(q)
           T == {j \in Nat : j <= N => \A i \in 0 .. j : Bound(q, i) \in Nat /\ Bound(q, i) <= Bound(q, j)}
<1>1. q \in Seq(Nat \ {0}) /\ N \in Nat \ {0}
  BY EmptySeq DEF Sizes
<1>2. \A i \in 1 .. N : q[i] \in Nat \ {0}
  BY <1>1, ElementOfSeq
<1>3. Bound(q, 0) = 0 /\ \A i \in 1 .. N : Bound(q, i) = Bound(q, i - 1) + q[i]
  BY <1>1, BoundsAre
<1>4. 0 \in T
  BY <1>3
<1>5. ASSUME NEW j \in T PROVE j + 1 \in T
  <2>1. j \in Nat
    OBVIOUS
  <2>2. SUFFICES ASSUME j + 1 <= N
                 PROVE  \A i \in 0 .. j + 1 : Bound(q, i) \in Nat /\ Bound(q, i) <= Bound(q, j + 1)
    BY <2>1
  <2>3. \A i \in 0 .. j : Bound(q, i) \in Nat /\ Bound(q, i) <= Bound(q, j)
    BY <1>1, <2>1, <2>2
  <2>4. Bound(q, j + 1) = Bound(q, j) + q[j + 1] /\ q[j + 1] \in Nat /\ Bound(q, j) \in Nat
    <3>1. j + 1 \in 1 .. N /\ (j + 1) - 1 = j /\ j \in 0 .. j
      BY <1>1, <2>1, <2>2
    <3> QED
      BY <1>2, <1>3, <2>3, <3>1
  <2>5. ASSUME NEW i \in 0 .. j + 1 PROVE Bound(q, i) \in Nat /\ Bound(q, i) <= Bound(q, j + 1)
    <3>1. CASE i = j + 1
      BY <2>4, <3>1
    <3>2. CASE i # j + 1
      <4>1. i \in 0 .. j
        BY <2>1, <3>2
      <4> QED
        BY <2>3, <2>4, <4>1
    <3> QED
      BY <3>1, <3>2
  <2> QED
    BY <2>5
<1>6. T = Nat
  <2>1. T \in SUBSET Nat
    OBVIOUS
  <2> HIDE DEF T
  <2> QED
    BY <1>4, <1>5, <2>1, Induct
<1>7. \A j \in 0 .. N : Bound(q, j) \in Nat /\ \A i \in 0 .. j : Bound(q, i) <= Bound(q, j)
  <2>1. SUFFICES ASSUME NEW j \in 0 .. N
                 PROVE  Bound(q, j) \in Nat /\ \A i \in 0 .. j : Bound(q, i) <= Bound(q, j)
    OBVIOUS
  <2>2. j \in T /\ j <= N /\ j \in 0 .. j
    BY <1>1, <1>6
  <2> QED
    BY <2>2
<1>8. Bound(q, N) \in Nat \ {0}
  <2>1. N \in 1 .. N /\ N - 1 \in 0 .. N
    BY <1>1
  <2>2. Bound(q, N) = Bound(q, N - 1) + q[N] /\ q[N] \in Nat \ {0} /\ Bound(q, N - 1) \in Nat
    BY <1>2, <1>3, <1>7, <2>1
  <2> QED
    BY <2>2
<1> QED
  BY <1>1, <1>2, <1>3, <1>7, <1>8

\* Every coordinate is in one column or row, in their order.
LEMMA TileAtIs ==
    ASSUME NEW q, Sizes(q), NEW x \in 0 .. Bound(q, Len(q)) - 1
    PROVE  /\ TileAt(q, x) \in 0 .. Len(q) - 1
           /\ Bound(q, TileAt(q, x)) <= x /\ x < Bound(q, TileAt(q, x) + 1)
<1> DEFINE N == Len(q)
           T == {i \in 0 .. N : Bound(q, i) <= x}
<1>1. /\ N \in Nat \ {0} /\ Bound(q, 0) = 0 /\ Bound(q, N) \in Nat
      /\ \A j \in 0 .. N : Bound(q, j) \in Nat
  BY BoundsGrow
<1>2. x \in Nat /\ x < Bound(q, N)
  BY <1>1
<1>3. 0 \in T /\ T \in SUBSET (0 .. N)
  BY <1>1, <1>2
<1>4. PICK i \in T : \A j \in T : j <= i
  <2> HIDE DEF T
  <2> QED
    BY <1>1, <1>3, GreatestOf
<1>5. i \in 0 .. N - 1
  BY <1>1, <1>2, <1>4
<1>6. x < Bound(q, i + 1)
  <2>1. SUFFICES ASSUME ~(x < Bound(q, i + 1)) PROVE FALSE
    OBVIOUS
  <2>2. i + 1 \in 0 .. N
    BY <1>1, <1>5
  <2>3. i + 1 \in T
    BY <1>1, <1>2, <2>1, <2>2
  <2>4. i + 1 <= i
    <3> HIDE DEF T
    <3> QED
      BY <1>4, <2>3
  <2> QED
    BY <1>5, <2>4
<1>7. Bound(q, i) <= x
  BY <1>4
<1> QED
  BY <1>5, <1>6, <1>7 DEF TileAt

LEMMA TileAtGrows ==
    ASSUME NEW q, Sizes(q), NEW x \in 0 .. Bound(q, Len(q)) - 1, NEW y \in 0 .. Bound(q, Len(q)) - 1, x <= y
    PROVE  TileAt(q, x) <= TileAt(q, y)
<1> DEFINE a == TileAt(q, x)
           b == TileAt(q, y)
<1>1. /\ Len(q) \in Nat /\ \A j \in 0 .. Len(q) : Bound(q, j) \in Nat /\ \A i \in 0 .. j : Bound(q, i) <= Bound(q, j)
  BY BoundsGrow
<1>2. a \in 0 .. Len(q) - 1 /\ Bound(q, a) <= x
  BY TileAtIs
<1>3. b \in 0 .. Len(q) - 1 /\ y < Bound(q, b + 1)
  BY TileAtIs
<1>4. x \in Int /\ y \in Int
  OBVIOUS
<1>5. SUFFICES ASSUME b < a PROVE FALSE
  BY <1>1, <1>2, <1>3
<1> HIDE DEF a, b
<1>6. b + 1 \in 0 .. a /\ a \in 0 .. Len(q) /\ b + 1 \in 0 .. Len(q)
  BY <1>1, <1>2, <1>3, <1>5
<1>7. Bound(q, b + 1) <= Bound(q, a) /\ Bound(q, a) \in Nat /\ Bound(q, b + 1) \in Nat
  BY <1>1, <1>6
<1> QED
  BY <1>2, <1>3, <1>4, <1>7

LEMMA SizeIs ==
    ASSUME NEW cols, NEW rows, Sizes(cols), Sizes(rows)
    PROVE  /\ buildTileScan(cols, rows).size = Bound(cols, Len(cols)) * Bound(rows, Len(rows))
           /\ buildTileScan(cols, rows).size \in Nat \ {0}
<1>1. buildTileScan(cols, rows).size = Bound(cols, Len(cols)) * Bound(rows, Len(rows))
  BY DEF buildTileScan
<1>2. Bound(cols, Len(cols)) \in Nat \ {0} /\ Bound(rows, Len(rows)) \in Nat \ {0}
  BY BoundsGrow
<1>3. \A a, b \in Nat \ {0} : a * b \in Nat \ {0}
  BY SMT
<1> QED
  BY <1>1, <1>2, <1>3


\* The row and the column of an address.
LEMMA RowOf ==
    ASSUME NEW w \in Nat \ {0}, NEW h \in Nat, NEW n \in 0 .. w * h - 1
    PROVE  n \in Nat /\ n \div w \in 0 .. h - 1 /\ n % w \in 0 .. w - 1 /\ n = w * (n \div w) + (n % w)
<1> DEFINE q == n \div w
           r == n % w
<1>1. n \in Nat /\ w * h \in Nat /\ n < w * h
  BY SMT
<1>2. q \in Nat /\ r \in 0 .. w - 1 /\ w * q \in Nat /\ n = w * q + r
  BY <1>1, DivMod
<1> HIDE DEF q, r
<1>3. ~(q >= h)
  <2>1. SUFFICES ASSUME q >= h PROVE FALSE
    OBVIOUS
  <2>2. w * q >= w * h
    BY <1>2, <2>1, SMT
  <2> QED
    BY <1>1, <1>2, <2>2
<1>4. q \in 0 .. h - 1
  BY <1>2, <1>3
<1>5. n \div w \in 0 .. h - 1
  BY <1>4, Zenon DEF q
<1>6. n % w \in 0 .. w - 1
  BY <1>2, Zenon DEF r
<1>7. n = w * (n \div w) + (n % w)
  BY <1>2, Zenon DEF q, r
<1> QED
  BY <1>1, <1>5, <1>6, <1>7

\* With one column of tiles the two scans are one, and a tile is some whole rows.
LEMMA OneColumnScan ==
    ASSUME NEW cols, NEW rows, Sizes(cols), Sizes(rows), Len(cols) = 1
    PROVE  LET b == buildTileScan(cols, rows)
               w == Bound(cols, 1)
               h == Bound(rows, Len(rows))
           IN  /\ b.w = w /\ w \in Nat \ {0} /\ b.size = w * h /\ h \in Nat \ {0}
               /\ \A t \in 0 .. w * h - 1 :
                     b.rsToTs[t] = t /\ b.tsToRs[t] = t /\ b.tileID[t] = TileAt(rows, t \div w)
<1> DEFINE b == buildTileScan(cols, rows)
           w == Bound(cols, 1)
           h == Bound(rows, Len(rows))
           last == w * h - 1
           toTs == [rs \in 0 .. last |-> rsToTs(cols, rows, rs)]
           toRs == [ts \in 0 .. last |-> CHOOSE rs \in 0 .. last : toTs[rs] = ts]
           id(rs) == TileAt(rows, rs \div w) * Len(cols) + TileAt(cols, rs % w)
<1>1. /\ w \in Nat \ {0} /\ Bound(cols, 0) = 0 /\ cols[1] = w
  <2>1. 1 \in 1 .. Len(cols) /\ 1 - 1 = 0
    OBVIOUS
  <2>2. Bound(cols, 0) = 0 /\ w \in Nat \ {0} /\ cols[1] \in Nat /\ w = Bound(cols, 0) + cols[1]
    BY <2>1, BoundsGrow
  <2> QED
    BY <2>2
<1>2. h \in Nat \ {0} /\ Len(rows) \in Nat
  BY BoundsGrow
<1>3. b = [w |-> w, size |-> w * h, rsToTs |-> toTs, tsToRs |-> toRs,
           tileID |-> [ts \in 0 .. last |-> id(toRs[ts])]]
  BY DEF buildTileScan
<1>4. ASSUME NEW x \in 0 .. w - 1 PROVE TileAt(cols, x) = 0
  <2>1. TileAt(cols, x) \in 0 .. Len(cols) - 1
    BY TileAtIs
  <2> QED
    BY <2>1
<1> HIDE DEF w, h, b, toTs, toRs
<1>5. ASSUME NEW n \in 0 .. last
      PROVE  n \div w \in 0 .. h - 1 /\ n % w \in 0 .. w - 1 /\ n = w * (n \div w) + (n % w) /\ n \in Nat
  BY <1>1, <1>2, RowOf
<1>6. ASSUME NEW n \in 0 .. last PROVE rsToTs(cols, rows, n) = n
  <2> DEFINE x == n % w
             y == n \div w
             ty == TileAt(rows, y)
  <2>1. x \in 0 .. w - 1 /\ y \in 0 .. h - 1 /\ n = w * y + x
    <3>1. n \div w \in 0 .. h - 1
      BY <1>5, Zenon
    <3>2. n % w \in 0 .. w - 1
      BY <1>5, Zenon
    <3>3. n = w * (n \div w) + (n % w)
      BY <1>5, Zenon
    <3> QED
      BY <3>1, <3>2, <3>3, Zenon
  <2>2. ty \in 0 .. Len(rows) - 1
    BY <2>1, TileAtIs DEF h
  <2>3. Bound(rows, ty) \in Nat /\ rows[ty + 1] \in Nat
    <3>1. ty \in 0 .. Len(rows) /\ ty + 1 \in 1 .. Len(rows)
      BY <1>2, <2>2
    <3> HIDE DEF ty
    <3> QED
      BY <3>1, BoundsGrow
  <2>4. rsToTs(cols, rows, n)
        = Bound(rows, ty) * w + 0 * rows[ty + 1] + (y - Bound(rows, ty)) * w + x - 0
    <3>1. TileAt(cols, x) = 0
      BY <1>4, <2>1
    <3>2. rsToTs(cols, rows, n)
          = Bound(rows, ty) * w + Bound(cols, TileAt(cols, x)) * rows[ty + 1]
            + (y - Bound(rows, ty)) * cols[TileAt(cols, x) + 1] + x - Bound(cols, TileAt(cols, x))
      BY DEF rsToTs, w
    <3>3. cols[0 + 1] = w
      BY <1>1
    <3> QED
      BY <1>1, <3>1, <3>2, <3>3
  <2> DEFINE beta == Bound(rows, ty)
             r == rows[ty + 1]
  <2>5. rsToTs(cols, rows, n) = beta * w + 0 * r + (y - beta) * w + x - 0 /\ beta \in Nat /\ r \in Nat
    BY <2>3, <2>4
  <2>6. y \in Nat /\ x \in Nat /\ w \in Nat
    BY <1>1, <2>1
  <2> HIDE DEF beta, r, x, y, ty
  <2>7. beta * w + 0 * r + (y - beta) * w + x - 0 = w * y + x
    <3>1. (y - beta) * w = y * w - beta * w
      BY <2>5, <2>6, SMT
    <3> QED
      BY <2>5, <2>6, <3>1, SMT
  <2> QED
    BY <2>1, <2>5, <2>7
<1>7. \A t \in 0 .. last : toTs[t] = t
  BY <1>6 DEF toTs
<1>8. \A t \in 0 .. last : toRs[t] = t
  <2>1. SUFFICES ASSUME NEW t \in 0 .. last PROVE (CHOOSE rs \in 0 .. last : toTs[rs] = t) = t
    BY DEF toRs
  <2> QED
    BY <1>7
<1>9. \A t \in 0 .. last : id(t) = TileAt(rows, t \div w)
  <2>1. SUFFICES ASSUME NEW t \in 0 .. last PROVE id(t) = TileAt(rows, t \div w)
    OBVIOUS
  <2>2. TileAt(cols, t % w) = 0
    BY <1>4, <1>5
  <2>3. TileAt(rows, t \div w) \in Int
    BY <1>5, TileAtIs DEF h
  <2> DEFINE v == TileAt(rows, t \div w)
  <2> HIDE DEF v
  <2>4. v * 1 + 0 = v
    BY <2>3 DEF v
  <2> QED
    BY <2>2, <2>4 DEF v
<1>10. b.w = w /\ b.size = w * h /\ b.rsToTs = toTs /\ b.tsToRs = toRs
       /\ \A t \in 0 .. last : b.tileID[t] = id(toRs[t])
  <2> HIDE DEF id
  <2> QED
    BY <1>3
<1>11. \A t \in 0 .. last : b.tileID[t] = TileAt(rows, t \div w)
  <2> HIDE DEF id
  <2> QED
    BY <1>8, <1>9, <1>10
<1> QED
  BY <1>1, <1>2, <1>7, <1>8, <1>10, <1>11 DEF b, w, h

\* The picture of a shape is what the invariant needs of it.
LEMMA ShapesScan ==
    ASSUME OneColumn, ShapeAssumption, NEW s \in Shapes, pic = Picture(s)
    PROVE  PicOK(pic)
<1> DEFINE b == buildTileScan(s.cols, s.rows)
<1>1. Sizes(s.cols) /\ Sizes(s.rows) /\ s.wpp \in BOOLEAN /\ (s.wpp => Len(s.cols) = 1)
  BY DEF ShapeAssumption, OneColumn
<1>3. b.size \in Nat \ {0}
  BY <1>1, SizeIs
<1>4. pic.wpp = s.wpp
  BY DEF Picture
<1>5. pic.w = b.w /\ pic.size = b.size /\ pic.rsToTs = b.rsToTs /\ pic.tsToRs = b.tsToRs /\ pic.tileID = b.tileID
  BY DEF Picture
<1> HIDE DEF b
<1>6. CASE ~s.wpp
  BY <1>1, <1>3, <1>4, <1>5, <1>6 DEF PicOK
<1>7. CASE s.wpp
  <2> DEFINE w == Bound(s.cols, 1)
             h == Bound(s.rows, Len(s.rows))
  <2>1. /\ b.w = w /\ w \in Nat \ {0} /\ b.size = w * h /\ h \in Nat \ {0}
        /\ \A t \in 0 .. w * h - 1 :
              b.rsToTs[t] = t /\ b.tsToRs[t] = t /\ b.tileID[t] = TileAt(s.rows, t \div w)
    BY <1>1, <1>7, OneColumnScan DEF b
  <2> HIDE DEF w
  <2>2. \A t \in 0 .. w * h - 1 : t \in Nat /\ t \div w \in 0 .. h - 1
    <3> HIDE DEF h
    <3> QED
      BY <2>1, RowOf
  <2>3. ASSUME NEW t \in 0 .. w * h - 1, NEW u \in 0 .. w * h - 1, t <= u
        PROVE  /\ TileAt(s.rows, t \div w) <= TileAt(s.rows, u \div w)
               /\ TileAt(s.rows, t \div w) \in Int /\ TileAt(s.rows, u \div w) \in Int
    <3>1. t \div w <= u \div w
      BY <2>1, <2>2, <2>3, RowsUp
    <3> QED
      BY <1>1, <2>2, <3>1, TileAtGrows, TileAtIs
  <2>4. ASSUME NEW t \in 0 .. w * h - 1, NEW u \in 0 .. w * h - 1, NEW x \in 0 .. w * h - 1,
               t <= u, u <= x, b.tileID[t] = b.tileID[x]
        PROVE  b.tileID[u] = b.tileID[x]
    <3>1. TileAt(s.rows, t \div w) = TileAt(s.rows, x \div w)
      BY <2>1, <2>4
    <3> DEFINE a(v) == TileAt(s.rows, v \div w)
    <3>2. a(t) <= a(u) /\ a(u) <= a(x) /\ a(t) = a(x) /\ a(t) \in Int /\ a(u) \in Int /\ a(x) \in Int
      BY <2>3, <2>4, <3>1
    <3> HIDE DEF a
    <3>3. a(u) = a(x)
      BY <3>2
    <3> QED
      BY <2>1, <3>3 DEF a
  <2> HIDE DEF h
  <2>5. \A t, u \in 0 .. w * h - 1 : t \div w = u \div w => b.tileID[t] = b.tileID[u]
    BY <2>1
  <2> QED
    BY <1>1, <1>3, <1>4, <1>5, <2>1, <2>4, <2>5 DEF PicOK
<1> QED
  BY <1>1, <1>6, <1>7

LEMMA SegmentsInvInit ==
    ASSUME OneColumn, ShapeAssumption, DataInit
    PROVE  SegmentsInv
<1>1. PICK s \in Shapes : /\ pic = Picture(s)
                          /\ \E b \in {x \in Begins(pic) : Conforming(pic, Segments(pic, x))} :
                                segments = Segments(pic, b)
  BY DEF DataInit
<1>2. PicOK(pic)
  BY <1>1, ShapesScan
<1>3. PartsOK(pic, segments) /\ Conforming(pic, segments)
  BY <1>1, <1>2, SegmentsArePart DEF PicOK
<1>4. Shaped /\ Fresh
  BY DEF DataInit, Shaped, Fields, Fresh
<1> QED
  BY <1>2, <1>3, <1>4 DEF SegmentsInv, Coded

\* Whatever the picture, its tiles or rows that are substreams, its slices and
\* segments, and whichever of them are lost or come again: a picture that is not
\* marked was parsed as it was coded (decodeSliceData of decoder.go).
THEOREM SegmentsParseAsCoded == OneColumn => (DataSpec => []ParsedAsCoded)
<1> SUFFICES ASSUME OneColumn PROVE DataSpec => []ParsedAsCoded
  OBVIOUS
<1>1. DataInit => SegmentsInv
  BY ShapesGiven, SegmentsInvInit
<1>2. SegmentsInv /\ [DataNext]_dataVars => SegmentsInv'
  BY SegmentsInvNext
<1>3. SegmentsInv => ParsedAsCoded
  BY SegmentsInvParsed
<1> QED
  BY <1>1, <1>2, <1>3, PTL DEF DataSpec
=============================================================================
