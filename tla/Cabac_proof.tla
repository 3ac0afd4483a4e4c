----------------------------- MODULE Cabac_proof -----------------------------
(***************************************************************************)
(* The decoder of Cabac reads back what its encoder coded, for every table *)
(* and every program that the assumptions of Cabac admit.                  *)
(*                                                                         *)
(* Of an encoder's arithmetic e, Place(e) is the number of bits that lie   *)
(* before its register: those written, the first one that is undecided and *)
(* those held back.  When everything is written the nine bits from there   *)
(* and the undecided one are a number, Value(e), and the code is right if  *)
(* that number lies in the interval [low, low + rng): Fits.  It holds      *)
(* backwards, from the end of the code to its start, and each step of the  *)
(* decoder halves the same interval: its low is the distance of Value from *)
(* the encoder's low, behind it the bits its window has and the marker.    *)
(***************************************************************************)
EXTENDS Cabac, SequenceTheorems, NaturalsInduction, WellFoundedInduction, TLAPS

Coder == [low : Nat, rng : Nat, outstanding : Nat, firstBit : BOOLEAN, out : Seq({0, 1})]
BitsTyped == bits \in Seq({0, 1})

Place(e) == Len(e.out) + e.outstanding + (IF e.firstBit THEN 0 ELSE 1)
Nine(n) == 256 * bitAt(n + 1) + 128 * bitAt(n + 2) + 64 * bitAt(n + 3) + 32 * bitAt(n + 4) + 16 * bitAt(n + 5)
           + 8 * bitAt(n + 6) + 4 * bitAt(n + 7) + 2 * bitAt(n + 8) + bitAt(n + 9)
Undecided(e) == IF e.firstBit THEN 0 ELSE bitAt(Len(e.out) + 1)
Value(e) == 512 * Undecided(e) + Nine(Place(e))
Prefix(s) == Len(s) <= Len(bits) /\ \A i \in 1 .. Len(s) : bits[i] = s[i]
Held(e) ==
    /\ Prefix(e.out)
    /\ \A j \in 1 .. e.outstanding : bitAt(Place(e) - e.outstanding + j) = 1 - Undecided(e)
Fits(e) == Held(e) /\ Value(e) - e.low \in 0 .. e.rng - 1

--------------------------------------------------------------------------------
\* Bits and what is put in front of others.

LEMMA BitTyped == ASSUME BitsTyped, NEW i \in Nat, i > 0 PROVE bitAt(i) \in {0, 1}
BY DEF bitAt, BitsTyped

LEMMA NineStep ==
    ASSUME BitsTyped, NEW n \in Nat
    PROVE  /\ Nine(n) \in 0 .. 511
           /\ Nine(n + 1) + 512 * bitAt(n + 1) = 2 * Nine(n) + bitAt(n + 10)
<1>1. \A j \in 1 .. 10 : bitAt(n + j) \in {0, 1}
  BY BitTyped
<1>2. \A j \in 1 .. 9 : (n + 1) + j = n + (j + 1)
  OBVIOUS
<1>3. Nine(n + 1) = 256 * bitAt(n + 2) + 128 * bitAt(n + 3) + 64 * bitAt(n + 4) + 32 * bitAt(n + 5) + 16 * bitAt(n + 6)
                    + 8 * bitAt(n + 7) + 4 * bitAt(n + 8) + 2 * bitAt(n + 9) + bitAt(n + 10)
  BY <1>2 DEF Nine
<1>4. /\ bitAt(n + 1) \in {0, 1} /\ bitAt(n + 2) \in {0, 1} /\ bitAt(n + 3) \in {0, 1} /\ bitAt(n + 4) \in {0, 1}
      /\ bitAt(n + 5) \in {0, 1} /\ bitAt(n + 6) \in {0, 1} /\ bitAt(n + 7) \in {0, 1} /\ bitAt(n + 8) \in {0, 1}
      /\ bitAt(n + 9) \in {0, 1} /\ bitAt(n + 10) \in {0, 1}
  BY <1>1
<1> QED
  BY <1>3, <1>4 DEF Nine

LEMMA CatIs ==
    ASSUME NEW s \in Seq({0, 1}), NEW t \in Seq({0, 1})
    PROVE  /\ s \o t \in Seq({0, 1}) /\ Len(s \o t) = Len(s) + Len(t)
           /\ \A i \in 1 .. Len(s) : (s \o t)[i] = s[i]
           /\ \A i \in 1 .. Len(t) : (s \o t)[Len(s) + i] = t[i]
<1>1. s \o t \in Seq({0, 1}) /\ Len(s \o t) = Len(s) + Len(t)
  BY ConcatProperties
<1>2. \A i \in 1 .. Len(s) + Len(t) : (s \o t)[i] = IF i <= Len(s) THEN s[i] ELSE t[i - Len(s)]
  BY ConcatProperties
<1>3. Len(s) \in Nat /\ Len(t) \in Nat
  OBVIOUS
<1>4. ASSUME NEW i \in 1 .. Len(t) PROVE (s \o t)[Len(s) + i] = t[i]
  <2>1. Len(s) + i \in 1 .. Len(s) + Len(t) /\ ~(Len(s) + i <= Len(s)) /\ (Len(s) + i) - Len(s) = i
    BY <1>3
  <2> QED
    BY <2>1, <1>2
<1> QED
  BY <1>1, <1>2, <1>3, <1>4

LEMMA RepeatIs ==
    ASSUME NEW n \in Nat, NEW v \in {0, 1}
    PROVE  /\ [i \in 1 .. n |-> v] \in Seq({0, 1}) /\ Len([i \in 1 .. n |-> v]) = n
           /\ \A i \in 1 .. n : [j \in 1 .. n |-> v][i] = v
<1> DEFINE s == [i \in 1 .. n |-> v]
<1>1. s \in [1 .. n -> {0, 1}]
  OBVIOUS
<1>2. s \in Seq({0, 1})
  BY <1>1, SeqDef
<1>3. Len(s) = n
  BY <1>1, <1>2, LenProperties
<1> QED
  BY <1>2, <1>3

LEMMA PrefixCat ==
    ASSUME NEW s \in Seq({0, 1}), NEW t \in Seq({0, 1}), BitsTyped, Prefix(s \o t)
    PROVE  /\ Prefix(s) /\ Len(s) + Len(t) <= Len(bits)
           /\ \A i \in 1 .. Len(t) : bitAt(Len(s) + i) = t[i]
<1>1. Len(s) \in Nat /\ Len(t) \in Nat /\ Len(bits) \in Nat
  BY DEF BitsTyped
<1>2. Len(s \o t) = Len(s) + Len(t)
  BY CatIs
<1>3. \A i \in 1 .. Len(s) : (s \o t)[i] = s[i]
  BY CatIs
<1>4. \A i \in 1 .. Len(t) : (s \o t)[Len(s) + i] = t[i]
  BY CatIs
<1>5. Len(s) + Len(t) <= Len(bits) /\ \A i \in 1 .. Len(s) + Len(t) : bits[i] = (s \o t)[i]
  BY <1>2 DEF Prefix
<1>6. Prefix(s)
  BY <1>1, <1>3, <1>5 DEF Prefix
<1>7. ASSUME NEW i \in 1 .. Len(t) PROVE bitAt(Len(s) + i) = t[i]
  <2>1. Len(s) + i \in 1 .. Len(s) + Len(t) /\ Len(s) + i <= Len(bits)
    BY <1>1, <1>5
  <2> QED
    BY <2>1, <1>4, <1>5 DEF bitAt
<1> QED
  BY <1>5, <1>6, <1>7
--------------------------------------------------------------------------------
\* One bit of the encoder.

LEMMA PutIs ==
    ASSUME NEW e \in Coder, NEW v \in {0, 1}, BitsTyped
    PROVE  /\ putBit(e, v) \in Coder /\ putBit(e, v).low = e.low /\ putBit(e, v).rng = e.rng
           /\ putBit(e, v).outstanding = 0 /\ putBit(e, v).firstBit = FALSE
           /\ Len(putBit(e, v).out) = Place(e)
           /\ Prefix(putBit(e, v).out) /\ (e.firstBit => v = 0) => Held(e) /\ Undecided(e) = v
<1> DEFINE first == IF e.firstBit THEN <<>> ELSE <<v>>
           rest == [i \in 1 .. e.outstanding |-> 1 - v]
           p == putBit(e, v)
<1>1. e = [low |-> e.low, rng |-> e.rng, outstanding |-> e.outstanding, firstBit |-> e.firstBit, out |-> e.out]
      /\ e.low \in Nat /\ e.rng \in Nat /\ e.outstanding \in Nat /\ e.firstBit \in BOOLEAN /\ e.out \in Seq({0, 1})
  BY DEF Coder
<1>2. p = [low |-> e.low, rng |-> e.rng, outstanding |-> 0, firstBit |-> FALSE, out |-> (e.out \o first) \o rest]
  BY DEF putBit
<1>3. first \in Seq({0, 1}) /\ Len(first) = (IF e.firstBit THEN 0 ELSE 1) /\ (~e.firstBit => first[1] = v)
  <2>1. CASE e.firstBit
    BY <2>1
  <2>2. CASE ~e.firstBit
    BY <2>2
  <2> QED
    BY <2>1, <2>2
<1>4. 1 - v \in {0, 1}
  OBVIOUS
<1>5. rest \in Seq({0, 1}) /\ Len(rest) = e.outstanding /\ \A i \in 1 .. e.outstanding : rest[i] = 1 - v
  BY <1>1, <1>4, RepeatIs
<1> HIDE DEF first, rest, p
<1>6. e.out \o first \in Seq({0, 1}) /\ Len(e.out \o first) = Len(e.out) + Len(first)
  BY <1>1, <1>3, CatIs
<1>7. (e.out \o first) \o rest \in Seq({0, 1}) /\ Len((e.out \o first) \o rest) = Len(e.out) + Len(first) + Len(rest)
  BY <1>1, <1>3, <1>5, <1>6, CatIs
<1>8. Len(p.out) = Place(e)
  BY <1>1, <1>2, <1>3, <1>5, <1>7 DEF Place
<1>9. p \in Coder /\ p.low = e.low /\ p.rng = e.rng /\ p.outstanding = 0 /\ p.firstBit = FALSE
  BY <1>1, <1>2, <1>7 DEF Coder
<1>10. ASSUME Prefix(p.out), e.firstBit => v = 0 PROVE Held(e) /\ Undecided(e) = v
  <2>1. Prefix((e.out \o first) \o rest)
    BY <1>10, <1>2
  <2>2. Prefix(e.out \o first) /\ \A i \in 1 .. Len(rest) : bitAt(Len(e.out \o first) + i) = rest[i]
    BY <2>1, <1>5, <1>6, PrefixCat
  <2>3. Prefix(e.out) /\ \A i \in 1 .. Len(first) : bitAt(Len(e.out) + i) = first[i]
    BY <2>2, <1>1, <1>3, PrefixCat
  <2>4. Undecided(e) = v
    <3>1. CASE e.firstBit
      BY <3>1, <1>10 DEF Undecided
    <3>2. CASE ~e.firstBit
      BY <3>2, <2>3, <1>3 DEF Undecided
    <3> QED
      BY <3>1, <3>2, <1>1
  <2>5. ASSUME NEW j \in 1 .. e.outstanding PROVE bitAt(Place(e) - e.outstanding + j) = 1 - v
    <3>1. Place(e) - e.outstanding + j = Len(e.out \o first) + j
      BY <1>1, <1>3, <1>6 DEF Place
    <3> QED
      BY <3>1, <2>2, <1>5
  <2> QED
    BY <2>3, <2>4, <2>5 DEF Held
<1> QED
  BY <1>8, <1>9, <1>10 DEF p

LEMMA PlaceIs ==
    ASSUME NEW e \in Coder, BitsTyped
    PROVE  /\ Place(e) \in Nat /\ Nine(Place(e)) \in 0 .. 511 /\ Undecided(e) \in {0, 1}
           /\ Value(e) \in 0 .. 1023 /\ bitAt(Place(e) + 1) \in {0, 1} /\ bitAt(Place(e) + 10) \in {0, 1}
<1>1. e.outstanding \in Nat /\ e.firstBit \in BOOLEAN /\ Len(e.out) \in Nat
  BY DEF Coder
<1>2. Place(e) \in Nat
  BY <1>1 DEF Place
<1>3. Nine(Place(e)) \in 0 .. 511
  BY <1>2, NineStep
<1>4. Undecided(e) \in {0, 1}
  BY <1>1, BitTyped DEF Undecided
<1>5. bitAt(Place(e) + 1) \in {0, 1} /\ bitAt(Place(e) + 10) \in {0, 1}
  BY <1>2, BitTyped
<1> QED
  BY <1>2, <1>3, <1>4, <1>5 DEF Value

\* One more bit is decided or held back: the register has twice the value, less what went out.
LEMMA SettleIs ==
    ASSUME NEW e \in Coder, BitsTyped, e.low < 2048, e.firstBit => e.low < 1024
    PROVE  /\ Settle(e) \in Coder /\ Settle(e).rng = e.rng /\ Place(Settle(e)) = Place(e) + 1
           /\ \/ e.low < 512 /\ Settle(e).low = e.low
              \/ e.low >= 1024 /\ Settle(e).low = e.low - 1024 /\ ~e.firstBit
              \/ e.low \in 512 .. 1023 /\ Settle(e).low = e.low - 512
           /\ e.low >= 512 /\ Settle(e).firstBit => e.firstBit /\ e.low < 1024
           /\ e.low < 512 => ~Settle(e).firstBit
           /\ Held(Settle(e)) => Held(e) /\ Value(Settle(e)) - Settle(e).low = 2 * Value(e) + bitAt(Place(e) + 10) - e.low
<1> DEFINE n == Place(e)
<1>0. e = [low |-> e.low, rng |-> e.rng, outstanding |-> e.outstanding, firstBit |-> e.firstBit, out |-> e.out]
      /\ e.out \in Seq({0, 1})
  BY DEF Coder
<1>1. e.low \in Nat /\ e.rng \in Nat /\ e.outstanding \in Nat /\ e.firstBit \in BOOLEAN
  BY DEF Coder
<1>2. /\ n \in Nat /\ Nine(n) \in 0 .. 511 /\ Undecided(e) \in {0, 1}
      /\ bitAt(n + 1) \in {0, 1} /\ bitAt(n + 10) \in {0, 1}
  BY PlaceIs
<1>3. Nine(n + 1) \in 0 .. 511 /\ Nine(n + 1) + 512 * bitAt(n + 1) = 2 * Nine(n) + bitAt(n + 10)
  BY <1>2, NineStep
<1>4. ASSUME NEW f, NEW v \in {0, 1}, f \in Coder,
             f = [low |-> e.low - 1024 * v, rng |-> e.rng, outstanding |-> e.outstanding, firstBit |-> e.firstBit, out |-> e.out],
             e.firstBit => v = 0, Settle(e) = putBit(f, v)
      PROVE  /\ Settle(e) \in Coder /\ Settle(e).rng = e.rng /\ Place(Settle(e)) = n + 1 /\ Settle(e).low = e.low - 1024 * v
             /\ ~Settle(e).firstBit
             /\ Held(Settle(e)) => Held(e) /\ Value(Settle(e)) - Settle(e).low = 2 * Value(e) + bitAt(n + 10) - e.low
  <2> DEFINE g == putBit(f, v)
  <2>0. /\ f.low = e.low - 1024 * v /\ f.rng = e.rng /\ f.outstanding = e.outstanding
        /\ f.firstBit = e.firstBit /\ f.out = e.out
    BY <1>4
  <2>1. Place(f) = n /\ Undecided(f) = Undecided(e)
    BY <2>0 DEF Place, Undecided
  <2>2. Held(f) => Held(e)
    BY <2>0, <2>1 DEF Held
  <2>3. f.firstBit => v = 0
    BY <1>4, <2>0
  <2>4. /\ g \in Coder /\ g.low = f.low /\ g.rng = f.rng /\ g.outstanding = 0 /\ g.firstBit = FALSE /\ Len(g.out) = Place(f)
        /\ Prefix(g.out) /\ (f.firstBit => v = 0) => Held(f) /\ Undecided(f) = v
    <3>1. f \in Coder
      BY <1>4
    <3> QED
      BY ONLY <3>1, PutIs, BitsTyped, v \in {0, 1}
  <2> HIDE DEF g
  <2>5. Place(g) = n + 1
    BY <2>1, <2>4, <1>2 DEF Place
  <2>6. ASSUME Held(g) PROVE Held(e) /\ Value(g) - g.low = 2 * Value(e) + bitAt(n + 10) - e.low
    <3>1. Held(e) /\ Undecided(e) = v
      BY <2>6, <2>1, <2>2, <2>3, <2>4 DEF Held
    <3>2. Undecided(g) = bitAt(n + 1)
      BY <2>1, <2>4 DEF Undecided
    <3>3. Value(g) = 512 * bitAt(n + 1) + Nine(n + 1)
      BY <2>5, <3>2 DEF Value
    <3>4. Value(e) = 512 * v + Nine(n)
      BY <3>1 DEF Value
    <3>5. g.low = e.low - 1024 * v
      BY <2>0, <2>4
    <3>6. Value(g) - g.low = 2 * Value(e) + bitAt(n + 10) - e.low
      <4>1. e.low \in Int /\ v \in Int /\ Nine(n) \in Int /\ Nine(n + 1) \in Int /\ bitAt(n + 1) \in Int /\ bitAt(n + 10) \in Int
        BY <1>1, <1>2, <1>3
      <4> HIDE DEF n
      <4> QED
        BY <4>1, <3>3, <3>4, <3>5, <1>3
    <3> QED
      BY <3>1, <3>6
  <2> QED
    BY <2>0, <1>4, <2>4, <2>5, <2>6 DEF g
<1>5. CASE e.low >= 1024
  <2> DEFINE f == Interval(e, e.low - 1024, e.rng)
  <2>1. e.low - 1024 \in Nat
    BY <1>1, <1>5
  <2>2. f \in Coder
    BY <1>0, <1>1, <2>1 DEF Interval, Coder
  <2>4. Settle(e) = putBit(f, 1)
    BY <1>1, <1>5 DEF Settle
  <2>5. ~e.firstBit
    BY <1>1, <1>5
  <2>6. f = [low |-> e.low - 1024 * 1, rng |-> e.rng, outstanding |-> e.outstanding, firstBit |-> e.firstBit, out |-> e.out]
    BY DEF Interval
  <2> HIDE DEF f
  <2>7. /\ Settle(e) \in Coder /\ Settle(e).rng = e.rng /\ Place(Settle(e)) = n + 1 /\ Settle(e).low = e.low - 1024 * 1
        /\ ~Settle(e).firstBit
        /\ Held(Settle(e)) => Held(e) /\ Value(Settle(e)) - Settle(e).low = 2 * Value(e) + bitAt(n + 10) - e.low
    BY <2>2, <2>4, <2>5, <2>6, <1>4
  <2> QED
    BY <2>5, <2>7, <1>1, <1>5
<1>6. CASE e.low < 512
  <2>1. Settle(e) = putBit(e, 0)
    BY <1>6, <1>1 DEF Settle
  <2>2. e = [low |-> e.low - 1024 * 0, rng |-> e.rng, outstanding |-> e.outstanding, firstBit |-> e.firstBit, out |-> e.out]
    BY <1>0, <1>1
  <2>3. /\ Settle(e) \in Coder /\ Settle(e).rng = e.rng /\ Place(Settle(e)) = n + 1 /\ Settle(e).low = e.low - 1024 * 0
        /\ ~Settle(e).firstBit
        /\ Held(Settle(e)) => Held(e) /\ Value(Settle(e)) - Settle(e).low = 2 * Value(e) + bitAt(n + 10) - e.low
    BY <2>1, <2>2, <1>4
  <2> QED
    BY <2>3, <1>1, <1>6
<1>7. CASE e.low \in 512 .. 1023
  <2> DEFINE g == [low |-> e.low - 512, rng |-> e.rng, outstanding |-> e.outstanding + 1, firstBit |-> e.firstBit, out |-> e.out]
  <2>0. ~(e.low < 512) /\ ~(e.low >= 1024) /\ e.low >= 512 /\ e.low < 1024
    BY <1>1, <1>7
  <2>1. Settle(e) = g
    <3>1. Settle(e) = HoldBack(Interval(e, e.low - 512, e.rng))
      BY <2>0 DEF Settle
    <3> QED
      BY <3>1 DEF HoldBack, Interval
  <2>2. g \in Coder
    <3>1. e.low - 512 \in Nat /\ e.outstanding + 1 \in Nat
      BY <1>1, <1>7
    <3> QED
      BY <3>1, <1>0, <1>1 DEF Coder
  <2>3. /\ g.rng = e.rng /\ g.low = e.low - 512 /\ g.outstanding = e.outstanding + 1
        /\ g.firstBit = e.firstBit /\ g.out = e.out
    OBVIOUS
  <2> HIDE DEF g
  <2>4. Place(g) = n + 1
    <3>1. Len(e.out) \in Nat
      BY <1>0
    <3> QED
      BY <2>3, <3>1, <1>1 DEF Place
  <2>5. Undecided(g) = Undecided(e)
    BY <2>3 DEF Undecided
  <2>6. ASSUME Held(g) PROVE Held(e) /\ Value(g) - g.low = 2 * Value(e) + bitAt(n + 10) - e.low
    <3>1. Prefix(e.out) /\ \A j \in 1 .. e.outstanding + 1 : bitAt(Place(g) - g.outstanding + j) = 1 - Undecided(e)
      BY <2>6, <2>3, <2>5 DEF Held
    <3>2. Place(g) - g.outstanding = n - e.outstanding
      BY <2>3, <2>4, <1>1, <1>2
    <3>3. \A j \in 1 .. e.outstanding : bitAt(n - e.outstanding + j) = 1 - Undecided(e)
      BY <3>1, <3>2, <1>1
    <3>4. bitAt(n + 1) = 1 - Undecided(e)
      <4>1. e.outstanding + 1 \in 1 .. e.outstanding + 1 /\ n - e.outstanding + (e.outstanding + 1) = n + 1
        BY <1>1, <1>2
      <4> QED
        BY <4>1, <3>1, <3>2
    <3>5. Held(e)
      BY <3>1, <3>3 DEF Held
    <3>6. Value(g) = 512 * Undecided(e) + Nine(n + 1) /\ Value(e) = 512 * Undecided(e) + Nine(n)
      BY <2>4, <2>5 DEF Value
    <3>7. Value(g) - g.low = 2 * Value(e) + bitAt(n + 10) - e.low
      <4>1. e.low \in Int /\ Undecided(e) \in Int /\ Nine(n) \in Int /\ Nine(n + 1) \in Int /\ bitAt(n + 1) \in Int /\ bitAt(n + 10) \in Int
        BY <1>1, <1>2, <1>3
      <4>2. g.low = e.low - 512
        BY <2>3
      <4> HIDE DEF n
      <4> QED
        BY <4>1, <4>2, <3>4, <3>6, <1>3
    <3> QED
      BY <3>5, <3>7
  <2>8. Settle(e).firstBit = e.firstBit
    BY <2>1, <2>3
  <2> QED
    BY <2>1, <2>2, <2>3, <2>4, <2>6, <2>0, <2>8, <1>7
<1>8. e.low < 512 \/ e.low >= 1024 \/ e.low \in 512 .. 1023
  BY <1>1
<1> QED
  BY <1>5, <1>6, <1>7, <1>8
--------------------------------------------------------------------------------
\* The encoder's interval, between the calls and while a call narrows it.

Between(e, least) ==
    /\ e \in Coder /\ e.rng \in least .. 510 /\ e.low + e.rng <= 1024
    /\ e.firstBit => e.low + e.rng <= 512

LEMMA BetweenIs ==
    ASSUME NEW least \in Nat, NEW e, Between(e, least)
    PROVE  /\ e \in Coder /\ e.low \in Nat /\ e.rng \in Nat /\ e.firstBit \in BOOLEAN
           /\ e.rng >= least /\ e.rng <= 510 /\ e.low + e.rng <= 1024 /\ (e.firstBit => e.low + e.rng <= 512)
<1>1. e \in Coder /\ e.rng \in least .. 510 /\ e.low + e.rng <= 1024 /\ (e.firstBit => e.low + e.rng <= 512)
  BY DEF Between
<1>2. e.low \in Nat /\ e.rng \in Nat /\ e.firstBit \in BOOLEAN
  BY <1>1 DEF Coder
<1> QED
  BY <1>1, <1>2

LEMMA IntervalIs ==
    ASSUME NEW e \in Coder, NEW low \in Nat, NEW rng \in Nat
    PROVE  /\ Interval(e, low, rng) \in Coder /\ Interval(e, low, rng).low = low /\ Interval(e, low, rng).rng = rng
           /\ Interval(e, low, rng).firstBit = e.firstBit /\ Place(Interval(e, low, rng)) = Place(e)
           /\ Value(Interval(e, low, rng)) = Value(e) /\ (Held(Interval(e, low, rng)) <=> Held(e))
<1> DEFINE f == Interval(e, low, rng)
<1>1. /\ f.low = low /\ f.rng = rng /\ f.outstanding = e.outstanding /\ f.firstBit = e.firstBit /\ f.out = e.out
  BY DEF Interval
<1>2. f \in Coder
  BY DEF Interval, Coder
<1> HIDE DEF f
<1>3. Place(f) = Place(e) /\ Undecided(f) = Undecided(e)
  BY <1>1 DEF Place, Undecided
<1>4. Value(f) = Value(e)
  BY <1>3 DEF Value
<1>5. Held(f) <=> Held(e)
  BY <1>1, <1>3 DEF Held
<1> QED
  BY <1>1, <1>2, <1>3, <1>4, <1>5 DEF f

LEMMA TwicePut ==
    ASSUME NEW e, NEW low \in Int, NEW rng \in Int, NEW v
    PROVE  Twice(putBit(Interval(e, low, rng), v)) = putBit(Interval(e, 2 * low, 2 * rng), v)
<1> DEFINE out == e.out \o (IF e.firstBit THEN <<>> ELSE <<v>>) \o [i \in 1 .. e.outstanding |-> 1 - v]
<1>1. putBit(Interval(e, low, rng), v) = [low |-> low, rng |-> rng, outstanding |-> 0, firstBit |-> FALSE, out |-> out]
  BY DEF putBit, Interval
<1>2. putBit(Interval(e, 2 * low, 2 * rng), v)
      = [low |-> 2 * low, rng |-> 2 * rng, outstanding |-> 0, firstBit |-> FALSE, out |-> out]
  BY DEF putBit, Interval
<1> DEFINE p == putBit(Interval(e, low, rng), v)
<1> HIDE DEF out
<1>3. p.low = low /\ p.rng = rng /\ p.outstanding = 0 /\ p.firstBit = FALSE /\ p.out = out
  BY <1>1
<1> HIDE DEF p
<1>4. Twice(p) = [low |-> 2 * low, rng |-> 2 * rng, outstanding |-> 0, firstBit |-> FALSE, out |-> out]
  BY <1>3 DEF Twice, Interval
<1> QED
  BY <1>2, <1>4 DEF p

\* renorm's switch before it shifts is encodeBypass's after it.
LEMMA EmittedIs ==
    ASSUME NEW e \in Coder
    PROVE  Twice(Emitted(e)) = Settle(Interval(e, 2 * e.low, 2 * e.rng))
<1> DEFINE f == Interval(e, 2 * e.low, 2 * e.rng)
<1>1. e.low \in Nat /\ e.rng \in Nat
  BY DEF Coder
<1>2. f.low = 2 * e.low /\ f.rng = 2 * e.rng /\ f.outstanding = e.outstanding /\ f.firstBit = e.firstBit /\ f.out = e.out
  BY DEF Interval
<1>3. CASE e.low < 256
  <2>1. Emitted(e) = putBit(e, 0)
    BY <1>1, <1>3 DEF Emitted
  <2>2. Settle(f) = putBit(f, 0)
    <3>1. f.low < 512 /\ ~(f.low >= 1024)
      BY <1>1, <1>2, <1>3
    <3> QED
      BY <3>1 DEF Settle
  <2>3. Twice(putBit(e, 0)) = putBit(f, 0)
    BY DEF Twice, putBit, Interval
  <2> QED
    BY <2>1, <2>2, <2>3
<1>4. CASE e.low >= 512
  <2>1. Emitted(e) = putBit(Interval(e, e.low - 512, e.rng), 1)
    BY <1>1, <1>4 DEF Emitted
  <2>2. Settle(f) = putBit(Interval(f, f.low - 1024, f.rng), 1)
    <3>1. f.low >= 1024 /\ ~(f.low < 512)
      BY <1>1, <1>2, <1>4
    <3> QED
      BY <3>1 DEF Settle
  <2>3. 2 * (e.low - 512) = f.low - 1024
    BY <1>1, <1>2
  <2>4. Twice(putBit(Interval(e, e.low - 512, e.rng), 1)) = putBit(Interval(e, 2 * (e.low - 512), 2 * e.rng), 1)
    BY <1>1, TwicePut
  <2>5. Interval(e, 2 * (e.low - 512), 2 * e.rng) = Interval(f, f.low - 1024, f.rng)
    BY <1>2, <2>3 DEF Interval
  <2> QED
    BY <2>1, <2>2, <2>4, <2>5
<1>5. CASE ~(e.low < 256) /\ ~(e.low >= 512)
  <2>1. Emitted(e) = HoldBack(Interval(e, e.low - 256, e.rng))
    BY <1>1, <1>5 DEF Emitted
  <2>2. Settle(f) = HoldBack(Interval(f, f.low - 512, f.rng))
    <3>1. ~(f.low >= 1024) /\ ~(f.low < 512)
      BY <1>1, <1>2, <1>5
    <3> QED
      BY <3>1 DEF Settle
  <2>3. 2 * (e.low - 256) = f.low - 512
    BY <1>1, <1>2
  <2>4. Twice(HoldBack(Interval(e, e.low - 256, e.rng))) = HoldBack(Interval(f, f.low - 512, f.rng))
    BY <2>3 DEF Twice, HoldBack, Interval
  <2> QED
    BY <2>1, <2>2, <2>4
<1> QED
  BY <1>3, <1>4, <1>5 DEF f

\* One step of renorm doubles the interval and takes the next bit into Value.
LEMMA WidenedIs ==
    ASSUME NEW least \in Nat, least > 0, NEW e, Between(e, least), e.rng < 256, BitsTyped
    PROVE  /\ Between(Widened(e), 2 * least) /\ Widened(e).rng = 2 * e.rng /\ Place(Widened(e)) = Place(e) + 1
           /\ Widened(e).low \in {2 * e.low, 2 * e.low - 512, 2 * e.low - 1024}
           /\ Held(Widened(e)) => /\ Held(e)
                                  /\ Value(Widened(e)) - Widened(e).low = 2 * (Value(e) - e.low) + bitAt(Place(e) + 10)
           /\ Fits(Widened(e)) => Fits(e)
<1> DEFINE f == Interval(e, 2 * e.low, 2 * e.rng)
           g == Settle(f)
<1>1. /\ e \in Coder /\ e.low \in Nat /\ e.rng \in Nat /\ e.firstBit \in BOOLEAN
      /\ e.rng >= least /\ e.rng <= 510 /\ e.low + e.rng <= 1024 /\ (e.firstBit => e.low + e.rng <= 512)
  BY BetweenIs
<1>2. Widened(e) = g
  BY <1>1, EmittedIs DEF Widened
<1>3. /\ f \in Coder /\ f.low = 2 * e.low /\ f.rng = 2 * e.rng /\ f.firstBit = e.firstBit
      /\ Place(f) = Place(e) /\ Value(f) = Value(e) /\ (Held(f) <=> Held(e))
  <2>1. 2 * e.low \in Nat /\ 2 * e.rng \in Nat
    BY <1>1
  <2>2. e \in Coder
    BY <1>1
  <2> QED
    BY ONLY <2>1, <2>2, IntervalIs
<1> HIDE DEF f
<1>4. f.low < 2048 /\ (f.firstBit => f.low < 1024)
  BY <1>1, <1>3
<1>5. /\ g \in Coder /\ g.rng = f.rng /\ Place(g) = Place(f) + 1
      /\ \/ f.low < 512 /\ g.low = f.low
         \/ f.low >= 1024 /\ g.low = f.low - 1024 /\ ~f.firstBit
         \/ f.low \in 512 .. 1023 /\ g.low = f.low - 512
      /\ f.low >= 512 /\ g.firstBit => f.firstBit /\ f.low < 1024
      /\ f.low < 512 => ~g.firstBit
      /\ Held(g) => Held(f) /\ Value(g) - g.low = 2 * Value(f) + bitAt(Place(f) + 10) - f.low
  BY <1>3, <1>4, SettleIs
<1> HIDE DEF g
<1>6. g.low + g.rng <= 1024
  BY <1>1, <1>3, <1>5
<1>7. g.firstBit => g.low + g.rng <= 512
  BY <1>1, <1>3, <1>5
<1>8. g.rng \in 2 * least .. 510
  BY <1>1, <1>3, <1>5
<1>9. Between(g, 2 * least)
  BY <1>5, <1>6, <1>7, <1>8 DEF Between
<1>10. g.low \in {2 * e.low, 2 * e.low - 512, 2 * e.low - 1024}
  BY <1>1, <1>3, <1>5
<1>11. Value(e) \in Int /\ bitAt(Place(e) + 10) \in {0, 1} /\ Value(g) \in Int /\ g.low \in Int
  BY <1>1, <1>5, <1>10, PlaceIs
<1>12. Held(g) => Held(e) /\ Value(g) - g.low = 2 * (Value(e) - e.low) + bitAt(Place(e) + 10)
  <2>1. 2 * Value(e) + bitAt(Place(e) + 10) - 2 * e.low = 2 * (Value(e) - e.low) + bitAt(Place(e) + 10)
    BY <1>1, <1>11
  <2> QED
    BY <2>1, <1>3, <1>5
<1>13. ASSUME Fits(g) PROVE Fits(e)
  <2>1. Held(g) /\ Value(g) - g.low >= 0 /\ Value(g) - g.low <= g.rng - 1
    BY <1>13, <1>5, <1>8, <1>11 DEF Fits
  <2>2. Value(e) - e.low >= 0 /\ Value(e) - e.low <= e.rng - 1
    <3>1. Value(e) - e.low \in Int
      BY <1>1, <1>11
    <3>2. g.rng = 2 * e.rng
      BY <1>3, <1>5
    <3> QED
      BY <2>1, <3>1, <3>2, <1>1, <1>11, <1>12
  <2>3. Held(e)
    BY <2>1, <1>12
  <2>4. Value(e) - e.low \in 0 .. e.rng - 1
    BY <2>2, <1>1, <1>11
  <2> QED
    BY <2>3, <2>4 DEF Fits
<1> QED
  BY <1>2, <1>3, <1>5, <1>9, <1>10, <1>12, <1>13
--------------------------------------------------------------------------------
\* The decoder's window: behind the nine bits of its offset the r bits from m + 1 that
\* it has fetched, then the marker.

Had(m, r, j) == IF j <= r THEN bitAt(m + j) ELSE IF j = r + 1 THEN 1 ELSE 0
Fetch9(m, r) == 256 * Had(m, r, 9) + 128 * Had(m, r, 10) + 64 * Had(m, r, 11) + 32 * Had(m, r, 12) + 16 * Had(m, r, 13)
                + 8 * Had(m, r, 14) + 4 * Had(m, r, 15) + 2 * Had(m, r, 16) + Had(m, r, 17)
Fetch16(m, r) == 32768 * Had(m, r, 2) + 16384 * Had(m, r, 3) + 8192 * Had(m, r, 4) + 4096 * Had(m, r, 5) + 2048 * Had(m, r, 6)
                 + 1024 * Had(m, r, 7) + 512 * Had(m, r, 8) + Fetch9(m, r)
Fetch(m, r) == 65536 * Had(m, r, 1) + Fetch16(m, r)

LEMMA HadIs ==
    ASSUME BitsTyped, NEW m \in Nat, NEW r \in Nat, r <= 16
    PROVE  /\ \A j \in 1 .. 17 : Had(m, r, j) \in Int /\ Had(m, r, j) >= 0 /\ Had(m, r, j) <= 1
           /\ Had(m, r, r + 1) = 1 /\ \A j \in 1 .. 17 : j > r + 1 => Had(m, r, j) = 0
<1>1. ASSUME NEW j \in 1 .. 17 PROVE Had(m, r, j) \in {0, 1}
  <2>1. m + j \in Nat /\ m + j > 0
    OBVIOUS
  <2>2. bitAt(m + j) \in {0, 1}
    BY <2>1, BitTyped
  <2> QED
    BY <2>2 DEF Had
<1>2. Had(m, r, r + 1) = 1
  BY DEF Had
<1>3. ASSUME NEW j \in 1 .. 17, j > r + 1 PROVE Had(m, r, j) = 0
  BY <1>3 DEF Had
<1> QED
  BY <1>1, <1>2, <1>3

LEMMA HadInt ==
    ASSUME BitsTyped, NEW m \in Nat, NEW r \in Nat, r <= 16
    PROVE  /\ Had(m, r, 1) \in Int /\ Had(m, r, 2) \in Int /\ Had(m, r, 3) \in Int /\ Had(m, r, 4) \in Int
           /\ Had(m, r, 5) \in Int /\ Had(m, r, 6) \in Int /\ Had(m, r, 7) \in Int /\ Had(m, r, 8) \in Int
           /\ Had(m, r, 9) \in Int /\ Had(m, r, 10) \in Int /\ Had(m, r, 11) \in Int /\ Had(m, r, 12) \in Int
           /\ Had(m, r, 13) \in Int /\ Had(m, r, 14) \in Int /\ Had(m, r, 15) \in Int /\ Had(m, r, 16) \in Int
           /\ Had(m, r, 17) \in Int
<1>1. \A j \in 1 .. 17 : Had(m, r, j) \in Int
  BY HadIs
<1> QED
  BY <1>1

LEMMA HadLeast ==
    ASSUME BitsTyped, NEW m \in Nat, NEW r \in Nat, r <= 16
    PROVE  /\ Had(m, r, 1) >= 0 /\ Had(m, r, 2) >= 0 /\ Had(m, r, 3) >= 0 /\ Had(m, r, 4) >= 0
           /\ Had(m, r, 5) >= 0 /\ Had(m, r, 6) >= 0 /\ Had(m, r, 7) >= 0 /\ Had(m, r, 8) >= 0
           /\ Had(m, r, 9) >= 0 /\ Had(m, r, 10) >= 0 /\ Had(m, r, 11) >= 0 /\ Had(m, r, 12) >= 0
           /\ Had(m, r, 13) >= 0 /\ Had(m, r, 14) >= 0 /\ Had(m, r, 15) >= 0 /\ Had(m, r, 16) >= 0
           /\ Had(m, r, 17) >= 0
<1>1. \A j \in 1 .. 17 : Had(m, r, j) >= 0
  BY HadIs
<1> QED
  BY <1>1

LEMMA HadMost ==
    ASSUME BitsTyped, NEW m \in Nat, NEW r \in Nat, r <= 16
    PROVE  /\ Had(m, r, 1) <= 1 /\ Had(m, r, 2) <= 1 /\ Had(m, r, 3) <= 1 /\ Had(m, r, 4) <= 1
           /\ Had(m, r, 5) <= 1 /\ Had(m, r, 6) <= 1 /\ Had(m, r, 7) <= 1 /\ Had(m, r, 8) <= 1
           /\ Had(m, r, 9) <= 1 /\ Had(m, r, 10) <= 1 /\ Had(m, r, 11) <= 1 /\ Had(m, r, 12) <= 1
           /\ Had(m, r, 13) <= 1 /\ Had(m, r, 14) <= 1 /\ Had(m, r, 15) <= 1 /\ Had(m, r, 16) <= 1
           /\ Had(m, r, 17) <= 1
<1>1. \A j \in 1 .. 17 : Had(m, r, j) <= 1
  BY HadIs
<1> QED
  BY <1>1

\* Two times the window: one bit of it joins the offset.
LEMMA FetchDoubled ==
    ASSUME BitsTyped, NEW m \in Nat, NEW r \in Nat, r >= 1, r <= 16
    PROVE  2 * Fetch(m, r) = 131072 * bitAt(m + 1) + Fetch(m + 1, r - 1)
<1>1. m + 1 \in Nat /\ r - 1 \in Nat /\ r - 1 <= 16
  OBVIOUS
<1>2. ASSUME NEW j \in 1 .. 16 PROVE Had(m, r, j + 1) = Had(m + 1, r - 1, j)
  <2>1. m + (j + 1) = (m + 1) + j /\ (j + 1 <= r <=> j <= r - 1) /\ (j + 1 = r + 1 <=> j = (r - 1) + 1)
    OBVIOUS
  <2> QED
    BY <2>1 DEF Had
<1>3. Had(m + 1, r - 1, 17) = 0
  <2>1. 17 \in 1 .. 17 /\ 17 > (r - 1) + 1
    OBVIOUS
  <2> QED
    BY <1>1, <2>1, HadIs
<1>4. Had(m, r, 1) = bitAt(m + 1)
  BY DEF Had
<1>5. /\ Had(m + 1, r - 1, 1) = Had(m, r, 2) /\ Had(m + 1, r - 1, 2) = Had(m, r, 3) /\ Had(m + 1, r - 1, 3) = Had(m, r, 4)
      /\ Had(m + 1, r - 1, 4) = Had(m, r, 5) /\ Had(m + 1, r - 1, 5) = Had(m, r, 6) /\ Had(m + 1, r - 1, 6) = Had(m, r, 7)
      /\ Had(m + 1, r - 1, 7) = Had(m, r, 8) /\ Had(m + 1, r - 1, 8) = Had(m, r, 9) /\ Had(m + 1, r - 1, 9) = Had(m, r, 10)
      /\ Had(m + 1, r - 1, 10) = Had(m, r, 11) /\ Had(m + 1, r - 1, 11) = Had(m, r, 12) /\ Had(m + 1, r - 1, 12) = Had(m, r, 13)
      /\ Had(m + 1, r - 1, 13) = Had(m, r, 14) /\ Had(m + 1, r - 1, 14) = Had(m, r, 15) /\ Had(m + 1, r - 1, 15) = Had(m, r, 16)
      /\ Had(m + 1, r - 1, 16) = Had(m, r, 17)
  BY <1>2
<1>6. /\ Had(m, r, 1) \in Int /\ Had(m, r, 2) \in Int /\ Had(m, r, 3) \in Int /\ Had(m, r, 4) \in Int
      /\ Had(m, r, 5) \in Int /\ Had(m, r, 6) \in Int /\ Had(m, r, 7) \in Int /\ Had(m, r, 8) \in Int
      /\ Had(m, r, 9) \in Int /\ Had(m, r, 10) \in Int /\ Had(m, r, 11) \in Int /\ Had(m, r, 12) \in Int
      /\ Had(m, r, 13) \in Int /\ Had(m, r, 14) \in Int /\ Had(m, r, 15) \in Int /\ Had(m, r, 16) \in Int
      /\ Had(m, r, 17) \in Int
  BY <1>1, HadInt
<1>7. 2 * Fetch9(m, r) = 512 * Had(m, r, 9) + Fetch9(m + 1, r - 1)
  BY <1>3, <1>5, <1>6 DEF Fetch9
<1>8. Fetch9(m, r) \in Int /\ Fetch9(m + 1, r - 1) \in Int
  BY <1>3, <1>5, <1>6 DEF Fetch9
<1>9. 2 * Fetch16(m, r) = 65536 * Had(m, r, 2) + Fetch16(m + 1, r - 1)
  BY <1>5, <1>6, <1>7, <1>8 DEF Fetch16
<1>10. Fetch16(m, r) \in Int /\ Fetch16(m + 1, r - 1) \in Int
  BY <1>5, <1>6, <1>8 DEF Fetch16
<1> QED
  BY <1>4, <1>5, <1>6, <1>9, <1>10 DEF Fetch

LEMMA Fetch9Is ==
    ASSUME BitsTyped, NEW m \in Nat, NEW r \in Nat, r <= 16
    PROVE  Fetch9(m, r) \in Int /\ Fetch9(m, r) >= 0 /\ Fetch9(m, r) <= 511 /\ (r >= 8 <=> Fetch9(m, r) > 0)
<1>1. /\ Had(m, r, 9) \in Int /\ Had(m, r, 10) \in Int /\ Had(m, r, 11) \in Int /\ Had(m, r, 12) \in Int
      /\ Had(m, r, 13) \in Int /\ Had(m, r, 14) \in Int /\ Had(m, r, 15) \in Int /\ Had(m, r, 16) \in Int
      /\ Had(m, r, 17) \in Int
  BY HadInt
<1>2. /\ Had(m, r, 9) >= 0 /\ Had(m, r, 10) >= 0 /\ Had(m, r, 11) >= 0 /\ Had(m, r, 12) >= 0
      /\ Had(m, r, 13) >= 0 /\ Had(m, r, 14) >= 0 /\ Had(m, r, 15) >= 0 /\ Had(m, r, 16) >= 0
      /\ Had(m, r, 17) >= 0
  BY HadLeast
<1>3. /\ Had(m, r, 9) <= 1 /\ Had(m, r, 10) <= 1 /\ Had(m, r, 11) <= 1 /\ Had(m, r, 12) <= 1
      /\ Had(m, r, 13) <= 1 /\ Had(m, r, 14) <= 1 /\ Had(m, r, 15) <= 1 /\ Had(m, r, 16) <= 1
      /\ Had(m, r, 17) <= 1
  BY HadMost
<1>4. Fetch9(m, r) \in Int /\ Fetch9(m, r) >= 0 /\ Fetch9(m, r) <= 511
  BY <1>1, <1>2, <1>3 DEF Fetch9
<1>5. Had(m, r, r + 1) = 1 /\ \A j \in 1 .. 17 : j > r + 1 => Had(m, r, j) = 0
  BY HadIs
<1>6. CASE r < 8
  <2>1. /\ Had(m, r, 9) = 0 /\ Had(m, r, 10) = 0 /\ Had(m, r, 11) = 0 /\ Had(m, r, 12) = 0
        /\ Had(m, r, 13) = 0 /\ Had(m, r, 14) = 0 /\ Had(m, r, 15) = 0 /\ Had(m, r, 16) = 0
        /\ Had(m, r, 17) = 0
    BY <1>5, <1>6
  <2>2. Fetch9(m, r) = 0
    BY <2>1 DEF Fetch9
  <2> QED
    BY <1>6, <2>2
<1>7. CASE r >= 8
  <2>1. \/ Had(m, r, 9) = 1 \/ Had(m, r, 10) = 1 \/ Had(m, r, 11) = 1 \/ Had(m, r, 12) = 1
        \/ Had(m, r, 13) = 1 \/ Had(m, r, 14) = 1 \/ Had(m, r, 15) = 1 \/ Had(m, r, 16) = 1
        \/ Had(m, r, 17) = 1
    <3>1. r \in 8 .. 16
      BY <1>7
    <3> QED
      BY <3>1, <1>5
  <2>2. Fetch9(m, r) > 0
    BY <2>1, <1>1, <1>2 DEF Fetch9
  <2> QED
    BY <1>4, <1>7, <2>2
<1> QED
  BY <1>4, <1>6, <1>7

\* Its last bit is the marker as long as no bit has been shifted out.
LEMMA Fetch9Last ==
    ASSUME BitsTyped, NEW m \in Nat, NEW r \in Nat, r <= 16
    PROVE  \E q \in Int : Fetch9(m, r) = 2 * q + Had(m, r, 17)
<1> DEFINE q == 128 * Had(m, r, 9) + 64 * Had(m, r, 10) + 32 * Had(m, r, 11) + 16 * Had(m, r, 12) + 8 * Had(m, r, 13)
                + 4 * Had(m, r, 14) + 2 * Had(m, r, 15) + Had(m, r, 16)
<1>1. /\ Had(m, r, 9) \in Int /\ Had(m, r, 10) \in Int /\ Had(m, r, 11) \in Int /\ Had(m, r, 12) \in Int
      /\ Had(m, r, 13) \in Int /\ Had(m, r, 14) \in Int /\ Had(m, r, 15) \in Int /\ Had(m, r, 16) \in Int
      /\ Had(m, r, 17) \in Int
  BY HadInt
<1>2. q \in Int
  BY <1>1
<1>3. Fetch9(m, r) = 2 * q + Had(m, r, 17)
  BY <1>1 DEF Fetch9
<1> HIDE DEF q
<1> QED
  BY <1>2, <1>3

LEMMA FetchRest ==
    ASSUME BitsTyped, NEW m \in Nat, NEW r \in Nat, r <= 16
    PROVE  \E q \in Int : Fetch(m, r) = 512 * q + Fetch9(m, r)
<1> DEFINE q == 128 * Had(m, r, 1) + 64 * Had(m, r, 2) + 32 * Had(m, r, 3) + 16 * Had(m, r, 4) + 8 * Had(m, r, 5)
                + 4 * Had(m, r, 6) + 2 * Had(m, r, 7) + Had(m, r, 8)
<1>1. /\ Had(m, r, 1) \in Int /\ Had(m, r, 2) \in Int /\ Had(m, r, 3) \in Int /\ Had(m, r, 4) \in Int
      /\ Had(m, r, 5) \in Int /\ Had(m, r, 6) \in Int /\ Had(m, r, 7) \in Int /\ Had(m, r, 8) \in Int
  BY HadInt
<1>2. Fetch9(m, r) \in Int
  BY Fetch9Is
<1>3. q \in Int
  BY <1>1
<1>4. Fetch(m, r) = 512 * q + Fetch9(m, r)
  BY <1>1, <1>2 DEF Fetch, Fetch16
<1> HIDE DEF q
<1> QED
  BY <1>3, <1>4

LEMMA FetchIs ==
    ASSUME BitsTyped, NEW m \in Nat, NEW r \in Nat, r <= 16
    PROVE  /\ Fetch(m, r) \in Int /\ Fetch(m, r) >= 1 /\ Fetch(m, r) <= 131071 /\ (r = 0 => Fetch(m, r) = 65536)
           /\ Fetch16(m, r) \in Int /\ Fetch16(m, r) >= 0 /\ Fetch16(m, r) <= 65535 /\ (Fetch16(m, r) = 0 <=> r = 0)
<1>1. /\ Had(m, r, 1) \in Int /\ Had(m, r, 2) \in Int /\ Had(m, r, 3) \in Int /\ Had(m, r, 4) \in Int
      /\ Had(m, r, 5) \in Int /\ Had(m, r, 6) \in Int /\ Had(m, r, 7) \in Int /\ Had(m, r, 8) \in Int
  BY HadInt
<1>2. /\ Had(m, r, 1) >= 0 /\ Had(m, r, 2) >= 0 /\ Had(m, r, 3) >= 0 /\ Had(m, r, 4) >= 0
      /\ Had(m, r, 5) >= 0 /\ Had(m, r, 6) >= 0 /\ Had(m, r, 7) >= 0 /\ Had(m, r, 8) >= 0
  BY HadLeast
<1>3. /\ Had(m, r, 1) <= 1 /\ Had(m, r, 2) <= 1 /\ Had(m, r, 3) <= 1 /\ Had(m, r, 4) <= 1
      /\ Had(m, r, 5) <= 1 /\ Had(m, r, 6) <= 1 /\ Had(m, r, 7) <= 1 /\ Had(m, r, 8) <= 1
  BY HadMost
<1>4. Fetch9(m, r) \in Int /\ Fetch9(m, r) >= 0 /\ Fetch9(m, r) <= 511 /\ (r >= 8 <=> Fetch9(m, r) > 0)
  BY Fetch9Is
<1>5. Had(m, r, r + 1) = 1 /\ \A j \in 1 .. 17 : j > r + 1 => Had(m, r, j) = 0
  BY HadIs
<1>6. Fetch16(m, r) \in Int /\ Fetch16(m, r) >= 0 /\ Fetch16(m, r) <= 65535
  BY <1>1, <1>2, <1>3, <1>4 DEF Fetch16
<1>7. r = 0 => Fetch16(m, r) = 0 /\ Fetch(m, r) = 65536
  <2> SUFFICES ASSUME r = 0 PROVE Fetch16(m, r) = 0 /\ Fetch(m, r) = 65536
    OBVIOUS
  <2>1. /\ Had(m, r, 2) = 0 /\ Had(m, r, 3) = 0 /\ Had(m, r, 4) = 0 /\ Had(m, r, 5) = 0
        /\ Had(m, r, 6) = 0 /\ Had(m, r, 7) = 0 /\ Had(m, r, 8) = 0 /\ Had(m, r, 1) = 1
    BY <1>5
  <2>2. Fetch9(m, r) = 0
    BY <1>4
  <2>3. Fetch16(m, r) = 0
    BY <2>1, <2>2 DEF Fetch16
  <2> QED
    BY <2>1, <2>3 DEF Fetch
<1>8. r > 0 => Fetch16(m, r) > 0
  <2> SUFFICES ASSUME r > 0 PROVE Fetch16(m, r) > 0
    OBVIOUS
  <2>1. r >= 8 => Fetch16(m, r) > 0
    BY <1>1, <1>2, <1>4 DEF Fetch16
  <2>2. CASE r < 8
    <3>1. \/ Had(m, r, 2) = 1 \/ Had(m, r, 3) = 1 \/ Had(m, r, 4) = 1 \/ Had(m, r, 5) = 1
          \/ Had(m, r, 6) = 1 \/ Had(m, r, 7) = 1 \/ Had(m, r, 8) = 1
      <4>1. r \in 1 .. 7
        BY <2>2
      <4> QED
        BY <4>1, <1>5
    <3>2. /\ Fetch16(m, r) >= Had(m, r, 2) /\ Fetch16(m, r) >= Had(m, r, 3) /\ Fetch16(m, r) >= Had(m, r, 4)
          /\ Fetch16(m, r) >= Had(m, r, 5) /\ Fetch16(m, r) >= Had(m, r, 6) /\ Fetch16(m, r) >= Had(m, r, 7)
          /\ Fetch16(m, r) >= Had(m, r, 8)
      BY <1>1, <1>2, <1>4 DEF Fetch16
    <3> QED
      BY <3>1, <3>2, <1>6
  <2> QED
    BY <2>1, <2>2
<1>9. (Fetch16(m, r) = 0 <=> r = 0) /\ (r = 0 => Fetch(m, r) = 65536)
  BY <1>6, <1>7, <1>8
<1>10. Fetch(m, r) \in Int /\ Fetch(m, r) >= 1 /\ Fetch(m, r) <= 131071
  <2>1. Fetch(m, r) >= 0 /\ Fetch(m, r) <= 131071 /\ (Fetch16(m, r) > 0 => Fetch(m, r) >= 1) /\ Fetch(m, r) \in Int
    BY <1>1, <1>2, <1>3, <1>6 DEF Fetch
  <2>2. Fetch(m, r) >= 1
    BY <2>1, <1>7, <1>8
  <2> QED
    BY <2>1, <2>2
<1> QED
  BY <1>6, <1>9, <1>10

LEMMA FetchInt == ASSUME BitsTyped, NEW m \in Nat, NEW r \in Nat, r <= 16 PROVE Fetch(m, r) \in Int
BY FetchIs

Broken(v) == \E q \in Int, s \in Int : s > 0 /\ s <= 65535 /\ v = 65536 * q + s
LEMMA FetchMod == ASSUME BitsTyped, NEW m \in Nat, NEW r \in Nat, r <= 16, r # 0 PROVE Broken(Fetch(m, r))
<1>1. Fetch16(m, r) \in Int /\ Fetch16(m, r) >= 0 /\ Fetch16(m, r) <= 65535 /\ (Fetch16(m, r) = 0 <=> r = 0)
  BY FetchIs
<1>2. Had(m, r, 1) \in Int
  BY HadInt
<1>3. Fetch(m, r) = 65536 * Had(m, r, 1) + Fetch16(m, r)
  BY DEF Fetch
<1>4. Fetch16(m, r) > 0
  BY <1>1
<1> QED
  BY <1>1, <1>2, <1>3, <1>4 DEF Broken

LEMMA FetchedIs ==
    ASSUME BitsTyped, NEW p \in Nat
    PROVE  Fetched(p) \in Int /\ 65536 + Fetched(p) = Fetch(8 * p, 16)
<1>1. \A j \in 1 .. 16 : bitAt(8 * p + j) \in Int /\ Had(8 * p, 16, j) = bitAt(8 * p + j)
  <2> SUFFICES ASSUME NEW j \in 1 .. 16 PROVE bitAt(8 * p + j) \in Int /\ Had(8 * p, 16, j) = bitAt(8 * p + j)
    OBVIOUS
  <2>1. 8 * p + j \in Nat /\ 8 * p + j > 0
    OBVIOUS
  <2>2. bitAt(8 * p + j) \in {0, 1}
    BY <2>1, BitTyped
  <2> QED
    BY <2>2 DEF Had
<1>2. Had(8 * p, 16, 17) = 1
  BY DEF Had
<1>3. 8 * (p + 1) + 1 = 8 * p + 9 /\ 8 * (p + 1) + 2 = 8 * p + 10 /\ 8 * (p + 1) + 3 = 8 * p + 11 /\ 8 * (p + 1) + 4 = 8 * p + 12
      /\ 8 * (p + 1) + 5 = 8 * p + 13 /\ 8 * (p + 1) + 6 = 8 * p + 14 /\ 8 * (p + 1) + 7 = 8 * p + 15 /\ 8 * (p + 1) + 8 = 8 * p + 16
  OBVIOUS
<1>4. /\ bitAt(8 * p + 1) \in Int /\ bitAt(8 * p + 2) \in Int /\ bitAt(8 * p + 3) \in Int /\ bitAt(8 * p + 4) \in Int
      /\ bitAt(8 * p + 5) \in Int /\ bitAt(8 * p + 6) \in Int /\ bitAt(8 * p + 7) \in Int /\ bitAt(8 * p + 8) \in Int
      /\ bitAt(8 * p + 9) \in Int /\ bitAt(8 * p + 10) \in Int /\ bitAt(8 * p + 11) \in Int /\ bitAt(8 * p + 12) \in Int
      /\ bitAt(8 * p + 13) \in Int /\ bitAt(8 * p + 14) \in Int /\ bitAt(8 * p + 15) \in Int /\ bitAt(8 * p + 16) \in Int
  BY <1>1
<1>5. /\ Had(8 * p, 16, 1) = bitAt(8 * p + 1) /\ Had(8 * p, 16, 2) = bitAt(8 * p + 2) /\ Had(8 * p, 16, 3) = bitAt(8 * p + 3)
      /\ Had(8 * p, 16, 4) = bitAt(8 * p + 4) /\ Had(8 * p, 16, 5) = bitAt(8 * p + 5) /\ Had(8 * p, 16, 6) = bitAt(8 * p + 6)
      /\ Had(8 * p, 16, 7) = bitAt(8 * p + 7) /\ Had(8 * p, 16, 8) = bitAt(8 * p + 8) /\ Had(8 * p, 16, 9) = bitAt(8 * p + 9)
      /\ Had(8 * p, 16, 10) = bitAt(8 * p + 10) /\ Had(8 * p, 16, 11) = bitAt(8 * p + 11) /\ Had(8 * p, 16, 12) = bitAt(8 * p + 12)
      /\ Had(8 * p, 16, 13) = bitAt(8 * p + 13) /\ Had(8 * p, 16, 14) = bitAt(8 * p + 14) /\ Had(8 * p, 16, 15) = bitAt(8 * p + 15)
      /\ Had(8 * p, 16, 16) = bitAt(8 * p + 16)
  BY <1>1
<1>6. byteAt(p + 1) = 128 * bitAt(8 * p + 9) + 64 * bitAt(8 * p + 10) + 32 * bitAt(8 * p + 11) + 16 * bitAt(8 * p + 12)
                      + 8 * bitAt(8 * p + 13) + 4 * bitAt(8 * p + 14) + 2 * bitAt(8 * p + 15) + bitAt(8 * p + 16)
  BY <1>3 DEF byteAt
<1>7. byteAt(p) \in Int /\ byteAt(p + 1) \in Int
  BY <1>4, <1>6 DEF byteAt
<1>8. Fetched(p) = 512 * byteAt(p) + 2 * byteAt(p + 1) - 65535
  BY <1>7 DEF Fetched, Mask, CabacBits
<1>9. Fetch9(8 * p, 16) = 256 * bitAt(8 * p + 9) + 128 * bitAt(8 * p + 10) + 64 * bitAt(8 * p + 11) + 32 * bitAt(8 * p + 12) + 16 * bitAt(8 * p + 13)
                          + 8 * bitAt(8 * p + 14) + 4 * bitAt(8 * p + 15) + 2 * bitAt(8 * p + 16) + 1
  BY <1>2, <1>5 DEF Fetch9
<1>10. Fetch9(8 * p, 16) = 2 * byteAt(p + 1) + 1
  BY <1>4, <1>6, <1>9
<1>11. Fetch(8 * p, 16) = 512 * byteAt(p) + Fetch9(8 * p, 16)
  BY <1>4, <1>5, <1>7, <1>10 DEF Fetch, Fetch16, byteAt
<1> QED
  BY <1>7, <1>8, <1>10, <1>11

\* What the decoder begins with: nine bits, seven more and the marker.
LEMMA InitLow ==
    ASSUME BitsTyped, NEW off \in Nat
    PROVE  init(off).low = 131072 * Nine(8 * off) + Fetch(8 * off + 9, 7)
<1> DEFINE n == 8 * off
<1>1. \A j \in 1 .. 16 : bitAt(n + j) \in Int
  <2> SUFFICES ASSUME NEW j \in 1 .. 16 PROVE bitAt(n + j) \in Int
    OBVIOUS
  <2>1. n + j \in Nat /\ n + j > 0
    OBVIOUS
  <2> QED
    BY <2>1, BitTyped
<1>2. 8 * (off + 1) + 1 = n + 9 /\ 8 * (off + 1) + 2 = n + 10 /\ 8 * (off + 1) + 3 = n + 11 /\ 8 * (off + 1) + 4 = n + 12
      /\ 8 * (off + 1) + 5 = n + 13 /\ 8 * (off + 1) + 6 = n + 14 /\ 8 * (off + 1) + 7 = n + 15 /\ 8 * (off + 1) + 8 = n + 16
  OBVIOUS
<1>3. /\ bitAt(n + 1) \in Int /\ bitAt(n + 2) \in Int /\ bitAt(n + 3) \in Int /\ bitAt(n + 4) \in Int
      /\ bitAt(n + 5) \in Int /\ bitAt(n + 6) \in Int /\ bitAt(n + 7) \in Int /\ bitAt(n + 8) \in Int
      /\ bitAt(n + 9) \in Int /\ bitAt(n + 10) \in Int /\ bitAt(n + 11) \in Int /\ bitAt(n + 12) \in Int
      /\ bitAt(n + 13) \in Int /\ bitAt(n + 14) \in Int /\ bitAt(n + 15) \in Int /\ bitAt(n + 16) \in Int
  BY <1>1
<1>4. byteAt(off + 1) = 128 * bitAt(n + 9) + 64 * bitAt(n + 10) + 32 * bitAt(n + 11) + 16 * bitAt(n + 12)
                        + 8 * bitAt(n + 13) + 4 * bitAt(n + 14) + 2 * bitAt(n + 15) + bitAt(n + 16)
  BY <1>2 DEF byteAt
<1>5. byteAt(off) = 128 * bitAt(n + 1) + 64 * bitAt(n + 2) + 32 * bitAt(n + 3) + 16 * bitAt(n + 4)
                    + 8 * bitAt(n + 5) + 4 * bitAt(n + 6) + 2 * bitAt(n + 7) + bitAt(n + 8)
  BY DEF byteAt
<1>6. /\ Had(n + 9, 7, 1) = bitAt(n + 10) /\ Had(n + 9, 7, 2) = bitAt(n + 11) /\ Had(n + 9, 7, 3) = bitAt(n + 12)
      /\ Had(n + 9, 7, 4) = bitAt(n + 13) /\ Had(n + 9, 7, 5) = bitAt(n + 14) /\ Had(n + 9, 7, 6) = bitAt(n + 15)
      /\ Had(n + 9, 7, 7) = bitAt(n + 16)
      /\ Had(n + 9, 7, 8) = 1 /\ Had(n + 9, 7, 9) = 0 /\ Had(n + 9, 7, 10) = 0 /\ Had(n + 9, 7, 11) = 0
      /\ Had(n + 9, 7, 12) = 0 /\ Had(n + 9, 7, 13) = 0 /\ Had(n + 9, 7, 14) = 0 /\ Had(n + 9, 7, 15) = 0
      /\ Had(n + 9, 7, 16) = 0 /\ Had(n + 9, 7, 17) = 0
  <2>1. \A j \in 1 .. 7 : (n + 9) + j = n + (9 + j)
    OBVIOUS
  <2> HIDE DEF n
  <2> QED
    BY <2>1 DEF Had
<1>7. byteAt(off) \in Int /\ byteAt(off + 1) \in Int
  BY <1>3, <1>4, <1>5
<1>8. init(off).low = 262144 * byteAt(off) + 1024 * byteAt(off + 1) + 512
  BY <1>7 DEF init, Window
<1> HIDE DEF n
<1>9. Fetch9(n + 9, 7) = 0
  BY <1>6 DEF Fetch9
<1>10. Fetch(n + 9, 7) = 65536 * bitAt(n + 10) + 32768 * bitAt(n + 11) + 16384 * bitAt(n + 12) + 8192 * bitAt(n + 13)
                         + 4096 * bitAt(n + 14) + 2048 * bitAt(n + 15) + 1024 * bitAt(n + 16) + 512
  BY <1>3, <1>6, <1>9 DEF Fetch, Fetch16
<1>11. init(off).low = 131072 * Nine(n) + Fetch(n + 9, 7)
  BY <1>3, <1>4, <1>5, <1>8, <1>10 DEF Nine
<1> QED
  BY <1>11 DEF n
--------------------------------------------------------------------------------
\* How far the decoder shifts, and at which place it finds its marker afterwards.

LEMMA Powers ==
    /\ 2 ^ 0 = 1 /\ 2 ^ 1 = 2 /\ 2 ^ 2 = 4 /\ 2 ^ 3 = 8 /\ 2 ^ 4 = 16 /\ 2 ^ 5 = 32 /\ 2 ^ 6 = 64 /\ 2 ^ 7 = 128 /\ 2 ^ 8 = 256
    /\ 2 ^ 16 = 65536 /\ 2 ^ 17 = 131072
OBVIOUS

LEMMA PowDouble == \A k \in 0 .. 7 : 2 ^ k \in Nat /\ 2 ^ k > 0 /\ 2 ^ (k + 1) = 2 * 2 ^ k
<1> SUFFICES ASSUME NEW k \in 0 .. 7 PROVE 2 ^ k \in Nat /\ 2 ^ k > 0 /\ 2 ^ (k + 1) = 2 * 2 ^ k
  OBVIOUS
<1>1. k = 0 \/ k = 1 \/ k = 2 \/ k = 3 \/ k = 4 \/ k = 5 \/ k = 6 \/ k = 7
  OBVIOUS
<1>2. CASE k = 0
  <2>1. 2 ^ k = 1 /\ 2 ^ (k + 1) = 2
    <3>1. k + 1 = 1
      BY <1>2
    <3> QED
      BY <3>1, <1>2, Powers
  <2> QED
    BY <2>1
<1>3. CASE k = 1
  <2>1. 2 ^ k = 2 /\ 2 ^ (k + 1) = 4
    <3>1. k + 1 = 2
      BY <1>3
    <3> QED
      BY <3>1, <1>3, Powers
  <2> QED
    BY <2>1
<1>4. CASE k = 2
  <2>1. 2 ^ k = 4 /\ 2 ^ (k + 1) = 8
    <3>1. k + 1 = 3
      BY <1>4
    <3> QED
      BY <3>1, <1>4, Powers
  <2> QED
    BY <2>1
<1>5. CASE k = 3
  <2>1. 2 ^ k = 8 /\ 2 ^ (k + 1) = 16
    <3>1. k + 1 = 4
      BY <1>5
    <3> QED
      BY <3>1, <1>5, Powers
  <2> QED
    BY <2>1
<1>6. CASE k = 4
  <2>1. 2 ^ k = 16 /\ 2 ^ (k + 1) = 32
    <3>1. k + 1 = 5
      BY <1>6
    <3> QED
      BY <3>1, <1>6, Powers
  <2> QED
    BY <2>1
<1>7. CASE k = 5
  <2>1. 2 ^ k = 32 /\ 2 ^ (k + 1) = 64
    <3>1. k + 1 = 6
      BY <1>7
    <3> QED
      BY <3>1, <1>7, Powers
  <2> QED
    BY <2>1
<1>8. CASE k = 6
  <2>1. 2 ^ k = 64 /\ 2 ^ (k + 1) = 128
    <3>1. k + 1 = 7
      BY <1>8
    <3> QED
      BY <3>1, <1>8, Powers
  <2> QED
    BY <2>1
<1>9. CASE k = 7
  <2>1. 2 ^ k = 128 /\ 2 ^ (k + 1) = 256
    <3>1. k + 1 = 8
      BY <1>9
    <3> QED
      BY <3>1, <1>9, Powers
  <2> QED
    BY <2>1
<1> QED
  BY <1>1, <1>2, <1>3, <1>4, <1>5, <1>6, <1>7, <1>8, <1>9

Zeros(v, i) == v % 2 ^ i = 0

\* Only one number of zeros is the number of trailing zeros.
LEMMA ZerosFewer ==
    ASSUME NEW v \in Nat, NEW a \in 16 .. 29, NEW b \in 16 .. 29, a <= b, Zeros(v, b)
    PROVE  Zeros(v, a)
<1>1. /\ (Zeros(v, 17) => Zeros(v, 16)) /\ (Zeros(v, 18) => Zeros(v, 17)) /\ (Zeros(v, 19) => Zeros(v, 18))
      /\ (Zeros(v, 20) => Zeros(v, 19)) /\ (Zeros(v, 21) => Zeros(v, 20)) /\ (Zeros(v, 22) => Zeros(v, 21))
      /\ (Zeros(v, 23) => Zeros(v, 22)) /\ (Zeros(v, 24) => Zeros(v, 23)) /\ (Zeros(v, 25) => Zeros(v, 24))
      /\ (Zeros(v, 26) => Zeros(v, 25)) /\ (Zeros(v, 27) => Zeros(v, 26)) /\ (Zeros(v, 28) => Zeros(v, 27))
      /\ (Zeros(v, 29) => Zeros(v, 28))
  BY DEF Zeros
<1> QED
  BY <1>1
OddTimes(v, q, j) == q % 2 = 1 /\ v = q * (65536 * 2 ^ j)

LEMMA TrailingIs ==
    ASSUME NEW v, NEW q \in Nat, NEW j \in Nat, j <= 6, OddTimes(v, q, j)
    PROVE  TrailingZeros(v) = 16 + j
<1>0. q % 2 = 1 /\ v = q * (65536 * 2 ^ j)
  BY DEF OddTimes
<1>1. PICK h \in Nat : q = 2 * h + 1
  <2>1. q \div 2 \in Nat /\ q = 2 * (q \div 2) + 1
    BY <1>0
  <2> QED
    BY <2>1
<1>2. v \in Nat /\ Zeros(v, 16 + j) /\ ~Zeros(v, 17 + j)
  <2>1. j = 0 \/ j = 1 \/ j = 2 \/ j = 3 \/ j = 4 \/ j = 5 \/ j = 6
    OBVIOUS
  <2>2. CASE j = 0
    <3>1. 2 ^ j = 1 /\ 16 + j = 16 /\ 17 + j = 17
      BY <2>2, Powers
    <3>2. v = 131072 * h + 65536
      BY <1>0, <1>1, <3>1
    <3>3. v \in Nat
      BY <3>2, <1>1
    <3>4. Zeros(v, 16) /\ ~Zeros(v, 17)
      BY <3>2 DEF Zeros
    <3> QED
      BY <3>1, <3>3, <3>4
  <2>3. CASE j = 1
    <3>1. 2 ^ j = 2 /\ 16 + j = 17 /\ 17 + j = 18
      BY <2>3, Powers
    <3>2. v = 262144 * h + 131072
      BY <1>0, <1>1, <3>1
    <3>3. v \in Nat
      BY <3>2, <1>1
    <3>4. Zeros(v, 17) /\ ~Zeros(v, 18)
      BY <3>2 DEF Zeros
    <3> QED
      BY <3>1, <3>3, <3>4
  <2>4. CASE j = 2
    <3>1. 2 ^ j = 4 /\ 16 + j = 18 /\ 17 + j = 19
      BY <2>4, Powers
    <3>2. v = 524288 * h + 262144
      BY <1>0, <1>1, <3>1
    <3>3. v \in Nat
      BY <3>2, <1>1
    <3>4. Zeros(v, 18) /\ ~Zeros(v, 19)
      BY <3>2 DEF Zeros
    <3> QED
      BY <3>1, <3>3, <3>4
  <2>5. CASE j = 3
    <3>1. 2 ^ j = 8 /\ 16 + j = 19 /\ 17 + j = 20
      BY <2>5, Powers
    <3>2. v = 1048576 * h + 524288
      BY <1>0, <1>1, <3>1
    <3>3. v \in Nat
      BY <3>2, <1>1
    <3>4. Zeros(v, 19) /\ ~Zeros(v, 20)
      BY <3>2 DEF Zeros
    <3> QED
      BY <3>1, <3>3, <3>4
  <2>6. CASE j = 4
    <3>1. 2 ^ j = 16 /\ 16 + j = 20 /\ 17 + j = 21
      BY <2>6, Powers
    <3>2. v = 2097152 * h + 1048576
      BY <1>0, <1>1, <3>1
    <3>3. v \in Nat
      BY <3>2, <1>1
    <3>4. Zeros(v, 20) /\ ~Zeros(v, 21)
      BY <3>2 DEF Zeros
    <3> QED
      BY <3>1, <3>3, <3>4
  <2>7. CASE j = 5
    <3>1. 2 ^ j = 32 /\ 16 + j = 21 /\ 17 + j = 22
      BY <2>7, Powers
    <3>2. v = 4194304 * h + 2097152
      BY <1>0, <1>1, <3>1
    <3>3. v \in Nat
      BY <3>2, <1>1
    <3>4. Zeros(v, 21) /\ ~Zeros(v, 22)
      BY <3>2 DEF Zeros
    <3> QED
      BY <3>1, <3>3, <3>4
  <2>8. CASE j = 6
    <3>1. 2 ^ j = 64 /\ 16 + j = 22 /\ 17 + j = 23
      BY <2>8, Powers
    <3>2. v = 8388608 * h + 4194304
      BY <1>0, <1>1, <3>1
    <3>3. v \in Nat
      BY <3>2, <1>1
    <3>4. Zeros(v, 22) /\ ~Zeros(v, 23)
      BY <3>2 DEF Zeros
    <3> QED
      BY <3>1, <3>3, <3>4
  <2> QED
    BY <2>1, <2>2, <2>3, <2>4, <2>5, <2>6, <2>7, <2>8
<1>3. 16 + j \in 16 .. 28 /\ v % 2 ^ (16 + j) = 0 /\ v % 2 ^ ((16 + j) + 1) # 0
  <2>1. (16 + j) + 1 = 17 + j
    OBVIOUS
  <2> QED
    BY <1>2, <2>1 DEF Zeros
<1>4. ASSUME NEW i \in 16 .. 28, v % 2 ^ i = 0, v % 2 ^ (i + 1) # 0 PROVE i = 16 + j
  <2>1. Zeros(v, i) /\ ~Zeros(v, i + 1)
    BY <1>4 DEF Zeros
  <2>2. i \in 16 .. 29 /\ i + 1 \in 16 .. 29 /\ 16 + j \in 16 .. 29 /\ 17 + j \in 16 .. 29
    OBVIOUS
  <2>3. ~(i + 1 <= 16 + j)
    BY <2>1, <2>2, <1>2, ZerosFewer
  <2>4. ~(17 + j <= i)
    BY <2>1, <2>2, <1>2, ZerosFewer
  <2> QED
    BY <2>3, <2>4
<1>5. TrailingZeros(v) = 16 + j
  BY <1>3, <1>4 DEF TrailingZeros
<1> QED
  BY <1>5

LEMMA ShiftIs ==
    ASSUME NEW r \in Nat, NEW k \in 0 .. 7, r * 2 ^ k >= 256, r * 2 ^ k <= 511
    PROVE  normShift(r) = k
<1> DEFINE F(a) == r * 2 ^ a
<1>1. F(0) = r /\ F(1) = 2 * r /\ F(2) = 4 * r /\ F(3) = 8 * r /\ F(4) = 16 * r /\ F(5) = 32 * r /\ F(6) = 64 * r
      /\ F(7) = 128 * r /\ F(8) = 256 * r
  BY Powers
<1>2. F(k) >= 256 /\ F(k) <= 511
  OBVIOUS
<1> HIDE DEF F
<1>3. F(k) \in 256 .. 511
  <2>1. k = 0 \/ k = 1 \/ k = 2 \/ k = 3 \/ k = 4 \/ k = 5 \/ k = 6 \/ k = 7
    OBVIOUS
  <2>2. F(k) \in Int
    BY <2>1, <1>1
  <2> QED
    BY <1>2, <2>2
<1>4. ASSUME NEW a \in 0 .. 8, F(a) >= 256, F(a) <= 511 PROVE a = k
  <2>1. k = 0 \/ k = 1 \/ k = 2 \/ k = 3 \/ k = 4 \/ k = 5 \/ k = 6 \/ k = 7
    OBVIOUS
  <2>2. a = 0 \/ a = 1 \/ a = 2 \/ a = 3 \/ a = 4 \/ a = 5 \/ a = 6 \/ a = 7 \/ a = 8
    OBVIOUS
  <2> QED
    BY <2>1, <2>2, <1>1, <1>2, <1>4
<1>5. \A a \in 0 .. 8 : F(a) \in 256 .. 511 => a = k
  BY <1>4
<1>6. k \in 0 .. 8
  OBVIOUS
<1>7. (CHOOSE a \in 0 .. 8 : F(a) \in 256 .. 511) = k
  BY <1>3, <1>5, <1>6
<1> QED
  BY <1>7 DEF normShift, F
--------------------------------------------------------------------------------
\* The decoder's arithmetic for the same interval.

Offset(e) == Value(e) - e.low
Shows(low, pos, e, r) == 8 * pos = Place(e) + 9 + r /\ low = 131072 * Offset(e) + Fetch(Place(e) + 9, r)
Follows(d, e) ==
    /\ d = Window(d.low, d.rng, d.pos) /\ d.low \in Int /\ d.pos \in Nat /\ d.rng = e.rng
    /\ \E r \in Nat : r >= 1 /\ r <= 16 /\ Shows(d.low, d.pos, e, r)

\* One bit further along the code.
Further(e, f) == Place(f) = Place(e) + 1 /\ Offset(f) = 2 * Offset(e) + bitAt(Place(e) + 10)

LEMMA OffsetIs ==
    ASSUME BitsTyped, NEW e \in Coder
    PROVE  Place(e) \in Nat /\ Offset(e) \in Int /\ Place(e) + 9 \in Nat
<1>1. Value(e) \in Int /\ Place(e) \in Nat
  BY PlaceIs
<1>2. e.low \in Int
  BY DEF Coder
<1> QED
  BY <1>1, <1>2 DEF Offset

LEMMA ShowsIs ==
    ASSUME BitsTyped, NEW e, Place(e) \in Nat, Offset(e) \in Int, NEW low \in Int, NEW pos \in Nat, NEW r \in Nat, r >= 1, r <= 16, Shows(low, pos, e, r)
    PROVE  low % 65536 # 0
<1> DEFINE m == Place(e) + 9
<1>1. m \in Nat /\ Offset(e) \in Int
  OBVIOUS
<1>2. low = 131072 * Offset(e) + Fetch(m, r)
  BY DEF Shows
<1> HIDE DEF m
<1>3. r \in Nat /\ r <= 16 /\ r # 0
  OBVIOUS
<1>4. PICK q \in Int, s \in Int : s > 0 /\ s <= 65535 /\ Fetch(m, r) = 65536 * q + s
  <2>1. Broken(Fetch(m, r))
    BY ONLY <1>1, <1>3, BitsTyped, FetchMod
  <2> QED
    BY <2>1 DEF Broken
<1>5. low = 65536 * (2 * Offset(e) + q) + s
  BY <1>1, <1>2, <1>4
<1>6. 2 * Offset(e) + q \in Int
  BY <1>1
<1> QED
  BY <1>4, <1>5, <1>6

LEMMA ShowsDoubled ==
    ASSUME BitsTyped, NEW e, Place(e) \in Nat, Offset(e) \in Int, NEW f, Offset(f) \in Int, Further(e, f),
           NEW low \in Int, NEW pos \in Nat, NEW r \in Nat, r >= 1, r <= 16, Shows(low, pos, e, r)
    PROVE  /\ r > 1 => Shows(2 * low, pos, f, r - 1)
           /\ r = 1 => /\ 2 * low = 65536 * (2 * Offset(f) + 1)
                       /\ Fetched(pos) \in Int
                       /\ Shows(2 * low + Fetched(pos), pos + 2, f, 16)
<1> DEFINE m == Place(e) + 9
<1>1. m \in Nat /\ Offset(e) \in Int /\ Place(e) \in Nat /\ Offset(f) \in Int
  OBVIOUS
<1>2. bitAt(m + 1) = bitAt(Place(e) + 10) /\ bitAt(m + 1) \in Int
  <2>1. m + 1 = Place(e) + 10 /\ m + 1 \in Nat /\ m + 1 > 0
    BY <1>1
  <2> QED
    BY <2>1, BitTyped
<1>3. Place(f) + 9 = m + 1
  BY <1>1 DEF Further
<1>4. 8 * pos = m + r /\ low = 131072 * Offset(e) + Fetch(m, r)
  BY DEF Shows
<1>5. Offset(f) = 2 * Offset(e) + bitAt(m + 1)
  BY <1>2 DEF Further
<1> HIDE DEF m
<1>6. 2 * Fetch(m, r) = 131072 * bitAt(m + 1) + Fetch(m + 1, r - 1)
  BY <1>1, FetchDoubled
<1>7. Fetch(m, r) \in Int /\ Fetch(m + 1, r - 1) \in Int
  <2>1. m + 1 \in Nat /\ r - 1 \in Nat /\ r - 1 <= 16 /\ r \in Nat /\ r <= 16
    BY <1>1
  <2> QED
    BY ONLY <2>1, <1>1, BitsTyped, FetchInt
<1>8. 2 * low = 131072 * Offset(f) + Fetch(m + 1, r - 1)
  BY <1>1, <1>2, <1>4, <1>5, <1>6, <1>7
<1>9. ASSUME r > 1 PROVE Shows(2 * low, pos, f, r - 1)
  <2>1. 8 * pos = (m + 1) + (r - 1)
    BY <1>1, <1>4
  <2> QED
    BY <2>1, <1>3, <1>8 DEF Shows
<1>10. ASSUME r = 1
       PROVE  /\ 2 * low = 65536 * (2 * Offset(f) + 1)
              /\ Fetched(pos) \in Int
              /\ Shows(2 * low + Fetched(pos), pos + 2, f, 16)
  <2>1. r - 1 = 0 /\ 0 \in Nat /\ m + 1 \in Nat
    BY <1>1, <1>10
  <2>2. Fetch(m + 1, r - 1) = 65536
    BY <2>1, FetchIs
  <2>3. 8 * pos = m + 1
    BY <1>1, <1>4, <1>10
  <2>4. Fetched(pos) \in Int /\ 65536 + Fetched(pos) = Fetch(m + 1, 16)
    BY <2>3, FetchedIs
  <2>5. 2 * low = 65536 * (2 * Offset(f) + 1)
    BY <1>1, <1>8, <2>2
  <2>6. Fetch(m + 1, 16) \in Int
    BY <2>1, FetchIs
  <2>7. 2 * low + Fetched(pos) = 131072 * Offset(f) + Fetch(m + 1, 16)
    BY <1>1, <1>8, <2>2, <2>4, <2>6
  <2>8. 8 * (pos + 2) = (m + 1) + 16
    BY <2>3
  <2> QED
    BY <2>4, <2>5, <2>7, <2>8, <1>3 DEF Shows
<1> QED
  BY <1>9, <1>10

\* refill as soon as the window has run out.
LEMMA RefillIs ==
    ASSUME BitsTyped, NEW e, Place(e) \in Nat, Offset(e) \in Int, NEW f, Offset(f) \in Int, Further(e, f),
           NEW low \in Int, NEW pos \in Nat, NEW rng, NEW r \in Nat, r >= 1, r <= 16, Shows(low, pos, e, r)
    PROVE  \E l \in Int, p \in Nat : /\ refill(Window(2 * low, rng, pos)) = Window(l, rng, p)
                                     /\ \E s \in Nat : s >= 1 /\ s <= 16 /\ Shows(l, p, f, s)
<1> DEFINE d == Window(2 * low, rng, pos)
<1>1. d.low = 2 * low /\ d.rng = rng /\ d.pos = pos
  BY DEF Window
<1>2. Empty(d) <=> (2 * low) % 65536 = 0
  BY <1>1 DEF Empty, CabacBits
<1>0. Place(f) \in Nat
  BY DEF Further
<1>3. CASE r > 1
  <2>1. Shows(2 * low, pos, f, r - 1)
    BY <1>3, ShowsDoubled
  <2>2. r - 1 \in Nat /\ r - 1 >= 1 /\ r - 1 <= 16 /\ 2 * low \in Int
    BY <1>3
  <2>3. ~Empty(d)
    BY <2>1, <2>2, <1>0, <1>2, ShowsIs
  <2>4. refill(d) = Window(2 * low, rng, pos)
    BY <2>3 DEF refill
  <2> QED
    BY <2>1, <2>2, <2>4
<1>4. CASE r = 1
  <2>1. /\ 2 * low = 65536 * (2 * Offset(f) + 1)
        /\ Fetched(pos) \in Int
        /\ Shows(2 * low + Fetched(pos), pos + 2, f, 16)
    BY <1>4, ShowsDoubled
  <2>2. 2 * Offset(f) + 1 \in Int
    OBVIOUS
  <2>3. (2 * low) % 65536 = 0
    BY <2>1, <2>2
  <2>4. refill(d) = Window(2 * low + Fetched(pos), rng, pos + 2)
    BY <2>3, <1>1, <1>2 DEF refill
  <2>5. 2 * low + Fetched(pos) \in Int /\ pos + 2 \in Nat /\ 16 \in Nat
    BY <2>1
  <2> QED
    BY <2>1, <2>4, <2>5
<1> QED
  BY <1>3, <1>4
--------------------------------------------------------------------------------
\* The window that decodeBin shifts by several bits at once, one bit at a time: it has
\* bits left, or the marker has moved j places beyond them and waits for refillShifted.

Waits(e, low, pos, j, q) == OddTimes(low, q, j) /\ Shows(low + Fetched(pos) * 2 ^ j, pos + 2, e, 16 - j)
Track(e, low, pos, k) ==
    \/ \E r \in Nat : r >= 1 /\ r <= 16 /\ Shows(low, pos, e, r)
    \/ \E j \in Nat, q \in Nat : j < k /\ Waits(e, low, pos, j, q)

LEMMA Doubles == ASSUME NEW a \in Int, NEW b \in Int, NEW p \in Int PROVE a * (2 * p) = 2 * (a * p) /\ a * (b * p) = b * (a * p) /\ a * p \in Int
OBVIOUS

LEMMA TrackStep ==
    ASSUME BitsTyped, NEW e \in Coder, NEW f \in Coder, Further(e, f), Offset(f) >= 0,
           NEW low \in Int, NEW pos \in Nat, NEW k \in Nat, k <= 6, Track(e, low, pos, k)
    PROVE  Track(f, 2 * low, pos, k + 1)
<1>1. Offset(f) \in Int /\ Place(e) \in Nat /\ Offset(e) \in Int
  BY OffsetIs
<1>2. CASE \E r \in Nat : r >= 1 /\ r <= 16 /\ Shows(low, pos, e, r)
  <2>1. PICK r \in Nat : r >= 1 /\ r <= 16 /\ Shows(low, pos, e, r)
    BY <1>2
  <2>2. CASE r > 1
    <3>1. Shows(2 * low, pos, f, r - 1)
      BY <1>1, <2>1, <2>2, ShowsDoubled
    <3>2. r - 1 \in Nat /\ r - 1 >= 1 /\ r - 1 <= 16
      BY <2>1, <2>2
    <3> QED
      BY <3>1, <3>2 DEF Track
  <2>3. CASE r = 1
    <3> DEFINE q == 2 * Offset(f) + 1
    <3>1. /\ 2 * low = 65536 * q
          /\ Fetched(pos) \in Int
          /\ Shows(2 * low + Fetched(pos), pos + 2, f, 16)
      BY <1>1, <2>1, <2>3, ShowsDoubled
    <3>2. q \in Nat /\ q % 2 = 1
      BY <1>1
    <3> HIDE DEF q
    <3>3. q * (65536 * 2 ^ 0) = 65536 * q /\ Fetched(pos) * 2 ^ 0 = Fetched(pos) /\ 16 - 0 = 16
      BY <3>1, <3>2, Powers
    <3>4. Waits(f, 2 * low, pos, 0, q)
      BY <3>1, <3>2, <3>3 DEF Waits, OddTimes
    <3>5. 0 \in Nat /\ 0 < k + 1
      OBVIOUS
    <3> QED
      BY <3>2, <3>4, <3>5 DEF Track
  <2> QED
    BY <2>1, <2>2, <2>3
<1>3. CASE \E j \in Nat, q \in Nat : j < k /\ Waits(e, low, pos, j, q)
  <2>1. PICK j \in Nat, q \in Nat : j < k /\ Waits(e, low, pos, j, q)
    BY <1>3
  <2> DEFINE l == low + Fetched(pos) * 2 ^ j
  <2>2. j \in 0 .. 7 /\ j < 6
    BY <2>1
  <2>3. 2 ^ j \in Nat /\ 2 ^ j > 0 /\ 2 ^ (j + 1) = 2 * 2 ^ j
    BY <2>2, PowDouble
  <2>4. Fetched(pos) \in Int
    BY FetchedIs
  <2>5. l \in Int /\ 2 * l = 2 * low + Fetched(pos) * 2 ^ (j + 1)
    <3>1. Fetched(pos) * 2 ^ j \in Int /\ Fetched(pos) * (2 * 2 ^ j) = 2 * (Fetched(pos) * 2 ^ j)
      BY <2>3, <2>4, Doubles
    <3>2. Fetched(pos) * 2 ^ (j + 1) = 2 * (Fetched(pos) * 2 ^ j)
      BY <3>1, <2>3
    <3> QED
      BY <3>1, <3>2
  <2>6. q % 2 = 1 /\ low = q * (65536 * 2 ^ j) /\ Shows(l, pos + 2, e, 16 - j)
    BY <2>1 DEF Waits, OddTimes
  <2> HIDE DEF l
  <2>7. pos + 2 \in Nat /\ 16 - j \in Nat /\ 16 - j >= 1 /\ 16 - j <= 16 /\ 16 - j > 1 /\ (16 - j) - 1 = 16 - (j + 1)
    BY <2>2
  <2>8. Shows(2 * l, pos + 2, f, (16 - j) - 1)
    BY <1>1, <2>5, <2>6, <2>7, ShowsDoubled
  <2>9. 2 * low = q * (65536 * 2 ^ (j + 1))
    <3>1. 65536 * 2 ^ j \in Int /\ q * (2 * (65536 * 2 ^ j)) = 2 * (q * (65536 * 2 ^ j))
      BY <2>3, Doubles
    <3>2. 65536 * 2 ^ (j + 1) = 2 * (65536 * 2 ^ j)
      BY <2>3
    <3> QED
      BY <3>1, <3>2, <2>6
  <2>10. Waits(f, 2 * low, pos, j + 1, q)
    BY <2>5, <2>6, <2>7, <2>8, <2>9 DEF Waits, OddTimes
  <2>11. j + 1 \in Nat /\ j + 1 < k + 1
    BY <2>1
  <2> QED
    BY <2>10, <2>11 DEF Track
<1> QED
  BY <1>2, <1>3 DEF Track

LEMMA TrackDone ==
    ASSUME BitsTyped, NEW e \in Coder, NEW low \in Int, NEW pos \in Nat, NEW rng, NEW k \in Nat, k <= 7, Track(e, low, pos, k)
    PROVE  \E l \in Int, p \in Nat : /\ refillShifted(Window(low, rng, pos)) = Window(l, rng, p)
                                     /\ \E s \in Nat : s >= 1 /\ s <= 16 /\ Shows(l, p, e, s)
<1> DEFINE d == Window(low, rng, pos)
<1>1. d.low = low /\ d.rng = rng /\ d.pos = pos
  BY DEF Window
<1>2. Empty(d) <=> low % 65536 = 0
  BY <1>1 DEF Empty, CabacBits
<1>3. CASE \E r \in Nat : r >= 1 /\ r <= 16 /\ Shows(low, pos, e, r)
  <2>1. PICK r \in Nat : r >= 1 /\ r <= 16 /\ Shows(low, pos, e, r)
    BY <1>3
  <2>2. ~Empty(d)
    BY <2>1, <1>2, OffsetIs, ShowsIs
  <2>3. refillShifted(d) = Window(low, rng, pos)
    BY <2>2 DEF refillShifted
  <2> QED
    BY <2>1, <2>3
<1>4. CASE \E j \in Nat, q \in Nat : j < k /\ Waits(e, low, pos, j, q)
  <2>1. PICK j \in Nat, q \in Nat : j < k /\ Waits(e, low, pos, j, q)
    BY <1>4
  <2>2. j \in 0 .. 6 /\ j \in 0 .. 7
    BY <2>1
  <2>3. q % 2 = 1 /\ low = q * (65536 * 2 ^ j) /\ Shows(low + Fetched(pos) * 2 ^ j, pos + 2, e, 16 - j)
    BY <2>1 DEF Waits, OddTimes
  <2>4. 2 ^ j \in Nat
    BY <2>2, PowDouble
  <2>5. TrailingZeros(low) = 16 + j
    <3>1. j <= 6 /\ OddTimes(low, q, j)
      BY <2>1, <2>2 DEF Waits
    <3> QED
      BY ONLY <3>1, TrailingIs
  <2>6. low % 65536 = 0
    <3>1. q * (65536 * 2 ^ j) = 65536 * (q * 2 ^ j) /\ q * 2 ^ j \in Int
      BY <2>4, Doubles
    <3> QED
      BY <3>1, <2>3
  <2>7. refillShifted(d) = Window(low + Fetched(pos) * 2 ^ j, rng, pos + 2)
    <3>1. (16 + j) - 16 = j
      BY <2>1
    <3>2. TrailingZeros(d.low) - CabacBits = j
      BY <2>5, <3>1, <1>1 DEF CabacBits
    <3> QED
      BY <3>2, <2>6, <1>1, <1>2 DEF refillShifted
  <2>8. low + Fetched(pos) * 2 ^ j \in Int /\ pos + 2 \in Nat
    <3>1. Fetched(pos) * 2 ^ j \in Int
      BY <2>4, FetchedIs, Doubles
    <3> QED
      BY <3>1
  <2>9. 16 - j \in Nat /\ 16 - j >= 1 /\ 16 - j <= 16
    BY <2>2
  <2> QED
    BY <2>3, <2>7, <2>8, <2>9
<1> QED
  BY <1>3, <1>4 DEF Track
--------------------------------------------------------------------------------
\* renorm and the shifts that answer it.

LEMMA WidenStep ==
    ASSUME BitsTyped, NEW least \in Nat, least > 0, least <= 128, NEW e, Between(e, least)
    PROVE  /\ Between(Widened(e), 2 * least) /\ Place(Widened(e)) >= Place(e)
           /\ Fits(Widened(e)) => Fits(e)
<1>1. /\ e \in Coder /\ e.low \in Nat /\ e.rng \in Nat /\ e.rng >= least /\ e.rng <= 510
      /\ e.low + e.rng <= 1024 /\ (e.firstBit => e.low + e.rng <= 512)
  BY BetweenIs
<1>2. Place(e) \in Nat
  BY <1>1, OffsetIs
<1>3. CASE e.rng < 256
  <2>1. Between(Widened(e), 2 * least) /\ Place(Widened(e)) = Place(e) + 1 /\ (Fits(Widened(e)) => Fits(e))
    BY <1>3, WidenedIs
  <2> QED
    BY <2>1, <1>2
<1>4. CASE ~(e.rng < 256)
  <2>1. Widened(e) = e
    BY <1>4 DEF Widened
  <2>2. e.rng \in 2 * least .. 510
    BY <1>1, <1>4
  <2>3. Between(e, 2 * least)
    BY <1>1, <2>2 DEF Between
  <2> QED
    BY <2>1, <2>3, <1>2
<1> QED
  BY <1>3, <1>4

LEMMA RenormIs ==
    ASSUME BitsTyped, NEW e, Between(e, 2)
    PROVE  /\ Between(renorm(e), 256) /\ Place(renorm(e)) >= Place(e)
           /\ Fits(renorm(e)) => Fits(e)
<1> DEFINE a == Widened(e) b == Widened(a) g == Widened(b) h == Widened(g) i == Widened(h) j == Widened(i) k == Widened(j)
<1>1. Between(a, 4) /\ Place(a) >= Place(e) /\ (Fits(a) => Fits(e))
  BY WidenStep
<1> HIDE DEF a
<1>2. Between(b, 8) /\ Place(b) >= Place(a) /\ (Fits(b) => Fits(a))
  BY <1>1, WidenStep
<1> HIDE DEF b
<1>3. Between(g, 16) /\ Place(g) >= Place(b) /\ (Fits(g) => Fits(b))
  BY <1>2, WidenStep
<1> HIDE DEF g
<1>4. Between(h, 32) /\ Place(h) >= Place(g) /\ (Fits(h) => Fits(g))
  BY <1>3, WidenStep
<1> HIDE DEF h
<1>5. Between(i, 64) /\ Place(i) >= Place(h) /\ (Fits(i) => Fits(h))
  BY <1>4, WidenStep
<1> HIDE DEF i
<1>6. Between(j, 128) /\ Place(j) >= Place(i) /\ (Fits(j) => Fits(i))
  BY <1>5, WidenStep
<1> HIDE DEF j
<1>7. Between(k, 256) /\ Place(k) >= Place(j) /\ (Fits(k) => Fits(j))
  BY <1>6, WidenStep
<1> HIDE DEF k
<1>8. renorm(e) = k
  BY DEF renorm, a, b, g, h, i, j, k
<1>9. e \in Coder /\ a \in Coder /\ b \in Coder /\ g \in Coder /\ h \in Coder /\ i \in Coder /\ j \in Coder /\ k \in Coder
  BY <1>1, <1>2, <1>3, <1>4, <1>5, <1>6, <1>7 DEF Between
<1>10. /\ Place(e) \in Nat /\ Place(a) \in Nat /\ Place(b) \in Nat /\ Place(g) \in Nat
       /\ Place(h) \in Nat /\ Place(i) \in Nat /\ Place(j) \in Nat /\ Place(k) \in Nat
  BY <1>9, OffsetIs
<1>11. Place(k) >= Place(e)
  BY <1>1, <1>2, <1>3, <1>4, <1>5, <1>6, <1>7, <1>10
<1>12. Fits(k) => Fits(e)
  BY <1>1, <1>2, <1>3, <1>4, <1>5, <1>6, <1>7
<1> QED
  BY <1>7, <1>8, <1>11, <1>12

\* After at most i steps of renorm the decoder has the same range shifted by k.
Reached(e, d, i) == \E k \in Nat : k <= i /\ e.rng = d.rng * 2 ^ k /\ Track(e, d.low * 2 ^ k, d.pos, k)

LEMMA ReachStep ==
    ASSUME BitsTyped, NEW e, NEW least \in Nat, least > 0, Between(e, least), NEW d, d.low \in Int, d.rng \in Nat, d.pos \in Nat,
           NEW i \in Nat, i <= 6, Reached(e, d, i), Fits(Widened(e))
    PROVE  Reached(Widened(e), d, i + 1)
<1>1. PICK k \in Nat : k <= i /\ e.rng = d.rng * 2 ^ k /\ Track(e, d.low * 2 ^ k, d.pos, k)
  BY DEF Reached
<1>2. e \in Coder /\ e.low \in Nat /\ e.rng \in Nat
  BY BetweenIs
<1>3. CASE ~(e.rng < 256)
  <2>1. Widened(e) = e
    BY <1>3 DEF Widened
  <2>2. k <= i + 1
    BY <1>1
  <2> QED
    BY <1>1, <2>1, <2>2 DEF Reached
<1>4. CASE e.rng < 256
  <2> DEFINE f == Widened(e)
  <2>1. /\ Between(f, 2 * least) /\ f.rng = 2 * e.rng /\ Place(f) = Place(e) + 1
        /\ Held(f) => Held(e) /\ Value(f) - f.low = 2 * (Value(e) - e.low) + bitAt(Place(e) + 10)
    BY <1>4, WidenedIs
  <2>2. f \in Coder /\ Held(f) /\ Value(f) - f.low \in 0 .. f.rng - 1
    BY <2>1 DEF Between, Fits
  <2> HIDE DEF f
  <2>3. Further(e, f)
    BY <2>1, <2>2 DEF Further, Offset
  <2>4. Offset(f) >= 0
    BY <2>2 DEF Offset
  <2>5. k \in 0 .. 7 /\ k <= 6
    BY <1>1
  <2>6. 2 ^ k \in Nat /\ 2 ^ (k + 1) = 2 * 2 ^ k
    BY <2>5, PowDouble
  <2>7. d.low * 2 ^ k \in Int /\ d.low * 2 ^ (k + 1) = 2 * (d.low * 2 ^ k) /\ d.rng * 2 ^ (k + 1) = 2 * (d.rng * 2 ^ k)
    <3>1. d.low \in Int /\ d.rng \in Int /\ 2 ^ k \in Int
      BY <2>6
    <3> QED
      BY <3>1, <2>6, Doubles
  <2>8. Track(f, 2 * (d.low * 2 ^ k), d.pos, k + 1)
    <3> DEFINE low == d.low * 2 ^ k
    <3>1. low \in Int /\ Track(e, low, d.pos, k)
      BY <1>1, <2>7
    <3> HIDE DEF low
    <3>2. Track(f, 2 * low, d.pos, k + 1)
      BY <3>1, <1>2, <2>2, <2>3, <2>4, <2>5, TrackStep
    <3> QED
      BY <3>2 DEF low
  <2>9. k + 1 \in Nat /\ k + 1 <= i + 1
    BY <1>1
  <2>10. f.rng = d.rng * 2 ^ (k + 1)
    BY <1>1, <2>1, <2>7
  <2> QED
    BY <2>7, <2>8, <2>9, <2>10 DEF Reached, f
<1> QED
  BY <1>3, <1>4

LEMMA ReachStart ==
    ASSUME NEW e, NEW d, d.low \in Int, d.rng \in Nat, d.rng = e.rng,
           \E r \in Nat : r >= 1 /\ r <= 16 /\ Shows(d.low, d.pos, e, r)
    PROVE  Reached(e, d, 0)
<1>1. d.low * 2 ^ 0 = d.low /\ d.rng * 2 ^ 0 = d.rng
  BY Powers
<1>2. Track(e, d.low * 2 ^ 0, d.pos, 0)
  BY <1>1 DEF Track
<1>3. 0 \in Nat /\ 0 <= 0
  OBVIOUS
<1> QED
  BY <1>1, <1>2, <1>3 DEF Reached

LEMMA RenormReached ==
    ASSUME BitsTyped, NEW e, Between(e, 2), NEW d, d.low \in Int, d.rng \in Nat, d.pos \in Nat, Reached(e, d, 0), Fits(renorm(e))
    PROVE  Reached(renorm(e), d, 7)
<1> DEFINE a == Widened(e) b == Widened(a) g == Widened(b) h == Widened(g) i == Widened(h) j == Widened(i) k == Widened(j)
<1>1. Between(a, 4) /\ (Fits(a) => Fits(e)) /\ (Fits(a) => Reached(a, d, 1))
  BY WidenStep, ReachStep
<1> HIDE DEF a
<1>2. Between(b, 8) /\ (Fits(b) => Fits(a)) /\ (Fits(b) /\ Reached(a, d, 1) => Reached(b, d, 2))
  BY <1>1, WidenStep, ReachStep
<1> HIDE DEF b
<1>3. Between(g, 16) /\ (Fits(g) => Fits(b)) /\ (Fits(g) /\ Reached(b, d, 2) => Reached(g, d, 3))
  BY <1>2, WidenStep, ReachStep
<1> HIDE DEF g
<1>4. Between(h, 32) /\ (Fits(h) => Fits(g)) /\ (Fits(h) /\ Reached(g, d, 3) => Reached(h, d, 4))
  BY <1>3, WidenStep, ReachStep
<1> HIDE DEF h
<1>5. Between(i, 64) /\ (Fits(i) => Fits(h)) /\ (Fits(i) /\ Reached(h, d, 4) => Reached(i, d, 5))
  BY <1>4, WidenStep, ReachStep
<1> HIDE DEF i
<1>6. Between(j, 128) /\ (Fits(j) => Fits(i)) /\ (Fits(j) /\ Reached(i, d, 5) => Reached(j, d, 6))
  BY <1>5, WidenStep, ReachStep
<1> HIDE DEF j
<1>7. (Fits(k) => Fits(j)) /\ (Fits(k) /\ Reached(j, d, 6) => Reached(k, d, 7))
  BY <1>6, WidenStep, ReachStep
<1> HIDE DEF k
<1>8. renorm(e) = k
  BY DEF renorm, a, b, g, h, i, j, k
<1> QED
  BY <1>1, <1>2, <1>3, <1>4, <1>5, <1>6, <1>7, <1>8

\* decodeBin's shift and refillShifted against the whole of renorm.
LEMMA RenormFollowed ==
    ASSUME BitsTyped, NEW e, Between(e, 2), NEW d, d.low \in Int, d.rng \in Nat, d.pos \in Nat, d.rng = e.rng,
           \E r \in Nat : r >= 1 /\ r <= 16 /\ Shows(d.low, d.pos, e, r), Fits(renorm(e))
    PROVE  Follows(refillShifted(Shifted(d, normShift(d.rng))), renorm(e))
<1> DEFINE f == renorm(e)
<1>1. Reached(f, d, 7)
  BY ReachStart, RenormReached
<1>2. Between(f, 256)
  BY RenormIs
<1> HIDE DEF f
<1>3. f \in Coder /\ f.rng >= 256 /\ f.rng <= 510
  BY <1>2, BetweenIs
<1>4. PICK k \in Nat : k <= 7 /\ f.rng = d.rng * 2 ^ k /\ Track(f, d.low * 2 ^ k, d.pos, k)
  BY <1>1 DEF Reached
<1>5. 2 ^ k \in Nat
  <2>1. k \in 0 .. 7
    BY <1>4
  <2> QED
    BY <2>1, PowDouble
<1>6. normShift(d.rng) = k
  <2>1. d.rng * 2 ^ k >= 256 /\ d.rng * 2 ^ k <= 511 /\ k \in 0 .. 7
    BY <1>3, <1>4
  <2> QED
    BY ONLY <2>1, d.rng \in Nat, ShiftIs
<1> DEFINE low == d.low * 2 ^ k
<1>7. Shifted(d, normShift(d.rng)) = Window(low, f.rng, d.pos)
  BY <1>4, <1>6 DEF Shifted
<1>8. low \in Int
  BY <1>5, Doubles
<1>9. Track(f, low, d.pos, k)
  BY <1>4
<1> HIDE DEF low
<1>10. \E l \in Int, p \in Nat : /\ refillShifted(Window(low, f.rng, d.pos)) = Window(l, f.rng, p)
                                 /\ \E s \in Nat : s >= 1 /\ s <= 16 /\ Shows(l, p, f, s)
  BY <1>3, <1>4, <1>8, <1>9, TrackDone
<1>11. Follows(refillShifted(Window(low, f.rng, d.pos)), f)
  BY <1>10 DEF Follows, Window
<1> QED
  BY <1>7, <1>11 DEF f
--------------------------------------------------------------------------------
\* A bin of a context: the part of the interval that the encoder keeps is the one
\* that decodeBin's comparison finds.

LEMMA NarrowIs ==
    ASSUME BitsTyped, NEW e, Between(e, 256), NEW lps \in Int, lps >= 2, lps <= 254, NEW mps \in BOOLEAN
    PROVE  /\ Between(Narrow(e, mps, lps), 2) /\ Place(Narrow(e, mps, lps)) = Place(e)
           /\ mps => Narrow(e, mps, lps).rng = e.rng - lps /\ Offset(Narrow(e, mps, lps)) = Offset(e)
           /\ ~mps => Narrow(e, mps, lps).rng = lps /\ Offset(Narrow(e, mps, lps)) = Offset(e) - (e.rng - lps)
           /\ Fits(Narrow(e, mps, lps)) => Fits(e)
<1>1. /\ e \in Coder /\ e.low \in Nat /\ e.rng \in Nat /\ e.rng >= 256 /\ e.rng <= 510
      /\ e.low + e.rng <= 1024 /\ (e.firstBit => e.low + e.rng <= 512)
  BY BetweenIs
<1>2. Value(e) \in Int
  BY <1>1, PlaceIs
<1>3. ASSUME NEW low \in Nat, NEW rng \in Nat, rng >= 2, low >= e.low, low + rng <= e.low + e.rng
      PROVE  /\ Between(Interval(e, low, rng), 2) /\ Place(Interval(e, low, rng)) = Place(e) /\ Interval(e, low, rng).rng = rng
             /\ Offset(Interval(e, low, rng)) = Value(e) - low
             /\ Fits(Interval(e, low, rng)) => Fits(e)
  <2> DEFINE n == Interval(e, low, rng)
  <2>1. /\ n \in Coder /\ n.low = low /\ n.rng = rng /\ n.firstBit = e.firstBit /\ Place(n) = Place(e)
        /\ Value(n) = Value(e) /\ (Held(n) <=> Held(e))
    <3>1. e \in Coder
      BY <1>1
    <3> QED
      BY ONLY <3>1, low \in Nat, rng \in Nat, IntervalIs
  <2> HIDE DEF n
  <2>2. rng \in 2 .. 510 /\ low + rng <= 1024 /\ (e.firstBit => low + rng <= 512)
    BY <1>1, <1>3
  <2>3. Between(n, 2)
    BY <2>1, <2>2 DEF Between
  <2>4. ASSUME Fits(n) PROVE Fits(e)
    <3>1. Held(e) /\ Value(e) - low \in 0 .. rng - 1
      BY <2>1, <2>4 DEF Fits
    <3>2. Value(e) - e.low \in 0 .. e.rng - 1
      BY <3>1, <1>1, <1>2, <1>3
    <3> QED
      BY <3>1, <3>2 DEF Fits
  <2>5. Offset(n) = Value(e) - low
    BY <2>1 DEF Offset
  <2> QED
    BY <2>1, <2>3, <2>4, <2>5 DEF n
<1>4. CASE mps
  <2>1. Narrow(e, mps, lps) = Interval(e, e.low, e.rng - lps)
    BY <1>4 DEF Narrow
  <2>2. e.rng - lps \in Nat /\ e.rng - lps >= 2 /\ e.low >= e.low /\ e.low + (e.rng - lps) <= e.low + e.rng
    BY <1>1
  <2>3. /\ Between(Interval(e, e.low, e.rng - lps), 2) /\ Place(Interval(e, e.low, e.rng - lps)) = Place(e)
        /\ Interval(e, e.low, e.rng - lps).rng = e.rng - lps
        /\ Offset(Interval(e, e.low, e.rng - lps)) = Value(e) - e.low
        /\ Fits(Interval(e, e.low, e.rng - lps)) => Fits(e)
    BY <1>1, <2>2, <1>3
  <2> QED
    BY <1>4, <2>1, <2>3 DEF Offset
<1>5. CASE ~mps
  <2> DEFINE low == e.low + e.rng - lps
  <2>1. Narrow(e, mps, lps) = Interval(e, low, lps)
    BY <1>5 DEF Narrow
  <2>2. low \in Nat /\ lps \in Nat /\ low >= e.low /\ low + lps <= e.low + e.rng
    BY <1>1
  <2>3. Value(e) - low = Offset(e) - (e.rng - lps)
    BY <1>1, <1>2 DEF Offset
  <2> HIDE DEF low
  <2>4. /\ Between(Interval(e, low, lps), 2) /\ Place(Interval(e, low, lps)) = Place(e) /\ Interval(e, low, lps).rng = lps
        /\ Offset(Interval(e, low, lps)) = Value(e) - low
        /\ Fits(Interval(e, low, lps)) => Fits(e)
    BY <2>2, <1>3
  <2> QED
    BY <1>5, <2>1, <2>3, <2>4
<1> QED
  BY <1>4, <1>5

LEMMA FollowsIs ==
    ASSUME BitsTyped, NEW e, e \in Coder, NEW d, Follows(d, e)
    PROVE  \E r \in Nat : /\ r >= 1 /\ r <= 16 /\ Shows(d.low, d.pos, e, r)
                          /\ d.low = 131072 * Offset(e) + Fetch(Place(e) + 9, r)
                          /\ Fetch(Place(e) + 9, r) \in Int /\ Fetch(Place(e) + 9, r) >= 1 /\ Fetch(Place(e) + 9, r) <= 131071
<1>1. PICK r \in Nat : r >= 1 /\ r <= 16 /\ Shows(d.low, d.pos, e, r)
  BY DEF Follows
<1>2. Place(e) + 9 \in Nat
  BY OffsetIs
<1>3. Fetch(Place(e) + 9, r) \in Int /\ Fetch(Place(e) + 9, r) >= 1 /\ Fetch(Place(e) + 9, r) <= 131071
  BY ONLY <1>1, <1>2, BitsTyped, FetchIs
<1>4. d.low = 131072 * Offset(e) + Fetch(Place(e) + 9, r)
  BY <1>1 DEF Shows
<1> QED
  BY <1>1, <1>3, <1>4

LEMMA DecodedBin ==
    ASSUME BitsTyped, NEW e, Between(e, 256), NEW lps \in Int, lps >= 2, lps <= 254, NEW mps \in BOOLEAN,
           NEW d, Follows(d, e), Fits(renorm(Narrow(e, mps, lps)))
    PROVE  /\ mps => ~Less(d, lps)
           /\ ~mps => Less(d, lps)
           /\ Follows(refillShifted(decodeBin(d, lps)), renorm(Narrow(e, mps, lps)))
<1> DEFINE n == Narrow(e, mps, lps)
<1>1. /\ Between(n, 2) /\ Place(n) = Place(e)
      /\ mps => n.rng = e.rng - lps /\ Offset(n) = Offset(e)
      /\ ~mps => n.rng = lps /\ Offset(n) = Offset(e) - (e.rng - lps)
  BY NarrowIs
<1>2. Fits(n)
  <2>1. Fits(renorm(n)) => Fits(n)
    BY <1>1, RenormIs
  <2> QED
    BY <2>1
<1>3. Fits(renorm(n))
  OBVIOUS
<1> HIDE DEF n
<1>4. n \in Coder /\ n.rng \in Nat /\ e \in Coder /\ e.rng \in Nat /\ e.rng >= 256
  BY <1>1, BetweenIs
<1>5. Offset(n) >= 0 /\ Offset(n) <= n.rng - 1 /\ Offset(n) \in Int /\ Offset(e) \in Int
  BY <1>2, <1>4, OffsetIs DEF Fits, Offset
<1>6. PICK r \in Nat : /\ r >= 1 /\ r <= 16 /\ Shows(d.low, d.pos, e, r)
                       /\ d.low = 131072 * Offset(e) + Fetch(Place(e) + 9, r)
                       /\ Fetch(Place(e) + 9, r) \in Int /\ Fetch(Place(e) + 9, r) >= 1 /\ Fetch(Place(e) + 9, r) <= 131071
  BY <1>4, FollowsIs
<1>7. d.low \in Int /\ d.pos \in Nat /\ d.rng = e.rng
  BY DEF Follows
<1>8. Less(d, lps) <=> d.low > (e.rng - lps) * 131072
  BY <1>7 DEF Less, Word, CabacBits
<1>9. CASE mps
  <2>1. ~Less(d, lps)
    BY <1>1, <1>4, <1>5, <1>6, <1>8, <1>9
  <2> DEFINE x == Window(d.low, d.rng - lps, d.pos)
  <2>2. decodeBin(d, lps) = Shifted(x, normShift(x.rng))
    BY <2>1 DEF decodeBin, Window
  <2>3. x.low = d.low /\ x.rng = n.rng /\ x.pos = d.pos
    BY <1>1, <1>7, <1>9 DEF Window
  <2>4. Shows(x.low, x.pos, n, r)
    BY <2>3, <1>1, <1>6, <1>9 DEF Shows
  <2> HIDE DEF x
  <2>5. Follows(refillShifted(Shifted(x, normShift(x.rng))), renorm(n))
    BY <2>3, <2>4, <1>1, <1>3, <1>4, <1>6, <1>7, RenormFollowed
  <2> QED
    BY <2>1, <2>2, <2>5, <1>9 DEF n
<1>10. CASE ~mps
  <2>1. Less(d, lps)
    BY <1>1, <1>4, <1>5, <1>6, <1>8, <1>10
  <2> DEFINE x == Window(d.low - (d.rng - lps) * Word, lps, d.pos)
  <2>2. decodeBin(d, lps) = Shifted(x, normShift(x.rng))
    BY <2>1 DEF decodeBin, Window
  <2>3. x.low = d.low - 131072 * (e.rng - lps) /\ x.rng = n.rng /\ x.pos = d.pos
    BY <1>1, <1>4, <1>7, <1>10 DEF Window, Word, CabacBits
  <2>4. x.low = 131072 * Offset(n) + Fetch(Place(e) + 9, r)
    BY <2>3, <1>1, <1>4, <1>5, <1>6, <1>10
  <2>5. Shows(x.low, x.pos, n, r)
    BY <2>3, <2>4, <1>1, <1>6 DEF Shows
  <2>6. x.low \in Int
    BY <2>4, <1>5, <1>6
  <2> HIDE DEF x
  <2>7. Follows(refillShifted(Shifted(x, normShift(x.rng))), renorm(n))
    BY <2>3, <2>5, <2>6, <1>1, <1>3, <1>4, <1>6, <1>7, RenormFollowed
  <2> QED
    BY <2>1, <2>2, <2>7, <1>10 DEF n
<1> QED
  BY <1>9, <1>10
--------------------------------------------------------------------------------
\* A bin without a context.

LEMMA BypassIs ==
    ASSUME BitsTyped, NEW e, Between(e, 256), NEW bin \in Int, bin = 0 \/ bin = 1
    PROVE  /\ Between(encodeBypass(e, bin), 256) /\ encodeBypass(e, bin).rng = e.rng
           /\ Place(encodeBypass(e, bin)) = Place(e) + 1
           /\ Held(encodeBypass(e, bin)) =>
                  Held(e) /\ Offset(encodeBypass(e, bin)) = 2 * Offset(e) + bitAt(Place(e) + 10) - bin * e.rng
           /\ Fits(encodeBypass(e, bin)) => Fits(e)
<1> DEFINE low == 2 * e.low + bin * e.rng
           f == Interval(e, low, e.rng)
           g == Settle(f)
<1>1. /\ e \in Coder /\ e.low \in Nat /\ e.rng \in Nat /\ e.firstBit \in BOOLEAN /\ e.rng >= 256 /\ e.rng <= 510
      /\ e.low + e.rng <= 1024 /\ (e.firstBit => e.low + e.rng <= 512)
  BY BetweenIs
<1>2. encodeBypass(e, bin) = g
  BY DEF encodeBypass
<1>3. low \in Nat /\ low + e.rng <= 2048 /\ (e.firstBit => low + e.rng <= 1024) /\ (bin = 0 => low = 2 * e.low)
      /\ (bin = 1 => low = 2 * e.low + e.rng)
  BY <1>1
<1>4. bin * e.rng = (IF bin = 0 THEN 0 ELSE e.rng)
  BY <1>1
<1> HIDE DEF low
<1>5. /\ f \in Coder /\ f.low = low /\ f.rng = e.rng /\ f.firstBit = e.firstBit
      /\ Place(f) = Place(e) /\ Value(f) = Value(e) /\ (Held(f) <=> Held(e))
  <2>1. e \in Coder /\ e.rng \in Nat /\ low \in Nat
    BY <1>1, <1>3
  <2> QED
    BY ONLY <2>1, IntervalIs
<1> HIDE DEF f
<1>6. f.low < 2048 /\ (f.firstBit => f.low < 1024)
  BY <1>1, <1>3, <1>5
<1>7. /\ g \in Coder /\ g.rng = f.rng /\ Place(g) = Place(f) + 1
      /\ \/ f.low < 512 /\ g.low = f.low
         \/ f.low >= 1024 /\ g.low = f.low - 1024 /\ ~f.firstBit
         \/ f.low \in 512 .. 1023 /\ g.low = f.low - 512
      /\ f.low >= 512 /\ g.firstBit => f.firstBit /\ f.low < 1024
      /\ f.low < 512 => ~g.firstBit
      /\ Held(g) => Held(f) /\ Value(g) - g.low = 2 * Value(f) + bitAt(Place(f) + 10) - f.low
  BY <1>5, <1>6, SettleIs
<1> HIDE DEF g
<1>8. g.low + g.rng <= 1024
  BY <1>1, <1>3, <1>5, <1>7
<1>9. g.firstBit => g.low + g.rng <= 512
  BY <1>1, <1>3, <1>5, <1>7
<1>10. g.rng \in 256 .. 510
  BY <1>1, <1>5, <1>7
<1>11. Between(g, 256)
  BY <1>7, <1>8, <1>9, <1>10 DEF Between
<1>12. Value(e) \in Int /\ bitAt(Place(e) + 10) \in {0, 1} /\ Value(g) \in Int /\ g.low \in Int
  <2>1. g.low \in Int
    BY <1>11, BetweenIs
  <2> QED
    BY <2>1, <1>1, <1>7, PlaceIs
<1>13. ASSUME Held(g) PROVE Held(e) /\ Offset(g) = 2 * Offset(e) + bitAt(Place(e) + 10) - bin * e.rng
  <2>1. Held(f) /\ Value(g) - g.low = 2 * Value(e) + bitAt(Place(e) + 10) - low
    BY <1>5, <1>7, <1>13
  <2>2. 2 * Value(e) + bitAt(Place(e) + 10) - low = 2 * (Value(e) - e.low) + bitAt(Place(e) + 10) - bin * e.rng
    <3>1. Value(e) \in Int /\ bitAt(Place(e) + 10) \in Int /\ e.low \in Int /\ e.rng \in Int
      BY <1>1, <1>12
    <3>2. low = 2 * e.low + (IF bin = 0 THEN 0 ELSE e.rng)
      BY <1>3
    <3> QED
      BY <3>1, <3>2, <1>4
  <2> QED
    BY <2>1, <2>2, <1>5 DEF Offset
<1>14. ASSUME Fits(g) PROVE Fits(e)
  <2>1. Held(g) /\ Offset(g) >= 0 /\ Offset(g) <= e.rng - 1
    BY <1>14, <1>1, <1>5, <1>7, <1>12 DEF Fits, Offset
  <2>2. Offset(e) \in Int
    BY <1>1, OffsetIs
  <2>3. Held(e) /\ Offset(e) >= 0 /\ Offset(e) <= e.rng - 1
    BY <2>1, <2>2, <1>1, <1>4, <1>12, <1>13
  <2>4. Offset(e) \in 0 .. e.rng - 1
    BY <2>2, <2>3, <1>1
  <2> QED
    BY <2>3, <2>4 DEF Fits, Offset
<1> QED
  BY <1>2, <1>5, <1>7, <1>11, <1>13, <1>14

LEMMA DecodedBypass ==
    ASSUME BitsTyped, NEW e, Between(e, 256), NEW bin \in Int, bin = 0 \/ bin = 1,
           NEW d, Follows(d, e), Fits(encodeBypass(e, bin))
    PROVE  /\ Doubled(d).low < Doubled(d).rng * Word <=> bin = 0
           /\ Follows(decodeBypass(Doubled(d)), encodeBypass(e, bin))
<1> DEFINE g == encodeBypass(e, bin)
           h == Interval(g, g.low - bin * e.rng, g.rng)
<1>1. /\ Between(g, 256) /\ g.rng = e.rng /\ Place(g) = Place(e) + 1
      /\ Held(g) => Held(e) /\ Offset(g) = 2 * Offset(e) + bitAt(Place(e) + 10) - bin * e.rng
  BY BypassIs
<1>2. Held(g) /\ Value(g) - g.low \in 0 .. g.rng - 1
  BY DEF Fits
<1> HIDE DEF g
<1>3. g \in Coder /\ e \in Coder /\ e.rng \in Nat /\ g.low \in Int
  BY <1>1, BetweenIs
<1>4. Offset(e) \in Int /\ Place(e) \in Nat /\ Offset(g) \in Int /\ Value(g) \in Int /\ bitAt(Place(e) + 10) \in Int
  BY <1>3, OffsetIs, PlaceIs
<1>5. bin * e.rng = (IF bin = 0 THEN 0 ELSE e.rng)
  BY <1>3
<1>6. Offset(g) >= 0 /\ Offset(g) <= e.rng - 1 /\ Offset(g) = 2 * Offset(e) + bitAt(Place(e) + 10) - bin * e.rng
  BY <1>1, <1>2, <1>3, <1>4 DEF Offset
<1>7. Place(h) = Place(g) /\ Value(h) = Value(g) /\ h.low = g.low - bin * e.rng
  BY DEF Interval, Place, Value, Undecided
<1> HIDE DEF h
<1>8. Offset(h) = Offset(g) + bin * e.rng /\ Offset(h) \in Int
  BY <1>3, <1>4, <1>5, <1>7 DEF Offset
<1>9. Further(e, h)
  BY <1>1, <1>3, <1>4, <1>5, <1>6, <1>7, <1>8 DEF Further
<1>10. d.low \in Int /\ d.pos \in Nat /\ d.rng = e.rng
  BY DEF Follows
<1>11. PICK r \in Nat : r >= 1 /\ r <= 16 /\ Shows(d.low, d.pos, e, r)
  BY DEF Follows
<1>12. \E l \in Int, p \in Nat : /\ refill(Window(2 * d.low, d.rng, d.pos)) = Window(l, d.rng, p)
                                 /\ \E s \in Nat : s >= 1 /\ s <= 16 /\ Shows(l, p, h, s)
  BY <1>4, <1>8, <1>9, <1>10, <1>11, RefillIs
<1>13. PICK l \in Int, p \in Nat, s \in Nat : Doubled(d) = Window(l, d.rng, p) /\ s >= 1 /\ s <= 16 /\ Shows(l, p, h, s)
  BY <1>12 DEF Doubled
<1>14. Doubled(d).low = l /\ Doubled(d).rng = e.rng /\ Doubled(d).pos = p
  BY <1>10, <1>13 DEF Window
<1> DEFINE x == Fetch(Place(g) + 9, s)
<1>15. 8 * p = Place(g) + 9 + s /\ l = 131072 * Offset(h) + x
  BY <1>7, <1>13 DEF Shows
<1>16. x \in Int /\ x >= 1 /\ x <= 131071
  <2>1. Place(g) + 9 \in Nat
    BY <1>3, OffsetIs
  <2> QED
    BY ONLY <1>13, <2>1, BitsTyped, FetchIs
<1> HIDE DEF x
<1>17. Doubled(d).low < Doubled(d).rng * Word <=> l < 131072 * e.rng
  BY <1>3, <1>14 DEF Word, CabacBits
<1>18. CASE bin = 0
  <2>1. l < 131072 * e.rng
    BY <1>3, <1>4, <1>5, <1>6, <1>8, <1>15, <1>16, <1>18
  <2>2. decodeBypass(Doubled(d)) = Window(l, e.rng, p)
    BY <2>1, <1>10, <1>13, <1>17 DEF decodeBypass
  <2>3. Offset(h) = Offset(g)
    BY <1>4, <1>5, <1>8, <1>18
  <2>4. Shows(l, p, g, s)
    BY <2>3, <1>15 DEF Shows, x
  <2>5. Follows(Window(l, e.rng, p), g)
    BY <2>4, <1>1, <1>13 DEF Follows, Window
  <2> QED
    BY <2>1, <2>2, <2>5, <1>17, <1>18 DEF g
<1>19. CASE bin = 1
  <2>1. ~(l < 131072 * e.rng)
    BY <1>3, <1>4, <1>5, <1>6, <1>8, <1>15, <1>16, <1>19
  <2>2. decodeBypass(Doubled(d)) = Window(l - e.rng * 131072, e.rng, p)
    BY <2>1, <1>14, <1>17 DEF decodeBypass, Word, CabacBits
  <2>3. Offset(h) = Offset(g) + e.rng
    BY <1>4, <1>5, <1>8, <1>19
  <2>4. l - e.rng * 131072 = 131072 * Offset(g) + x /\ l - e.rng * 131072 \in Int
    BY <2>3, <1>3, <1>4, <1>15, <1>16
  <2>5. Shows(l - e.rng * 131072, p, g, s)
    BY <2>4, <1>15 DEF Shows, x
  <2>6. Follows(Window(l - e.rng * 131072, e.rng, p), g)
    BY <2>4, <2>5, <1>1, <1>13 DEF Follows, Window
  <2> QED
    BY <2>1, <2>2, <2>6, <1>17, <1>19 DEF g
<1> QED
  BY <1>18, <1>19
--------------------------------------------------------------------------------
\* end_of_slice_segment_flag and the like when the arithmetic code goes on.

LEMMA KeptIs ==
    ASSUME BitsTyped, NEW e, Between(e, 256)
    PROVE  LET t == Interval(e, e.low, e.rng - 2)
           IN  /\ Between(t, 2) /\ t.rng = e.rng - 2 /\ Place(t) = Place(e) /\ Offset(t) = Offset(e)
               /\ Fits(t) => Fits(e)
<1> DEFINE t == Interval(e, e.low, e.rng - 2)
<1>1. /\ e \in Coder /\ e.low \in Nat /\ e.rng \in Nat /\ e.rng >= 256 /\ e.rng <= 510
      /\ e.low + e.rng <= 1024 /\ (e.firstBit => e.low + e.rng <= 512)
  BY BetweenIs
<1>2. e.rng - 2 \in Nat /\ e.low \in Nat /\ e \in Coder
  BY <1>1
<1>3. /\ t \in Coder /\ t.low = e.low /\ t.rng = e.rng - 2 /\ t.firstBit = e.firstBit /\ Place(t) = Place(e)
      /\ Value(t) = Value(e) /\ (Held(t) <=> Held(e))
  BY ONLY <1>2, IntervalIs
<1> HIDE DEF t
<1>4. Between(t, 2)
  <2>1. e.rng - 2 \in 2 .. 510 /\ e.low + (e.rng - 2) <= 1024 /\ (e.firstBit => e.low + (e.rng - 2) <= 512)
    BY <1>1
  <2> QED
    BY <2>1, <1>3 DEF Between
<1>5. ASSUME Fits(t) PROVE Fits(e)
  <2>1. Value(e) \in Int
    BY <1>1, PlaceIs
  <2>2. Held(e) /\ Value(e) - e.low \in 0 .. (e.rng - 2) - 1
    BY <1>3, <1>5 DEF Fits
  <2>3. Value(e) - e.low \in 0 .. e.rng - 1
    BY <2>1, <2>2, <1>1
  <2> QED
    BY <2>2, <2>3 DEF Fits
<1>6. Offset(t) = Offset(e)
  BY <1>3 DEF Offset
<1> QED
  BY <1>3, <1>4, <1>5, <1>6 DEF t

LEMMA RenormSame ==
    ASSUME NEW e
    PROVE  /\ ~(e.rng < 256) => renorm(e) = e
           /\ ~(Widened(e).rng < 256) => renorm(e) = Widened(e)
<1>1. \A x : ~(x.rng < 256) => Widened(x) = x
  BY DEF Widened
<1> DEFINE f == Widened(e)
<1>2. renorm(e) = Widened(Widened(Widened(Widened(Widened(Widened(f))))))
  BY DEF renorm
<1> HIDE DEF f
<1>3. ~(f.rng < 256) => Widened(Widened(Widened(Widened(Widened(Widened(f)))))) = f
  BY <1>1
<1>4. ~(e.rng < 256) => f = e
  BY <1>1 DEF f
<1> QED
  BY <1>2, <1>3, <1>4 DEF f

LEMMA DecodedTerminate ==
    ASSUME BitsTyped, NEW e, Between(e, 256), NEW d, Follows(d, e), Fits(encodeTerminate(e, 0))
    PROVE  /\ ~Terminated(d)
           /\ Follows(decodeTerminate(d), encodeTerminate(e, 0))
<1> DEFINE t == Interval(e, e.low, e.rng - 2)
<1>1. /\ Between(t, 2) /\ t.rng = e.rng - 2 /\ Place(t) = Place(e) /\ Offset(t) = Offset(e)
  BY KeptIs
<1>2. encodeTerminate(e, 0) = renorm(t)
  BY DEF encodeTerminate
<1> HIDE DEF t
<1>3. t \in Coder /\ e \in Coder /\ e.rng \in Nat /\ e.rng >= 256 /\ e.rng <= 510 /\ t.low \in Nat
  BY <1>1, BetweenIs
<1>4. Fits(renorm(t))
  BY <1>2
<1>5. Fits(t)
  BY <1>1, <1>4, RenormIs
<1>6. Offset(t) >= 0 /\ Offset(t) <= t.rng - 1 /\ Offset(t) \in Int /\ Place(e) \in Nat /\ t.rng \in Int
  BY <1>1, <1>3, <1>5, OffsetIs DEF Fits, Offset
<1>7. PICK r \in Nat : /\ r >= 1 /\ r <= 16 /\ Shows(d.low, d.pos, e, r)
                       /\ d.low = 131072 * Offset(e) + Fetch(Place(e) + 9, r)
                       /\ Fetch(Place(e) + 9, r) \in Int /\ Fetch(Place(e) + 9, r) >= 1 /\ Fetch(Place(e) + 9, r) <= 131071
  BY <1>3, FollowsIs
<1>8. d.low \in Int /\ d.pos \in Nat /\ d.rng = e.rng
  BY DEF Follows
<1>9. ~Terminated(d)
  <2>1. Terminated(d) <=> d.low >= 131072 * (e.rng - 2)
    BY <1>3, <1>8 DEF Terminated, Word, CabacBits
  <2> QED
    BY <2>1, <1>1, <1>3, <1>6, <1>7
<1>10. Shows(d.low, d.pos, t, r)
  BY <1>1, <1>7 DEF Shows
<1>11. CASE e.rng - 2 >= 256
  <2>1. decodeTerminate(d) = Window(d.low, t.rng, d.pos)
    BY <1>1, <1>8, <1>11 DEF decodeTerminate
  <2>2. renorm(t) = t
    <3>1. ~(t.rng < 256)
      BY <1>1, <1>3, <1>11
    <3> QED
      BY <3>1, RenormSame
  <2>3. Follows(Window(d.low, t.rng, d.pos), t)
    BY <1>7, <1>8, <1>10 DEF Follows, Window
  <2> QED
    BY <2>1, <2>2, <2>3, <1>2, <1>9
<1>12. CASE ~(e.rng - 2 >= 256)
  <2> DEFINE f == Widened(t)
  <2>1. t.rng < 256 /\ 2 \in Nat /\ 2 > 0
    BY <1>1, <1>3, <1>12
  <2>2. /\ Between(f, 4) /\ f.rng = 2 * t.rng /\ Place(f) = Place(t) + 1
        /\ Held(f) => Held(t) /\ Value(f) - f.low = 2 * (Value(t) - t.low) + bitAt(Place(t) + 10)
    BY <2>1, <1>1, WidenedIs
  <2>3. renorm(t) = f
    <3>1. ~(f.rng < 256)
      BY <2>2, <1>1, <1>3, <1>12
    <3> QED
      BY <3>1, RenormSame
  <2> HIDE DEF f
  <2>4. f \in Coder /\ Held(f)
    BY <2>2, <2>3, <1>4 DEF Between, Fits
  <2>5. Further(t, f)
    BY <2>2, <2>4 DEF Further, Offset
  <2>6. Offset(f) \in Int /\ Place(t) \in Nat
    BY <2>4, <1>3, OffsetIs
  <2>7. decodeTerminate(d) = refill(Window(2 * d.low, f.rng, d.pos))
    <3>1. decodeTerminate(d) = refill(Shifted(Window(d.low, d.rng - 2, d.pos), 1))
      BY <1>8, <1>9, <1>12 DEF decodeTerminate
    <3>2. d.low * 2 ^ 1 = 2 * d.low /\ (d.rng - 2) * 2 ^ 1 = f.rng
      BY <2>2, <1>1, <1>3, <1>8, Powers
    <3> QED
      BY <3>1, <3>2 DEF Shifted, Window
  <2>8. \E l \in Int, p \in Nat : /\ refill(Window(2 * d.low, f.rng, d.pos)) = Window(l, f.rng, p)
                                  /\ \E s \in Nat : s >= 1 /\ s <= 16 /\ Shows(l, p, f, s)
    BY <2>5, <2>6, <1>6, <1>7, <1>8, <1>10, RefillIs
  <2>9. Follows(decodeTerminate(d), f)
    BY <2>7, <2>8 DEF Follows, Window
  <2> QED
    BY <2>3, <2>9, <1>2, <1>9
<1> QED
  BY <1>11, <1>12
--------------------------------------------------------------------------------
\* The end of an arithmetic code: two values are left of the interval, nine more bits
\* tell the first of them from everything outside.

Closing(e) == Interval(e, e.low + e.rng - 2, 2)

LEMMA ClosingIs ==
    ASSUME BitsTyped, NEW e, Between(e, 256)
    PROVE  /\ Between(Closing(e), 2) /\ Closing(e).rng = 2 /\ Place(Closing(e)) = Place(e)
           /\ Fits(Closing(e)) => Fits(e) /\ Offset(e) >= e.rng - 2
<1> DEFINE low == e.low + e.rng - 2
           t == Interval(e, low, 2)
<1>1. /\ e \in Coder /\ e.low \in Nat /\ e.rng \in Nat /\ e.rng >= 256 /\ e.rng <= 510
      /\ e.low + e.rng <= 1024 /\ (e.firstBit => e.low + e.rng <= 512)
  BY BetweenIs
<1>2. low \in Nat /\ low = e.low + e.rng - 2
  BY <1>1
<1>3. Closing(e) = t
  BY DEF Closing
<1> HIDE DEF low
<1>4. /\ t \in Coder /\ t.low = low /\ t.rng = 2 /\ t.firstBit = e.firstBit /\ Place(t) = Place(e)
      /\ Value(t) = Value(e) /\ (Held(t) <=> Held(e))
  <2>1. e \in Coder /\ low \in Nat /\ 2 \in Nat
    BY <1>1, <1>2
  <2> QED
    BY ONLY <2>1, IntervalIs
<1> HIDE DEF t
<1>5. Between(t, 2)
  <2>1. 2 \in 2 .. 510 /\ low + 2 <= 1024 /\ (e.firstBit => low + 2 <= 512)
    BY <1>1, <1>2
  <2> QED
    BY <2>1, <1>4 DEF Between
<1>6. ASSUME Fits(t) PROVE Fits(e) /\ Offset(e) >= e.rng - 2
  <2>1. Value(e) \in Int
    BY <1>1, PlaceIs
  <2>2. Held(e) /\ Value(e) - low \in 0 .. 2 - 1
    BY <1>4, <1>6 DEF Fits
  <2>3. Value(e) - e.low \in 0 .. e.rng - 1 /\ Value(e) - e.low >= e.rng - 2
    BY <2>1, <2>2, <1>1, <1>2
  <2> QED
    BY <2>2, <2>3 DEF Fits, Offset
<1> QED
  BY <1>3, <1>4, <1>5, <1>6

\* One of the seven steps by which renorm closes the code.
Closed(f, l, n, rng, w0) == Between(f, rng) /\ f.rng = rng /\ Place(f) = n /\ \E a \in Int : f.low = w0 * l - 512 * a

LEMMA ClosingStep ==
    ASSUME BitsTyped, NEW f, NEW l \in Int, NEW n \in Nat, NEW rng \in Nat, rng > 0, rng < 256, NEW w0 \in Int, Closed(f, l, n, rng, w0)
    PROVE  Closed(Widened(f), l, n + 1, 2 * rng, 2 * w0) /\ (Fits(Widened(f)) => Fits(f))
<1>1. Between(f, rng) /\ f.rng = rng /\ Place(f) = n
  BY DEF Closed
<1>2. PICK a \in Int : f.low = w0 * l - 512 * a
  BY DEF Closed
<1>3. /\ Between(Widened(f), 2 * rng) /\ Widened(f).rng = 2 * f.rng /\ Place(Widened(f)) = Place(f) + 1
      /\ Widened(f).low \in {2 * f.low, 2 * f.low - 512, 2 * f.low - 1024}
      /\ Fits(Widened(f)) => Fits(f)
  BY <1>1, WidenedIs
<1>4. w0 * l \in Int /\ (2 * w0) * l = 2 * (w0 * l)
  OBVIOUS
<1>5. \/ Widened(f).low = (2 * w0) * l - 512 * (2 * a)
      \/ Widened(f).low = (2 * w0) * l - 512 * (2 * a + 1)
      \/ Widened(f).low = (2 * w0) * l - 512 * (2 * a + 2)
  BY <1>2, <1>3, <1>4
<1>6. 2 * a \in Int /\ 2 * a + 1 \in Int /\ 2 * a + 2 \in Int
  OBVIOUS
<1>7. \E b \in Int : Widened(f).low = (2 * w0) * l - 512 * b
  BY <1>5, <1>6
<1> QED
  BY <1>1, <1>3, <1>7 DEF Closed

LEMMA ClosingDone ==
    ASSUME BitsTyped, NEW e, Between(e, 256)
    PROVE  /\ Between(renorm(Closing(e)), 256) /\ renorm(Closing(e)).rng = 256
           /\ Place(renorm(Closing(e))) = Place(e) + 7 /\ renorm(Closing(e)).low % 128 = 0
           /\ Fits(renorm(Closing(e))) => Fits(Closing(e))
<1> DEFINE c0 == Closing(e) l == c0.low n == Place(e)
           a == Widened(c0) b == Widened(a) g == Widened(b) h == Widened(g) i == Widened(h) j == Widened(i) k == Widened(j)
<1>1. Between(c0, 2) /\ c0.rng = 2 /\ Place(c0) = n
  BY ClosingIs
<1>2. renorm(c0) = k
  BY DEF renorm
<1> HIDE DEF c0
<1>3. c0 \in Coder /\ l \in Int
  BY <1>1, BetweenIs
<1>4. n \in Nat
  BY <1>1, <1>3, OffsetIs
<1>5. Closed(c0, l, n, 2, 1)
  <2>1. l = 1 * l - 512 * 0
    BY <1>3
  <2> QED
    BY <1>1, <2>1 DEF Closed
<1> HIDE DEF l, n
<1>6. Closed(a, l, n + 1, 4, 2) /\ (Fits(a) => Fits(c0))
  <2>1. Closed(a, l, n + 1, 2 * 2, 2 * 1) /\ (Fits(a) => Fits(c0))
    BY <1>3, <1>4, <1>5, ClosingStep
  <2> QED
    BY <2>1
<1> HIDE DEF a
<1>7. Closed(b, l, n + 2, 8, 4) /\ (Fits(b) => Fits(a))
  <2>1. Closed(b, l, (n + 1) + 1, 2 * 4, 2 * 2) /\ (Fits(b) => Fits(a))
    BY <1>3, <1>4, <1>6, ClosingStep
  <2>2. (n + 1) + 1 = n + 2
    BY <1>4
  <2> QED
    BY <2>1, <2>2
<1> HIDE DEF b
<1>8. Closed(g, l, n + 3, 16, 8) /\ (Fits(g) => Fits(b))
  <2>1. Closed(g, l, (n + 2) + 1, 2 * 8, 2 * 4) /\ (Fits(g) => Fits(b))
    BY <1>3, <1>4, <1>7, ClosingStep
  <2>2. (n + 2) + 1 = n + 3
    BY <1>4
  <2> QED
    BY <2>1, <2>2
<1> HIDE DEF g
<1>9. Closed(h, l, n + 4, 32, 16) /\ (Fits(h) => Fits(g))
  <2>1. Closed(h, l, (n + 3) + 1, 2 * 16, 2 * 8) /\ (Fits(h) => Fits(g))
    BY <1>3, <1>4, <1>8, ClosingStep
  <2>2. (n + 3) + 1 = n + 4
    BY <1>4
  <2> QED
    BY <2>1, <2>2
<1> HIDE DEF h
<1>10. Closed(i, l, n + 5, 64, 32) /\ (Fits(i) => Fits(h))
  <2>1. Closed(i, l, (n + 4) + 1, 2 * 32, 2 * 16) /\ (Fits(i) => Fits(h))
    BY <1>3, <1>4, <1>9, ClosingStep
  <2>2. (n + 4) + 1 = n + 5
    BY <1>4
  <2> QED
    BY <2>1, <2>2
<1> HIDE DEF i
<1>11. Closed(j, l, n + 6, 128, 64) /\ (Fits(j) => Fits(i))
  <2>1. Closed(j, l, (n + 5) + 1, 2 * 64, 2 * 32) /\ (Fits(j) => Fits(i))
    BY <1>3, <1>4, <1>10, ClosingStep
  <2>2. (n + 5) + 1 = n + 6
    BY <1>4
  <2> QED
    BY <2>1, <2>2
<1> HIDE DEF j
<1>12. Closed(k, l, n + 7, 256, 128) /\ (Fits(k) => Fits(j))
  <2>1. Closed(k, l, (n + 6) + 1, 2 * 128, 2 * 64) /\ (Fits(k) => Fits(j))
    BY <1>3, <1>4, <1>11, ClosingStep
  <2>2. (n + 6) + 1 = n + 7
    BY <1>4
  <2> QED
    BY <2>1, <2>2
<1> HIDE DEF k
<1>13. Between(k, 256) /\ k.rng = 256 /\ Place(k) = n + 7
  BY <1>12 DEF Closed
<1>14. k.low % 128 = 0
  <2>1. PICK x \in Int : k.low = 128 * l - 512 * x
    BY <1>12 DEF Closed
  <2>2. k.low = 128 * (l - 4 * x) /\ l - 4 * x \in Int
    BY <2>1, <1>3
  <2> QED
    BY <2>2
<1>15. Fits(k) => Fits(c0)
  BY <1>6, <1>7, <1>8, <1>9, <1>10, <1>11, <1>12
<1> QED
  BY <1>2, <1>13, <1>14, <1>15 DEF c0, n

LEMMA FinishIs ==
    ASSUME BitsTyped, NEW k, Between(k, 256), k.rng = 256, k.low % 128 = 0
    PROVE  /\ Finish(k).out \in Seq({0, 1}) /\ Len(Finish(k).out) = Place(k) + 2
           /\ Prefix(Finish(k).out) => Fits(k)
<1> DEFINE v == (k.low \div 512) % 2
           b == (k.low \div 256) % 2
           p == putBit(k, v)
           t == <<b, 1>>
<1>1. /\ k \in Coder /\ k.low \in Nat /\ k.low + k.rng <= 1024 /\ (k.firstBit => k.low + k.rng <= 512)
  BY BetweenIs
<1>2. k.low \in Int /\ k.low >= 0 /\ k.low <= 768 /\ (k.firstBit => k.low <= 256)
  BY <1>1
<1>3. v \in {0, 1} /\ b \in {0, 1} /\ (k.firstBit => v = 0)
  BY <1>2
<1>4. \E x \in Int : x >= 0 /\ x <= 128 /\ k.low = 512 * v + 256 * b + x
  <2>1. k.low = 0 \/ k.low = 128 \/ k.low = 256 \/ k.low = 384 \/ k.low = 512 \/ k.low = 640 \/ k.low = 768
    BY <1>2
  <2>2. \/ v = 0 /\ b = 0 /\ k.low = 512 * v + 256 * b + 0
        \/ v = 0 /\ b = 0 /\ k.low = 512 * v + 256 * b + 128
        \/ v = 0 /\ b = 1 /\ k.low = 512 * v + 256 * b + 0
        \/ v = 0 /\ b = 1 /\ k.low = 512 * v + 256 * b + 128
        \/ v = 1 /\ b = 0 /\ k.low = 512 * v + 256 * b + 0
        \/ v = 1 /\ b = 0 /\ k.low = 512 * v + 256 * b + 128
        \/ v = 1 /\ b = 1 /\ k.low = 512 * v + 256 * b + 0
    BY <2>1
  <2>3. 0 \in Int /\ 128 \in Int /\ 0 >= 0 /\ 0 <= 128 /\ 128 >= 0 /\ 128 <= 128
    OBVIOUS
  <2> HIDE DEF v, b
  <2> QED
    BY <2>2, <2>3
<1> HIDE DEF v, b
<1>5. /\ p \in Coder /\ Len(p.out) = Place(k)
      /\ Prefix(p.out) /\ (k.firstBit => v = 0) => Held(k) /\ Undecided(k) = v
  BY ONLY <1>1, <1>3, BitsTyped, PutIs
<1>6. Finish(k).out = p.out \o t
  BY DEF Finish, v, b, p, putBit
<1> HIDE DEF p
<1>7. p.out \in Seq({0, 1}) /\ t \in Seq({0, 1}) /\ Len(t) = 2 /\ t[1] = b /\ t[2] = 1
  BY <1>3, <1>5 DEF Coder
<1> HIDE DEF t
<1>8. Finish(k).out \in Seq({0, 1}) /\ Len(Finish(k).out) = Place(k) + 2
  <2>1. p.out \in Seq({0, 1}) /\ t \in Seq({0, 1})
    BY <1>7
  <2>2. p.out \o t \in Seq({0, 1}) /\ Len(p.out \o t) = Len(p.out) + Len(t)
    BY ONLY <2>1, CatIs
  <2> QED
    BY <2>2, <1>5, <1>6, <1>7
<1>9. ASSUME Prefix(Finish(k).out) PROVE Fits(k)
  <2>1. Prefix(p.out \o t)
    BY <1>6, <1>9
  <2>2. Prefix(p.out) /\ \A i \in 1 .. Len(t) : bitAt(Len(p.out) + i) = t[i]
    <3>1. p.out \in Seq({0, 1}) /\ t \in Seq({0, 1})
      BY <1>7
    <3> QED
      BY ONLY <3>1, <2>1, BitsTyped, PrefixCat
  <2>3. bitAt(Place(k) + 1) = b /\ bitAt(Place(k) + 2) = 1
    <3>1. 1 \in 1 .. 2 /\ 2 \in 1 .. 2
      OBVIOUS
    <3> QED
      BY <2>2, <3>1, <1>5, <1>7
  <2>4. Held(k) /\ Undecided(k) = v
    BY <2>2, <1>3, <1>5
  <2> DEFINE y == 64 * bitAt(Place(k) + 3) + 32 * bitAt(Place(k) + 4) + 16 * bitAt(Place(k) + 5)
                  + 8 * bitAt(Place(k) + 6) + 4 * bitAt(Place(k) + 7) + 2 * bitAt(Place(k) + 8) + bitAt(Place(k) + 9)
  <2>5. y \in Int /\ y >= 0 /\ y <= 127
    <3>1. Place(k) \in Nat
      BY <1>1, OffsetIs
    <3>2. \A i \in 3 .. 9 : bitAt(Place(k) + i) \in Int /\ bitAt(Place(k) + i) >= 0 /\ bitAt(Place(k) + i) <= 1
      <4> SUFFICES ASSUME NEW i \in 3 .. 9
                   PROVE  bitAt(Place(k) + i) \in Int /\ bitAt(Place(k) + i) >= 0 /\ bitAt(Place(k) + i) <= 1
        OBVIOUS
      <4>1. Place(k) + i \in Nat /\ Place(k) + i > 0
        BY <3>1
      <4>2. bitAt(Place(k) + i) \in {0, 1}
        BY <4>1, BitTyped
      <4> QED
        BY <4>2
    <3>3. /\ bitAt(Place(k) + 3) \in Int /\ bitAt(Place(k) + 4) \in Int /\ bitAt(Place(k) + 5) \in Int
          /\ bitAt(Place(k) + 6) \in Int /\ bitAt(Place(k) + 7) \in Int /\ bitAt(Place(k) + 8) \in Int /\ bitAt(Place(k) + 9) \in Int
      BY <3>2
    <3>4. /\ bitAt(Place(k) + 3) >= 0 /\ bitAt(Place(k) + 4) >= 0 /\ bitAt(Place(k) + 5) >= 0
          /\ bitAt(Place(k) + 6) >= 0 /\ bitAt(Place(k) + 7) >= 0 /\ bitAt(Place(k) + 8) >= 0 /\ bitAt(Place(k) + 9) >= 0
      BY <3>2
    <3>5. /\ bitAt(Place(k) + 3) <= 1 /\ bitAt(Place(k) + 4) <= 1 /\ bitAt(Place(k) + 5) <= 1
          /\ bitAt(Place(k) + 6) <= 1 /\ bitAt(Place(k) + 7) <= 1 /\ bitAt(Place(k) + 8) <= 1 /\ bitAt(Place(k) + 9) <= 1
      BY <3>2
    <3> QED
      BY <3>3, <3>4, <3>5
  <2>6. Nine(Place(k)) = 256 * b + 128 + y
    <3>1. b \in Int
      BY <1>3
    <3>2. Nine(Place(k)) = 256 * bitAt(Place(k) + 1) + 128 * bitAt(Place(k) + 2) + y
      <4>1. \A i \in 1 .. 9 : bitAt(Place(k) + i) \in Int
        <5> SUFFICES ASSUME NEW i \in 1 .. 9 PROVE bitAt(Place(k) + i) \in Int
          OBVIOUS
        <5>1. Place(k) + i \in Nat /\ Place(k) + i > 0
          BY <1>1, OffsetIs
        <5>2. bitAt(Place(k) + i) \in {0, 1}
          BY <5>1, BitTyped
        <5> QED
          BY <5>2
      <4>2. /\ bitAt(Place(k) + 1) \in Int /\ bitAt(Place(k) + 2) \in Int
            /\ bitAt(Place(k) + 3) \in Int /\ bitAt(Place(k) + 4) \in Int /\ bitAt(Place(k) + 5) \in Int
            /\ bitAt(Place(k) + 6) \in Int /\ bitAt(Place(k) + 7) \in Int /\ bitAt(Place(k) + 8) \in Int /\ bitAt(Place(k) + 9) \in Int
        BY <4>1
      <4> QED
        BY <4>2 DEF Nine
    <3> HIDE DEF y
    <3> QED
      BY <3>1, <3>2, <2>3, <2>5
  <2> HIDE DEF y
  <2>7. Value(k) = 512 * v + 256 * b + 128 + y
    <3>1. v \in Int /\ b \in Int
      BY <1>3
    <3> QED
      BY <3>1, <2>4, <2>5, <2>6 DEF Value
  <2>8. Value(k) - k.low \in 0 .. k.rng - 1
    <3>1. PICK x \in Int : x >= 0 /\ x <= 128 /\ k.low = 512 * v + 256 * b + x
      BY <1>4
    <3>2. Value(k) - k.low = 128 + y - x
      <4>1. v \in Int /\ b \in Int
        BY <1>3
      <4> QED
        BY <4>1, <3>1, <2>5, <2>7
    <3> QED
      BY <3>1, <3>2, <2>5
  <2> QED
    BY <2>4, <2>8 DEF Fits
<1> QED
  BY <1>8, <1>9

\* What is written when a code ends tells its two values from all others.
LEMMA EndIs ==
    ASSUME BitsTyped, NEW e, Between(e, 256)
    PROVE  /\ encodeTerminate(e, 1).out \in Seq({0, 1}) /\ Len(encodeTerminate(e, 1).out) = Place(e) + 9
           /\ Prefix(encodeTerminate(e, 1).out) => Fits(e) /\ Offset(e) >= e.rng - 2
<1> DEFINE k == renorm(Closing(e))
<1>1. /\ Between(k, 256) /\ k.rng = 256 /\ Place(k) = Place(e) + 7 /\ k.low % 128 = 0 /\ (Fits(k) => Fits(Closing(e)))
  BY ClosingDone
<1>2. encodeTerminate(e, 1) = Finish(k)
  BY DEF encodeTerminate, Closing
<1> HIDE DEF k
<1>3. /\ Finish(k).out \in Seq({0, 1}) /\ Len(Finish(k).out) = Place(k) + 2 /\ (Prefix(Finish(k).out) => Fits(k))
  BY <1>1, FinishIs
<1>4. Place(e) \in Nat
  BY OffsetIs DEF Between
<1>5. Len(Finish(k).out) = Place(e) + 9
  BY <1>1, <1>3, <1>4
<1> QED
  BY <1>1, <1>2, <1>3, <1>5, ClosingIs
--------------------------------------------------------------------------------
\* From one code to the next: alignment, the place where pcmOffset finds the samples,
\* and the first window of the new code.

Pad(n) == (8 - (n % 8)) % 8

LEMMA AlignedIs ==
    ASSUME NEW s \in Seq({0, 1})
    PROVE  /\ Aligned(s) \in Seq({0, 1}) /\ Len(Aligned(s)) = Len(s) + Pad(Len(s)) /\ Len(Aligned(s)) % 8 = 0
           /\ Len(Aligned(s)) >= Len(s)
           /\ BitsTyped /\ Prefix(Aligned(s)) => Prefix(s)
<1> DEFINE n == Pad(Len(s))
           t == [i \in 1 .. n |-> 0]
<1>1. Len(s) \in Nat /\ n \in Nat /\ (Len(s) + n) % 8 = 0 /\ Len(s) + n >= Len(s)
  BY DEF Pad
<1>2. Aligned(s) = s \o t
  BY DEF Aligned, Pad
<1> HIDE DEF n
<1>3. t \in Seq({0, 1}) /\ Len(t) = n
  <2>1. n \in Nat /\ 0 \in {0, 1}
    BY <1>1
  <2> QED
    BY ONLY <2>1, RepeatIs DEF t
<1> HIDE DEF t
<1>4. s \o t \in Seq({0, 1}) /\ Len(s \o t) = Len(s) + Len(t)
  BY ONLY <1>3, s \in Seq({0, 1}), CatIs
<1>5. BitsTyped /\ Prefix(s \o t) => Prefix(s)
  BY ONLY <1>3, s \in Seq({0, 1}), PrefixCat
<1> QED
  BY <1>1, <1>2, <1>3, <1>4, <1>5 DEF n

LEMMA PcmOffsetIs ==
    ASSUME BitsTyped, NEW e, Between(e, 256), NEW d, Follows(d, e), Offset(e) >= e.rng - 2
    PROVE  /\ Terminated(d)
           /\ 8 * pcmOffset(decodeTerminate(d)) = (Place(e) + 9) + Pad(Place(e) + 9)
           /\ pcmOffset(decodeTerminate(d)) \in Nat
<1>1. e \in Coder /\ e.rng \in Nat /\ e.rng >= 256
  BY BetweenIs
<1>2. Place(e) \in Nat /\ Offset(e) \in Int
  BY <1>1, OffsetIs
<1> DEFINE m == Place(e) + 9
<1>3. PICK r \in Nat : /\ r >= 1 /\ r <= 16 /\ Shows(d.low, d.pos, e, r)
                       /\ d.low = 131072 * Offset(e) + Fetch(m, r)
                       /\ Fetch(m, r) \in Int /\ Fetch(m, r) >= 1 /\ Fetch(m, r) <= 131071
  BY <1>1, FollowsIs
<1>4. d.low \in Int /\ d.pos \in Nat /\ d.rng = e.rng
  BY DEF Follows
<1>5. Terminated(d)
  <2>1. Terminated(d) <=> d.low >= 131072 * (e.rng - 2)
    BY <1>1, <1>4 DEF Terminated, Word, CabacBits
  <2> QED
    BY <2>1, <1>1, <1>2, <1>3
<1> DEFINE x == decodeTerminate(d)
<1>6. x.low = d.low /\ x.pos = d.pos
  BY <1>5 DEF decodeTerminate, Window
<1> HIDE DEF x
<1>7. 8 * d.pos = m + r /\ m \in Nat
  BY <1>2, <1>3 DEF Shows
<1> HIDE DEF m
<1>8. Fetch9(m, r) \in Int /\ Fetch9(m, r) >= 0 /\ Fetch9(m, r) <= 511 /\ (r >= 8 <=> Fetch9(m, r) > 0)
  BY ONLY <1>3, <1>7, BitsTyped, Fetch9Is
<1>9. d.low % 512 = Fetch9(m, r)
  <2>1. \E q \in Int : Fetch(m, r) = 512 * q + Fetch9(m, r)
    BY ONLY <1>3, <1>7, BitsTyped, FetchRest
  <2>2. PICK q \in Int : Fetch(m, r) = 512 * q + Fetch9(m, r)
    BY <2>1
  <2>3. d.low = 512 * (256 * Offset(e) + q) + Fetch9(m, r) /\ 256 * Offset(e) + q \in Int
    BY <2>2, <1>2, <1>3, <1>8
  <2> QED
    BY <2>3, <1>8
<1>10. d.low % 2 = IF r = 16 THEN 1 ELSE 0
  <2>1. \E q \in Int : Fetch(m, r) = 512 * q + Fetch9(m, r)
    BY ONLY <1>3, <1>7, BitsTyped, FetchRest
  <2>2. PICK q \in Int : Fetch(m, r) = 512 * q + Fetch9(m, r)
    BY <2>1
  <2>3. \E i \in Int : Fetch9(m, r) = 2 * i + Had(m, r, 17)
    BY ONLY <1>3, <1>7, BitsTyped, Fetch9Last
  <2>4. PICK i \in Int : Fetch9(m, r) = 2 * i + Had(m, r, 17)
    BY <2>3
  <2>5. Had(m, r, 17) = IF r = 16 THEN 1 ELSE 0
    BY <1>3 DEF Had
  <2>6. d.low = 2 * (65536 * Offset(e) + 256 * q + i) + Had(m, r, 17) /\ 65536 * Offset(e) + 256 * q + i \in Int
    BY <2>2, <2>4, <2>5, <1>2, <1>3
  <2> QED
    BY <2>5, <2>6
<1>11. 2 ^ 9 = 512
  OBVIOUS
<1>12. pcmOffset(x) = d.pos - (IF r = 16 THEN 1 ELSE 0) - (IF r >= 8 THEN 1 ELSE 0)
  <2>1. (d.low % 2 ^ 9 # 0) <=> r >= 8
    BY <1>8, <1>9, <1>11
  <2> QED
    BY <2>1, <1>6, <1>10, <1>4 DEF pcmOffset
<1>13. 8 * pcmOffset(x) = m + Pad(m)
  <2>1. CASE r = 16
    <3>1. m % 8 = 0 /\ 8 * pcmOffset(x) = m
      BY <2>1, <1>4, <1>7, <1>12
    <3> QED
      BY <3>1, <1>7 DEF Pad
  <2>2. CASE r >= 8 /\ r # 16
    <3>1. 8 * pcmOffset(x) = m + (r - 8)
      BY <2>2, <1>3, <1>4, <1>7, <1>12
    <3>2. r - 8 \in 0 .. 7 /\ (m + (r - 8)) % 8 = 0
      BY <2>2, <1>3, <1>4, <1>7
    <3>3. Pad(m) = r - 8
      BY <3>2, <1>7 DEF Pad
    <3> QED
      BY <3>1, <3>3
  <2>3. CASE r < 8
    <3>1. 8 * pcmOffset(x) = m + r
      BY <2>3, <1>3, <1>4, <1>7, <1>12
    <3>2. r \in 0 .. 7 /\ (m + r) % 8 = 0
      BY <2>3, <1>3, <1>4, <1>7
    <3>3. Pad(m) = r
      BY <3>2, <1>7 DEF Pad
    <3> QED
      BY <3>1, <3>3
  <2> QED
    BY <2>1, <2>2, <2>3, <1>3
<1>14. pcmOffset(x) \in Nat
  <2>1. pcmOffset(x) \in Int
    BY <1>4, <1>12
  <2>2. Pad(m) \in Nat
    BY <1>7 DEF Pad
  <2> QED
    BY <2>1, <2>2, <1>7, <1>13
<1> QED
  BY <1>5, <1>13, <1>14 DEF x, m

\* The arithmetic as reinit leaves it, with s written before it.
Fresh(s) == [low |-> 0, rng |-> 510, outstanding |-> 0, firstBit |-> TRUE, out |-> s]

LEMMA NineInt == ASSUME BitsTyped, NEW n \in Nat PROVE Nine(n) \in Int
<1>1. Nine(n) \in 0 .. 511
  BY NineStep
<1> QED
  BY <1>1

LEMMA FreshIs ==
    ASSUME NEW s \in Seq({0, 1}), BitsTyped
    PROVE  Between(Fresh(s), 256) /\ Place(Fresh(s)) = Len(s) /\ Offset(Fresh(s)) = Nine(Len(s))
<1> DEFINE e == Fresh(s)
<1>1. e \in Coder /\ e.low = 0 /\ e.rng = 510 /\ e.outstanding = 0 /\ e.firstBit = TRUE /\ e.out = s
  BY DEF Fresh, Coder
<1>2. Len(s) \in Nat
  OBVIOUS
<1> HIDE DEF e
<1>3. Between(e, 256)
  BY <1>1 DEF Between
<1>4. Place(e) = Len(s)
  BY <1>1, <1>2 DEF Place
<1>5. Nine(Len(s)) \in Int
  BY ONLY <1>2, BitsTyped, NineInt
<1>6. Offset(e) = Nine(Len(s))
  <2>1. Undecided(e) = 0
    BY <1>1 DEF Undecided
  <2>2. Value(e) = Nine(Len(s))
    BY <2>1, <1>4, <1>5 DEF Value
  <2> QED
    BY <2>2, <1>1, <1>5 DEF Offset
<1> QED
  BY <1>3, <1>4, <1>6 DEF e

LEMMA InitFollows ==
    ASSUME NEW s \in Seq({0, 1}), BitsTyped, NEW off \in Nat, Len(s) = 8 * off
    PROVE  /\ Follows(init(off), Fresh(s))
           /\ Len(bits) >= Len(s) + 9 /\ Len(bits) % 8 = 0 => CanInit(off)
<1>1. Place(Fresh(s)) = 8 * off /\ Offset(Fresh(s)) = Nine(8 * off)
  BY FreshIs
<1>2. init(off).low = 131072 * Nine(8 * off) + Fetch(8 * off + 9, 7)
  BY InitLow
<1>3. init(off).pos = off + 2 /\ init(off).rng = 510 /\ init(off) = Window(init(off).low, init(off).rng, init(off).pos)
  BY DEF init, Window
<1>4. 8 * (off + 2) = 8 * off + 9 + 7
  OBVIOUS
<1>5. Shows(init(off).low, init(off).pos, Fresh(s), 7)
  BY <1>1, <1>2, <1>3, <1>4 DEF Shows
<1>6. init(off).low \in Int
  <2>1. 8 * off \in Nat /\ 8 * off + 9 \in Nat /\ 7 \in Nat /\ 7 <= 16
    OBVIOUS
  <2>2. Fetch(8 * off + 9, 7) \in Int
    BY ONLY <2>1, BitsTyped, FetchInt
  <2>3. Nine(8 * off) \in Int
    BY ONLY <2>1, BitsTyped, NineInt
  <2> QED
    BY <2>2, <2>3, <1>2
<1>7. Fresh(s).rng = 510
  BY DEF Fresh
<1>8. 7 \in Nat /\ 7 >= 1 /\ 7 <= 16 /\ off + 2 \in Nat
  OBVIOUS
<1>9. Follows(init(off), Fresh(s))
  BY <1>3, <1>5, <1>6, <1>7, <1>8 DEF Follows
<1>10. ASSUME Len(bits) >= Len(s) + 9, Len(bits) % 8 = 0 PROVE CanInit(off)
  <2>1. Len(bits) \in Nat
    BY DEF BitsTyped
  <2>2. Len(bits) >= 8 * off + 16
    BY <2>1, <1>10
  <2> QED
    BY <2>1, <2>2 DEF CanInit, Bytes
<1> QED
  BY <1>9, <1>10
--------------------------------------------------------------------------------
\* One call: what the encoder has before it, what it has after it.

LEMMA LpsIs ==
    ASSUME TableAssumption, NEW s \in 0 .. 127, NEW rng \in Nat
    PROVE  /\ lpsRange(Quarter(rng), s) \in Int /\ lpsRange(Quarter(rng), s) >= 2 /\ lpsRange(Quarter(rng), s) <= 254
<1>1. s \div 2 + 1 \in 1 .. 64
  OBVIOUS
<1>2. Quarter(rng) + 1 \in 1 .. 4
  BY DEF Quarter
<1>3. rangeTabLPS[s \div 2 + 1][Quarter(rng) + 1] \in 2 .. 254
  BY <1>1, <1>2 DEF TableAssumption
<1> QED
  BY <1>3 DEF lpsRange

LEMMA StateIs ==
    ASSUME TableAssumption, NEW s \in 0 .. 127, NEW mps \in BOOLEAN
    PROVE  transState(Signed(s, mps)) \in 0 .. 127
<1>1. CASE mps
  <2>1. Signed(s, mps) = s /\ s >= 0
    BY <1>1 DEF Signed
  <2>2. transState(s) = IF s \div 2 >= 62 THEN s ELSE s + 2
    BY <2>1 DEF transState
  <2> QED
    BY <2>1, <2>2
<1>2. CASE ~mps
  <2> DEFINE n == -s - 1
  <2>1. Signed(s, mps) = n /\ ~(n >= 0) /\ -n - 1 = s
    BY <1>2 DEF Signed
  <2>2. transIdxLPS[s \div 2 + 1] \in 0 .. 63
    <3>1. s \div 2 + 1 \in 1 .. 64
      OBVIOUS
    <3> QED
      BY <3>1 DEF TableAssumption
  <2> HIDE DEF n
  <2>3. transState(n) = 2 * transIdxLPS[s \div 2 + 1] + (IF s \div 2 = 0 THEN 1 - (s % 2) ELSE s % 2)
    BY <2>1 DEF transState
  <2> QED
    BY <2>1, <2>2, <2>3
<1> QED
  BY <1>1, <1>2

LEMMA BinIs ==
    ASSUME BitsTyped, TableAssumption, NEW e, Between(e, 256), NEW s \in 0 .. 127, NEW bin
    PROVE  /\ Between(encodeBin(e, s, bin), 256) /\ Place(encodeBin(e, s, bin)) >= Place(e)
           /\ Fits(encodeBin(e, s, bin)) => Fits(e)
<1> DEFINE lps == lpsRange(Quarter(e.rng), s)
           mps == MostProbable(s, bin)
           n == Narrow(e, mps, lps)
<1>1. e.rng \in Nat
  BY BetweenIs
<1>2. lps \in Int /\ lps >= 2 /\ lps <= 254
  BY <1>1, LpsIs
<1>3. mps \in BOOLEAN
  BY DEF MostProbable
<1>4. encodeBin(e, s, bin) = renorm(n)
  BY DEF encodeBin
<1> HIDE DEF lps, mps
<1>5. Between(n, 2) /\ Place(n) = Place(e) /\ (Fits(n) => Fits(e))
  BY <1>2, <1>3, NarrowIs
<1> HIDE DEF n
<1>6. Between(renorm(n), 256) /\ Place(renorm(n)) >= Place(n) /\ (Fits(renorm(n)) => Fits(n))
  BY <1>5, RenormIs
<1> QED
  BY <1>4, <1>5, <1>6

LEMMA TerminateIs ==
    ASSUME BitsTyped, NEW e, Between(e, 256)
    PROVE  /\ Between(encodeTerminate(e, 0), 256) /\ Place(encodeTerminate(e, 0)) >= Place(e)
           /\ Fits(encodeTerminate(e, 0)) => Fits(e)
<1> DEFINE t == Interval(e, e.low, e.rng - 2)
<1>1. Between(t, 2) /\ Place(t) = Place(e) /\ (Fits(t) => Fits(e))
  BY KeptIs
<1>2. encodeTerminate(e, 0) = renorm(t)
  BY DEF encodeTerminate
<1> HIDE DEF t
<1>3. Between(renorm(t), 256) /\ Place(renorm(t)) >= Place(t) /\ (Fits(renorm(t)) => Fits(t))
  BY <1>1, RenormIs
<1> QED
  BY <1>1, <1>2, <1>3

\* a and b are the encoder's arithmetic and contexts before and after a call.
Ended1(e) == Aligned(encodeTerminate(e, 1).out)
Trained(ctx, call) ==
    IF call.op = "bin" THEN [ctx EXCEPT ![call.ctx] = transState(Signed(ctx[call.ctx], MostProbable(ctx[call.ctx], call.bin)))] ELSE ctx
Link(samples, a, call, b) ==
    /\ b.ctx = Trained(a.ctx, call)
    /\ call.op = "bin" => b.e = encodeBin(a.e, a.ctx[call.ctx], call.bin)
    /\ call.op = "bypass" => b.e = encodeBypass(a.e, call.bin)
    /\ call.op = "terminate" => b.e = encodeTerminate(a.e, 0)
    /\ call.op = "pcm" => b.e = Fresh(Ended1(a.e) \o samples)
    /\ call.op = "end" => b.e.out = Ended1(a.e)
CallTyped(contexts, call) ==
    /\ call.op \in Ops /\ call.bin \in {0, 1}
    /\ call.op = "bin" => call.ctx \in DOMAIN contexts
    /\ call.op = "terminate" => call.bin = 0
    /\ call.op \in {"pcm", "end"} => call.bin = 1
Whole(a, contexts) == Between(a.e, 256) /\ a.ctx \in [DOMAIN contexts -> 0 .. 127]
Room(e) == Fits(e) /\ Len(bits) >= Place(e) + 9

LEMMA EndedIs ==
    ASSUME BitsTyped, NEW e, Between(e, 256)
    PROVE  /\ Ended1(e) \in Seq({0, 1}) /\ Len(Ended1(e)) = (Place(e) + 9) + Pad(Place(e) + 9)
           /\ Len(Ended1(e)) % 8 = 0 /\ Len(Ended1(e)) >= Place(e) + 9 /\ Place(e) \in Nat
           /\ Prefix(Ended1(e)) => Room(e) /\ Offset(e) >= e.rng - 2
<1> DEFINE s == encodeTerminate(e, 1).out
<1>1. s \in Seq({0, 1}) /\ Len(s) = Place(e) + 9 /\ (Prefix(s) => Fits(e) /\ Offset(e) >= e.rng - 2)
  BY EndIs
<1>2. Ended1(e) = Aligned(s)
  BY DEF Ended1
<1> HIDE DEF s
<1>3. /\ Aligned(s) \in Seq({0, 1}) /\ Len(Aligned(s)) = Len(s) + Pad(Len(s)) /\ Len(Aligned(s)) % 8 = 0
      /\ Len(Aligned(s)) >= Len(s)
      /\ Prefix(Aligned(s)) => Prefix(s)
  BY <1>1, AlignedIs
<1>4. Prefix(s) => Len(s) <= Len(bits)
  BY DEF Prefix
<1>5. Place(e) \in Nat
  BY OffsetIs DEF Between
<1>6. Prefix(s) => Len(bits) >= Place(e) + 9
  <2>1. Len(bits) \in Nat
    BY DEF BitsTyped
  <2> QED
    BY <2>1, <1>1, <1>4, <1>5
<1>7. Prefix(Aligned(s)) => Room(e) /\ Offset(e) >= e.rng - 2
  BY <1>1, <1>3, <1>6 DEF Room
<1> QED
  BY <1>1, <1>2, <1>3, <1>5, <1>7

LEMMA LinkForward ==
    ASSUME BitsTyped, TableAssumption, NEW contexts, NEW samples \in Seq({0, 1}), NEW call, CallTyped(contexts, call),
           NEW a, Whole(a, contexts), NEW b, Link(samples, a, call, b)
    PROVE  /\ b.ctx \in [DOMAIN contexts -> 0 .. 127] /\ b.e.out \in Seq({0, 1})
           /\ call.op # "end" => Whole(b, contexts)
<1>1. Between(a.e, 256) /\ a.ctx \in [DOMAIN contexts -> 0 .. 127]
  BY DEF Whole
<1>2. b.ctx \in [DOMAIN contexts -> 0 .. 127]
  <2>1. CASE call.op = "bin"
    <3> DEFINE s == a.ctx[call.ctx] v == transState(Signed(s, MostProbable(s, call.bin)))
    <3>1. call.ctx \in DOMAIN contexts
      BY <2>1 DEF CallTyped
    <3>2. s \in 0 .. 127 /\ MostProbable(s, call.bin) \in BOOLEAN
      BY <3>1, <1>1 DEF MostProbable
    <3> HIDE DEF s
    <3>3. v \in 0 .. 127
      BY <3>2, StateIs
    <3> HIDE DEF v
    <3>4. b.ctx = [a.ctx EXCEPT ![call.ctx] = v]
      BY <2>1 DEF Link, Trained, v, s
    <3> QED
      BY <3>1, <3>3, <3>4, <1>1
  <2>2. CASE call.op # "bin"
    BY <2>2, <1>1 DEF Link, Trained
  <2> QED
    BY <2>1, <2>2
<1>3. CASE call.op = "bin"
  <2>1. call.ctx \in DOMAIN contexts
    BY <1>3 DEF CallTyped
  <2>2. a.ctx[call.ctx] \in 0 .. 127
    BY <2>1, <1>1
  <2>3. b.e = encodeBin(a.e, a.ctx[call.ctx], call.bin)
    BY <1>3 DEF Link
  <2>4. Between(b.e, 256)
    BY <2>2, <2>3, <1>1, BinIs
  <2> QED
    BY <2>4, <1>2 DEF Whole, Between, Coder
<1>4. CASE call.op = "bypass"
  <2>1. b.e = encodeBypass(a.e, call.bin) /\ call.bin \in Int /\ (call.bin = 0 \/ call.bin = 1)
    BY <1>4 DEF Link, CallTyped
  <2>2. Between(b.e, 256)
    BY <2>1, <1>1, BypassIs
  <2> QED
    BY <2>2, <1>2 DEF Whole, Between, Coder
<1>5. CASE call.op = "terminate"
  <2>1. b.e = encodeTerminate(a.e, 0)
    BY <1>5 DEF Link
  <2>2. Between(b.e, 256)
    BY <2>1, <1>1, TerminateIs
  <2> QED
    BY <2>2, <1>2 DEF Whole, Between, Coder
<1>6. Ended1(a.e) \in Seq({0, 1})
  BY <1>1, EndedIs
<1>7. CASE call.op = "pcm"
  <2>1. b.e = Fresh(Ended1(a.e) \o samples)
    BY <1>7 DEF Link
  <2>2. Ended1(a.e) \o samples \in Seq({0, 1})
    BY <1>6, CatIs
  <2>3. Between(b.e, 256)
    BY <2>1, <2>2, FreshIs
  <2> QED
    BY <2>3, <1>2 DEF Whole, Between, Coder
<1>8. CASE call.op = "end"
  BY <1>2, <1>6, <1>8 DEF Link
<1> QED
  BY <1>3, <1>4, <1>5, <1>7, <1>8 DEF CallTyped, Ops

LEMMA RoomBack ==
    ASSUME BitsTyped, NEW e, e \in Coder, NEW f, f \in Coder, Place(f) >= Place(e), Fits(f) => Fits(e), Room(f)
    PROVE  Room(e)
<1>1. Place(e) \in Nat /\ Place(f) \in Nat /\ Len(bits) \in Nat
  BY OffsetIs DEF BitsTyped
<1> QED
  BY <1>1 DEF Room

\* What is right after a call was right before it.
LEMMA LinkBack ==
    ASSUME BitsTyped, TableAssumption, NEW contexts, NEW samples \in Seq({0, 1}), NEW call, CallTyped(contexts, call),
           NEW a, Whole(a, contexts), NEW b, Link(samples, a, call, b),
           call.op # "end" => Room(b.e), Prefix(b.e.out)
    PROVE  Room(a.e)
<1>1. Between(a.e, 256) /\ a.ctx \in [DOMAIN contexts -> 0 .. 127] /\ a.e \in Coder
  BY DEF Whole, Between
<1>2. call.op # "end" => b.e \in Coder
  BY LinkForward DEF Whole, Between
<1>3. Place(a.e) \in Nat
  BY <1>1, OffsetIs
<1>4. CASE call.op = "bin"
  <2>1. call.ctx \in DOMAIN contexts
    BY <1>4 DEF CallTyped
  <2>2. a.ctx[call.ctx] \in 0 .. 127
    BY <2>1, <1>1
  <2>3. b.e = encodeBin(a.e, a.ctx[call.ctx], call.bin)
    BY <1>4 DEF Link
  <2>4. Place(b.e) >= Place(a.e) /\ (Fits(b.e) => Fits(a.e))
    <3> DEFINE e == a.e s == a.ctx[call.ctx] bin == call.bin
    <3>1. Between(e, 256) /\ s \in 0 .. 127
      BY <2>2, <1>1
    <3> HIDE DEF e, s, bin
    <3>2. Place(encodeBin(e, s, bin)) >= Place(e) /\ (Fits(encodeBin(e, s, bin)) => Fits(e))
      BY ONLY <3>1, BitsTyped, TableAssumption, BinIs
    <3> QED
      BY <3>2, <2>3 DEF e, s, bin
  <2> QED
    BY <2>4, <1>1, <1>2, <1>4, RoomBack
<1>5. CASE call.op = "bypass"
  <2>1. b.e = encodeBypass(a.e, call.bin) /\ call.bin \in Int /\ (call.bin = 0 \/ call.bin = 1)
    BY <1>5 DEF Link, CallTyped
  <2>2. Place(b.e) = Place(a.e) + 1 /\ (Fits(b.e) => Fits(a.e))
    BY <2>1, <1>1, BypassIs
  <2>3. Place(b.e) >= Place(a.e)
    BY <2>2, <1>3
  <2> QED
    BY <2>2, <2>3, <1>1, <1>2, <1>5, RoomBack
<1>6. CASE call.op = "terminate"
  <2>1. b.e = encodeTerminate(a.e, 0)
    BY <1>6 DEF Link
  <2>2. Place(b.e) >= Place(a.e) /\ (Fits(b.e) => Fits(a.e))
    BY <2>1, <1>1, TerminateIs
  <2> QED
    BY <2>2, <1>1, <1>2, <1>6, RoomBack
<1>7. Ended1(a.e) \in Seq({0, 1}) /\ (Prefix(Ended1(a.e)) => Room(a.e))
  BY <1>1, EndedIs
<1>8. CASE call.op = "pcm"
  <2>1. b.e = Fresh(Ended1(a.e) \o samples)
    BY <1>8 DEF Link
  <2>2. Prefix(Ended1(a.e) \o samples)
    BY <2>1 DEF Fresh
  <2>3. Prefix(Ended1(a.e))
    BY <2>2, <1>7, PrefixCat
  <2> QED
    BY <2>3, <1>7
<1>9. CASE call.op = "end"
  BY <1>7, <1>9 DEF Link
<1> QED
  BY <1>4, <1>5, <1>6, <1>8, <1>9 DEF CallTyped, Ops
--------------------------------------------------------------------------------
\* One call at the decoder.

Chosen(a, call, d, s, lps) == s = a.ctx[call.ctx] /\ lps = lpsRange(Quarter(d.rng), s)
LEMMA HeardBin ==
    ASSUME BitsTyped, TableAssumption, NEW contexts, NEW samples, NEW call, CallTyped(contexts, call), call.op = "bin",
           NEW a, Whole(a, contexts), NEW b, Link(samples, a, call, b), NEW d, Follows(d, a.e), Room(b.e),
           NEW s, NEW lps, Chosen(a, call, d, s, lps)
    PROVE  /\ (IF Less(d, lps) THEN 1 - (s % 2) ELSE s % 2) = call.bin
           /\ [a.ctx EXCEPT ![call.ctx] = transState(Signed(s, ~Less(d, lps)))] = b.ctx
           /\ Follows(refillShifted(decodeBin(d, lps)), b.e)
<1> DEFINE e == a.e bin == call.bin
           mps == MostProbable(s, bin)
           n == Narrow(e, mps, lps)
<1>0. s = a.ctx[call.ctx] /\ lps = lpsRange(Quarter(d.rng), s)
  BY DEF Chosen
<1>1. Between(e, 256) /\ a.ctx \in [DOMAIN contexts -> 0 .. 127] /\ call.ctx \in DOMAIN contexts /\ bin \in {0, 1}
  BY DEF Whole, CallTyped
<1>2. s \in 0 .. 127 /\ mps \in BOOLEAN /\ (mps <=> bin = s % 2)
  BY <1>0, <1>1 DEF MostProbable
<1>3. d.rng = e.rng /\ e.rng \in Nat
  BY <1>1, BetweenIs DEF Follows
<1>4. lps \in Int /\ lps >= 2 /\ lps <= 254
  BY <1>0, <1>2, <1>3, LpsIs
<1>5. b.e = renorm(n)
  BY <1>0, <1>3 DEF Link, encodeBin
<1>6. Fits(renorm(n)) /\ Follows(d, e)
  BY <1>5 DEF Room
<1>7. b.ctx = [a.ctx EXCEPT ![call.ctx] = transState(Signed(s, mps))]
  BY <1>0 DEF Link, Trained
<1> HIDE DEF e, bin, mps
<1>8. /\ mps => ~Less(d, lps)
      /\ ~mps => Less(d, lps)
      /\ Follows(refillShifted(decodeBin(d, lps)), renorm(n))
  BY ONLY <1>1, <1>2, <1>4, <1>6, BitsTyped, DecodedBin
<1> HIDE DEF n
<1>9. (IF Less(d, lps) THEN 1 - (s % 2) ELSE s % 2) = bin
  <2>1. s % 2 \in {0, 1}
    BY <1>2
  <2> QED
    BY <2>1, <1>1, <1>2, <1>8
<1>10. Signed(s, ~Less(d, lps)) = Signed(s, mps)
  BY <1>2, <1>8 DEF Signed
<1> QED
  BY <1>5, <1>7, <1>8, <1>9, <1>10 DEF bin

LEMMA HeardBypass ==
    ASSUME BitsTyped, NEW contexts, NEW samples, NEW call, CallTyped(contexts, call), call.op = "bypass",
           NEW a, Whole(a, contexts), NEW b, Link(samples, a, call, b), NEW d, Follows(d, a.e), Room(b.e)
    PROVE  /\ (IF Doubled(d).low < Doubled(d).rng * Word THEN 0 ELSE 1) = call.bin
           /\ Follows(decodeBypass(Doubled(d)), b.e)
<1>1. Between(a.e, 256) /\ call.bin \in Int /\ (call.bin = 0 \/ call.bin = 1)
  BY DEF Whole, CallTyped
<1>2. b.e = encodeBypass(a.e, call.bin) /\ Fits(b.e)
  BY DEF Link, Room
<1>3. /\ Doubled(d).low < Doubled(d).rng * Word <=> call.bin = 0
      /\ Follows(decodeBypass(Doubled(d)), encodeBypass(a.e, call.bin))
  BY <1>1, <1>2, DecodedBypass
<1> QED
  BY <1>1, <1>2, <1>3

LEMMA HeardTerminate ==
    ASSUME BitsTyped, NEW contexts, NEW samples, NEW call, CallTyped(contexts, call), call.op = "terminate",
           NEW a, Whole(a, contexts), NEW b, Link(samples, a, call, b), NEW d, Follows(d, a.e), Room(b.e)
    PROVE  /\ (IF Terminated(d) THEN 1 ELSE 0) = call.bin
           /\ Follows(decodeTerminate(d), b.e)
<1>1. Between(a.e, 256) /\ call.bin = 0
  BY DEF Whole, CallTyped
<1>2. b.e = encodeTerminate(a.e, 0) /\ Fits(b.e)
  BY DEF Link, Room
<1> QED
  BY <1>1, <1>2, DecodedTerminate

LEMMA HeardEnd ==
    ASSUME BitsTyped, NEW contexts, NEW samples, NEW call, CallTyped(contexts, call), call.op = "end",
           NEW a, Whole(a, contexts), NEW b, Link(samples, a, call, b), NEW d, Follows(d, a.e), Prefix(b.e.out)
    PROVE  (IF Terminated(d) THEN 1 ELSE 0) = call.bin
<1>1. Between(a.e, 256) /\ call.bin = 1
  BY DEF Whole, CallTyped
<1>2. Prefix(Ended1(a.e))
  BY DEF Link
<1>3. Offset(a.e) >= a.e.rng - 2
  BY <1>1, <1>2, EndedIs
<1>4. Terminated(d)
  BY <1>1, <1>3, PcmOffsetIs
<1> QED
  BY <1>1, <1>4

LEMMA SubSeqIs ==
    ASSUME BitsTyped, NEW t \in Seq({0, 1}), NEW k \in Nat, NEW n \in Nat, Len(t) = n, k + n <= Len(bits),
           \A i \in 1 .. n : bitAt(k + i) = t[i]
    PROVE  SubSeq(bits, k + 1, k + n) = t
<1> DEFINE u == SubSeq(bits, k + 1, k + n)
<1>1. Len(bits) \in Nat /\ bits \in Seq({0, 1})
  BY DEF BitsTyped
<1>2. u \in Seq({0, 1}) /\ Len(u) = n /\ \A i \in 1 .. n : u[i] = bits[k + i]
  <2>1. k + 1 \in 1 .. Len(bits) + 1 /\ k + n \in (k + 1) - 1 .. Len(bits) /\ (k + n) - (k + 1) + 1 = n
    BY <1>1
  <2>2. \A i \in 1 .. n : (k + 1) + i - 1 = k + i
    OBVIOUS
  <2>3. u \in Seq({0, 1}) /\ Len(u) = (k + n) - (k + 1) + 1 /\ \A i \in 1 .. (k + n) - (k + 1) + 1 : u[i] = bits[(k + 1) + i - 1]
    BY <1>1, <2>1, SubSeqProperties
  <2> QED
    BY <2>1, <2>2, <2>3
<1> HIDE DEF u
<1>3. \A i \in 1 .. n : bits[k + i] = t[i]
  <2> SUFFICES ASSUME NEW i \in 1 .. n PROVE bits[k + i] = t[i]
    OBVIOUS
  <2>1. k + i <= Len(bits)
    BY <1>1
  <2> QED
    BY <2>1 DEF bitAt
<1>4. u = t
  BY <1>2, <1>3, SeqEqual
<1> QED
  BY <1>4 DEF u

WholeBytes(samples) == samples \in Seq({0, 1}) /\ Len(samples) % 8 = 0 /\ Len(bits) % 8 = 0
Found(d, samples, off, m) == off = pcmOffset(decodeTerminate(d)) /\ m = off + Len(samples) \div 8
LEMMA HeardPcm ==
    ASSUME BitsTyped, NEW contexts, NEW samples, WholeBytes(samples),
           NEW call, CallTyped(contexts, call), call.op = "pcm",
           NEW a, Whole(a, contexts), NEW b, Link(samples, a, call, b), NEW d, Follows(d, a.e), Room(b.e),
           NEW off, NEW m, Found(d, samples, off, m)
    PROVE  /\ (IF Terminated(d) THEN 1 ELSE 0) = call.bin
           /\ SubSeq(bits, 8 * off + 1, 8 * m) = samples
           /\ ~(off < 0) /\ ~(m > Bytes) /\ CanInit(m)
           /\ Follows(init(m), b.e)
<1> DEFINE s == Ended1(a.e) t == s \o samples
<1>0. off = pcmOffset(decodeTerminate(d)) /\ m = off + Len(samples) \div 8
      /\ samples \in Seq({0, 1}) /\ Len(samples) % 8 = 0 /\ Len(bits) % 8 = 0
  BY DEF Found, WholeBytes
<1>1. Between(a.e, 256) /\ call.bin = 1
  BY DEF Whole, CallTyped
<1>2. b.e = Fresh(t) /\ Prefix(t)
  <2>1. b.e = Fresh(t)
    BY DEF Link
  <2> QED
    BY <2>1 DEF Room, Fits, Held, Fresh
<1>3. /\ s \in Seq({0, 1}) /\ Len(s) = (Place(a.e) + 9) + Pad(Place(a.e) + 9) /\ Len(s) % 8 = 0
      /\ (Prefix(s) => Offset(a.e) >= a.e.rng - 2)
  BY <1>1, EndedIs
<1> HIDE DEF s
<1>4. t \in Seq({0, 1}) /\ Len(t) = Len(s) + Len(samples)
  BY <1>0, <1>3, CatIs
<1>5. Prefix(s) /\ Len(s) + Len(samples) <= Len(bits) /\ \A i \in 1 .. Len(samples) : bitAt(Len(s) + i) = samples[i]
  BY <1>0, <1>2, <1>3, PrefixCat
<1> HIDE DEF t
<1>6. Terminated(d) /\ 8 * off = Len(s) /\ off \in Nat
  BY <1>0, <1>1, <1>3, <1>5, PcmOffsetIs
<1>7. Len(samples) \in Nat /\ Len(bits) \in Nat /\ Len(s) \in Nat
  BY <1>0, <1>3 DEF BitsTyped
<1>8. m \in Nat /\ 8 * m = Len(s) + Len(samples) /\ 8 * m = Len(t)
  <2> DEFINE q == Len(samples) \div 8
  <2>1. Len(samples) = 8 * q /\ q \in Nat /\ m = off + q
    BY <1>0, <1>7
  <2> HIDE DEF q
  <2> QED
    BY ONLY <2>1, <1>4, <1>6, <1>7
<1>9. SubSeq(bits, 8 * off + 1, 8 * m) = samples
  <2>1. SubSeq(bits, Len(s) + 1, Len(s) + Len(samples)) = samples
    BY <1>0, <1>5, <1>7, SubSeqIs
  <2> QED
    BY <2>1, <1>6, <1>8
<1>10. Place(Fresh(t)) = Len(t)
  BY <1>4, FreshIs
<1>11. Len(bits) >= Len(t) + 9
  BY <1>2, <1>10 DEF Room
<1>12. Follows(init(m), Fresh(t)) /\ CanInit(m)
  BY <1>0, <1>4, <1>8, <1>11, InitFollows
<1>13. ~(m > Bytes)
  BY <1>7, <1>8, <1>5 DEF Bytes
<1> QED
  <2>1. ~(off < 0)
    BY <1>6
  <2>2. (IF Terminated(d) THEN 1 ELSE 0) = call.bin
    BY <1>1, <1>6
  <2>3. Follows(init(m), b.e)
    BY <1>2, <1>12
  <2> QED
    BY <2>1, <2>2, <2>3, <1>9, <1>12, <1>13
--------------------------------------------------------------------------------
\* All calls so far: h[k] is the encoder's arithmetic and contexts after k of them.

Calls == Len(prog.calls)
Here == [e |-> Begun, ctx |-> wstate]
History(h) ==
    /\ h[0].e = Fresh(<<>>) /\ h[0].ctx = prog.contexts
    /\ h[nput] = Here
    /\ \A k \in 1 .. nput : Link(prog.samples, h[k - 1], prog.calls[k], h[k])
    /\ \A k \in 0 .. nput : k < Calls => Whole(h[k], prog.contexts)

LEMMA ProgramIs ==
    ASSUME ProgramAssumption, prog \in Programs
    PROVE  /\ Calls \in Nat /\ Calls > 0 /\ prog.samples \in Seq({0, 1}) /\ Len(prog.samples) % 8 = 0
           /\ prog.contexts \in [DOMAIN prog.contexts -> 0 .. 127]
           /\ \A k \in 1 .. Calls : /\ CallTyped(prog.contexts, prog.calls[k])
                                    /\ prog.calls[k].op = "end" <=> k = Calls
<1> DEFINE p == prog
<1>1. /\ p.calls \in Seq([op : Ops, ctx : Nat, bin : {0, 1}]) /\ p.calls # <<>>
      /\ p.contexts \in Seq(0 .. 127)
      /\ p.samples \in Seq({0, 1}) /\ Len(p.samples) % 8 = 0
      /\ \A k \in DOMAIN p.calls :
            /\ p.calls[k].op = "bin" => p.calls[k].ctx \in DOMAIN p.contexts
            /\ p.calls[k].op = "terminate" => p.calls[k].bin = 0
            /\ p.calls[k].op \in {"pcm", "end"} => p.calls[k].bin = 1
            /\ p.calls[k].op = "end" <=> k = Len(p.calls)
  BY DEF ProgramAssumption
<1> DEFINE s == p.calls ctxs == p.contexts
<1>2. Len(s) \in Nat /\ DOMAIN s = 1 .. Len(s) /\ \A k \in 1 .. Len(s) : s[k] \in [op : Ops, ctx : Nat, bin : {0, 1}]
  BY <1>1, LenProperties, ElementOfSeq
<1>3. Len(s) > 0
  BY <1>1, <1>2, EmptySeq
<1>4. ctxs \in [1 .. Len(ctxs) -> 0 .. 127] /\ DOMAIN ctxs = 1 .. Len(ctxs)
  BY <1>1, LenProperties
<1>5. ctxs \in [DOMAIN ctxs -> 0 .. 127]
  BY <1>4
<1>6. ASSUME NEW k \in 1 .. Calls PROVE CallTyped(p.contexts, p.calls[k]) /\ (p.calls[k].op = "end" <=> k = Calls)
  <2>1. k \in DOMAIN s /\ s[k] \in [op : Ops, ctx : Nat, bin : {0, 1}]
    BY <1>2 DEF Calls
  <2> QED
    BY <2>1, <1>1 DEF CallTyped, Calls
<1> QED
  BY <1>1, <1>2, <1>3, <1>5, <1>6 DEF Calls

LEMMA Least == ASSUME NEW T \in SUBSET Nat, T # {} PROVE \E k \in T : \A n \in T : k <= n
<1>1. IsWellFoundedOn(OpToRel(<, Nat), Nat)
  BY NatLessThanWellFounded
<1>2. PICK k \in T : \A n \in T : <<n, k>> \notin OpToRel(<, Nat)
  BY <1>1, WFMin
<1>3. \A n \in T : ~(n < k)
  BY <1>2 DEF OpToRel
<1> QED
  BY <1>3

\* When everything is written, what every call left fits it.
LEMMA Backward ==
    ASSUME TableAssumption, ProgramAssumption, prog \in Programs, BitsTyped, Written, NEW h, History(h)
    PROVE  \A k \in 0 .. Calls : Prefix(h[k].e.out) /\ (k < Calls => Room(h[k].e))
<1> DEFINE n == Calls
           Good(k) == Prefix(h[k].e.out) /\ (k < n => Room(h[k].e))
           T == {j \in Nat : j <= n /\ ~Good(n - j)}
<1>1. /\ n \in Nat /\ prog.samples \in Seq({0, 1})
      /\ \A k \in 1 .. n : CallTyped(prog.contexts, prog.calls[k]) /\ (prog.calls[k].op = "end" <=> k = n)
  BY ProgramIs
<1>2. nput = n
  BY DEF Written, Calls
<1>3. Good(n)
  <2>1. h[n].e.out = bits
    BY <1>2 DEF History, Here, Begun
  <2>2. Prefix(bits) /\ ~(n < n)
    BY <1>1 DEF Prefix, BitsTyped
  <2> QED
    BY <2>1, <2>2
<1>4. ASSUME NEW k \in 1 .. n, Good(k) PROVE Good(k - 1)
  <2> DEFINE a == h[k - 1] b == h[k] call == prog.calls[k] contexts == prog.contexts samples == prog.samples
  <2>1. CallTyped(contexts, call) /\ (call.op = "end" <=> k = n) /\ samples \in Seq({0, 1})
    BY <1>1
  <2>2. Link(samples, a, call, b)
    BY <1>2 DEF History
  <2>3. Whole(a, contexts)
    <3>1. k - 1 \in 0 .. nput /\ k - 1 < Calls
      BY <1>1, <1>2
    <3> QED
      BY <3>1 DEF History
  <2>4. Prefix(b.e.out) /\ (call.op # "end" => Room(b.e))
    <3>1. k # n => k < n
      BY <1>1
    <3> QED
      BY <3>1, <2>1, <1>4
  <2>5. Room(a.e)
    <3> HIDE DEF a, b, call, contexts, samples
    <3> QED
      BY ONLY <2>1, <2>2, <2>3, <2>4, BitsTyped, TableAssumption, LinkBack
  <2>6. Prefix(a.e.out)
    BY <2>5 DEF Room, Fits, Held
  <2> QED
    BY <2>5, <2>6
<1> HIDE DEF Good, n
<1>5. T = {}
  <2> SUFFICES ASSUME T # {} PROVE FALSE
    OBVIOUS
  <2>1. T \in SUBSET Nat
    OBVIOUS
  <2>2. PICK j \in T : \A i \in T : j <= i
    BY <2>1, Least
  <2>3. j \in Nat /\ j <= n /\ ~Good(n - j)
    BY <2>2
  <2>4. j # 0
    BY <2>3, <1>1, <1>3
  <2>5. j - 1 \in Nat /\ j - 1 <= n /\ ~(j <= j - 1)
    BY <2>3, <2>4, <1>1
  <2>6. Good(n - (j - 1))
    BY <2>2, <2>5
  <2>7. n - (j - 1) \in 1 .. n /\ (n - (j - 1)) - 1 = n - j
    BY <2>3, <2>5, <1>1
  <2> QED
    BY <2>3, <2>6, <2>7, <1>4
<1>6. ASSUME NEW k \in 0 .. n PROVE Good(k)
  <2>1. n - k \in Nat /\ n - k <= n /\ n - (n - k) = k
    BY <1>1
  <2> QED
    BY <2>1, <1>5
<1> QED
  BY <1>6 DEF Good, n
--------------------------------------------------------------------------------
\* The steps of both ends.

LEMMA EncodeLinks ==
    ASSUME TableAssumption, ProgramAssumption, prog \in Programs, BitsTyped, Whole(Here, prog.contexts), nput \in Nat, Encode
    PROVE  /\ Link(prog.samples, Here, Call, Here') /\ prog' = prog /\ nput' = nput + 1 /\ nput + 1 \in 1 .. Calls
           /\ bits' \in Seq({0, 1}) /\ (Call.op = "end" => Len(bits') % 8 = 0)
           /\ UNCHANGED <<nget, c, cstate, got>>
<1> DEFINE e == Coded(Begun)
<1>1. /\ nput + 1 \in 1 .. Calls
      /\ nput' = nput + 1
      /\ wstate' = IF Call.op = "bin" THEN [wstate EXCEPT ![Call.ctx] = transState(Signed(wstate[Call.ctx], MostProbable(wstate[Call.ctx], Call.bin)))]
                   ELSE wstate
      /\ Call.op # "pcm" => bits' = (IF Call.op = "end" THEN Aligned(e.out) ELSE e.out) /\ w' = Keep(e)
      /\ Call.op = "pcm" => bits' = Aligned(e.out) \o prog.samples /\ w' = reinit
      /\ prog' = prog /\ UNCHANGED <<nget, c, cstate, got>>
  <2>1. nput + 1 \in 1 .. Calls
    BY ProgramIs DEF Encode, Calls
  <2> HIDE DEF e
  <2>2. encode(e)
    BY DEF Encode, e
  <2> QED
    BY <2>1, <2>2 DEF encode
<1>2. CallTyped(prog.contexts, Call) /\ prog.samples \in Seq({0, 1}) /\ Len(prog.samples) % 8 = 0
  BY <1>1, ProgramIs DEF Call
<1>3. Here'.ctx = Trained(Here.ctx, Call)
  BY <1>1 DEF Here, Trained
<1>4. /\ Call.op = "bin" => e = encodeBin(Begun, wstate[Call.ctx], Call.bin)
      /\ Call.op = "bypass" => e = encodeBypass(Begun, Call.bin)
      /\ Call.op = "terminate" => e = encodeTerminate(Begun, 0)
      /\ Call.op \in {"pcm", "end"} => e = encodeTerminate(Begun, 1)
  BY <1>2 DEF Coded, CallTyped, Ops
<1>5. Between(Begun, 256) /\ wstate \in [DOMAIN prog.contexts -> 0 .. 127]
  BY DEF Whole, Here
<1>6. Call.op \in {"bin", "bypass", "terminate"} => e \in Coder
  <2>1. CASE Call.op = "bin"
    <3>1. wstate[Call.ctx] \in 0 .. 127
      BY <2>1, <1>2, <1>5 DEF CallTyped
    <3> DEFINE s == wstate[Call.ctx] bin == Call.bin b == Begun
    <3>2. bin \in Int /\ (bin = 0 \/ bin = 1) /\ e = encodeBin(b, s, bin) /\ s \in 0 .. 127 /\ Between(b, 256)
      BY <2>1, <3>1, <1>2, <1>4, <1>5 DEF CallTyped
    <3> HIDE DEF s, bin, b, e
    <3>3. Between(encodeBin(b, s, bin), 256)
      BY ONLY <3>2, BitsTyped, TableAssumption, BinIs
    <3> QED
      BY <3>2, <3>3 DEF Between
  <2>2. CASE Call.op = "bypass"
    <3>1. Call.bin \in Int /\ (Call.bin = 0 \/ Call.bin = 1)
      BY <1>2 DEF CallTyped
    <3> QED
      BY <2>2, <3>1, <1>4, <1>5, BypassIs DEF Between
  <2>3. CASE Call.op = "terminate"
    BY <2>3, <1>4, <1>5, TerminateIs DEF Between
  <2> QED
    BY <2>1, <2>2, <2>3
<1>7. Call.op \in {"pcm", "end"} => Aligned(e.out) = Ended1(Begun)
  BY <1>4 DEF Ended1
<1>8. /\ Ended1(Begun) \in Seq({0, 1}) /\ Len(Ended1(Begun)) % 8 = 0
  BY <1>5, EndedIs
<1> HIDE DEF e
<1>9. Call.op \in {"bin", "bypass", "terminate"} => Here'.e = e /\ bits' = e.out
  <2> SUFFICES ASSUME Call.op \in {"bin", "bypass", "terminate"} PROVE Here'.e = e /\ bits' = e.out
    OBVIOUS
  <2>1. bits' = e.out /\ w' = Keep(e)
    BY <1>1
  <2>2. Begun' = [low |-> e.low, rng |-> e.rng, outstanding |-> e.outstanding, firstBit |-> e.firstBit, out |-> e.out]
    BY <2>1 DEF Begun, Keep
  <2>3. e = [low |-> e.low, rng |-> e.rng, outstanding |-> e.outstanding, firstBit |-> e.firstBit, out |-> e.out]
    BY <1>6 DEF Coder
  <2> QED
    BY <2>1, <2>2, <2>3 DEF Here
<1>10. Call.op = "pcm" => Here'.e = Fresh(Ended1(Begun) \o prog.samples) /\ bits' = Ended1(Begun) \o prog.samples
  <2> SUFFICES ASSUME Call.op = "pcm" PROVE Here'.e = Fresh(Ended1(Begun) \o prog.samples) /\ bits' = Ended1(Begun) \o prog.samples
    OBVIOUS
  <2>1. bits' = Ended1(Begun) \o prog.samples /\ w' = reinit
    BY <1>1, <1>7
  <2> QED
    BY <2>1 DEF Here, Begun, reinit, Fresh
<1>11. Call.op = "end" => Here'.e.out = Ended1(Begun) /\ bits' = Ended1(Begun)
  BY <1>1, <1>7 DEF Here, Begun
<1>12. Link(prog.samples, Here, Call, Here')
  <2>1. Here.e = Begun /\ Here.ctx = wstate
    BY DEF Here
  <2> QED
    BY <2>1, <1>3, <1>4, <1>9, <1>10, <1>11 DEF Link
<1>13. bits' \in Seq({0, 1})
  <2>1. CASE Call.op \in {"bin", "bypass", "terminate"}
    BY <2>1, <1>6, <1>9 DEF Coder
  <2>2. CASE Call.op = "pcm"
    BY <2>2, <1>2, <1>8, <1>10, CatIs
  <2>3. CASE Call.op = "end"
    BY <2>3, <1>8, <1>11
  <2> QED
    BY <2>1, <2>2, <2>3, <1>2 DEF CallTyped, Ops
<1>14. Call.op = "end" => Len(bits') % 8 = 0
  BY <1>8, <1>11
<1> QED
  BY <1>1, <1>12, <1>13, <1>14
--------------------------------------------------------------------------------
\* What every state keeps to: whatever is still to be written, each call so far led from
\* one entry of the history to the next; when all is written, the decoder stands where
\* the encoder stood after as many calls.

Listening(h) == nget >= 0 /\ nget < Calls => Follows(c, h[nget].e) /\ cstate = h[nget].ctx
Inv ==
    /\ prog \in Programs /\ nput \in 0 .. Calls /\ BitsTyped /\ (Written => Len(bits) % 8 = 0)
    /\ nget \in Int /\ nget >= -1 /\ nget <= Calls
    /\ (nget >= 0 => Written) /\ (nget < 0 => cstate = prog.contexts)
    /\ got = [bin |-> got.bin, samples |-> got.samples, refused |-> got.refused]
    /\ \E h : History(h) /\ Listening(h)
    /\ BinsAsCoded

LEMMA InitInv == ASSUME TableAssumption, ProgramAssumption, CabacInit PROVE Inv
<1>1. prog \in Programs /\ nput = 0 /\ bits = <<>> /\ nget = -1 /\ cstate = prog.contexts /\ wstate = prog.contexts
  BY DEF CabacInit
<1>2. /\ Calls \in Nat /\ Calls > 0 /\ prog.contexts \in [DOMAIN prog.contexts -> 0 .. 127]
  BY <1>1, ProgramIs
<1>3. BitsTyped /\ <<>> \in Seq({0, 1}) /\ ~Written
  BY <1>1, <1>2 DEF BitsTyped, Written, Calls
<1>4. Begun = Fresh(<<>>)
  BY DEF CabacInit, Begun, reinit, Fresh
<1>5. Between(Fresh(<<>>), 256)
  BY <1>3, FreshIs
<1> DEFINE h == [k \in {0} |-> Here]
<1>6. h[0] = Here /\ Here.e = Fresh(<<>>) /\ Here.ctx = prog.contexts
  BY <1>1, <1>4 DEF Here
<1> HIDE DEF h
<1>7. History(h)
  <2>1. Whole(h[0], prog.contexts)
    BY <1>2, <1>5, <1>6 DEF Whole
  <2> QED
    BY <2>1, <1>1, <1>6 DEF History
<1>8. Listening(h)
  BY <1>1 DEF Listening
<1>9. /\ got = [bin |-> got.bin, samples |-> got.samples, refused |-> got.refused] /\ BinsAsCoded
  BY <1>1 DEF CabacInit, BinsAsCoded
<1> QED
  BY <1>1, <1>2, <1>3, <1>7, <1>8, <1>9 DEF Inv

LEMMA ListeningKept ==
    ASSUME bits' = bits, Calls' = Calls, NEW h, NEW d, c' = d, NEW k, nget' = k, NEW ctx, cstate' = ctx,
           k >= 0 /\ k < Calls => Follows(d, h[k].e) /\ ctx = h[k].ctx
    PROVE  Listening(h)'
<1> DEFINE e == h[k].e
<1>1. \A i : bitAt(i)' = bitAt(i)
  BY DEF bitAt
<1>2. \A n : Nine(n)' = Nine(n)
  BY <1>1 DEF Nine
<1>3. \A m, r, j : Had(m, r, j)' = Had(m, r, j)
  BY <1>1 DEF Had
<1>4. \A m, r : Fetch(m, r)' = Fetch(m, r)
  BY <1>3 DEF Fetch, Fetch16, Fetch9
<1> HIDE DEF e
<1>5. Offset(e)' = Offset(e) /\ Place(e)' = Place(e)
  BY <1>1, <1>2 DEF Offset, Value, Undecided, Place
<1>6. \A low, pos, r : Shows(low, pos, e, r)' <=> Shows(low, pos, e, r)
  BY <1>4, <1>5 DEF Shows
<1>7. SUFFICES ASSUME k >= 0, k < Calls PROVE Follows(d, e)' /\ ctx = h[k].ctx
  BY DEF Listening, e
<1>8. Follows(d, e) /\ ctx = h[k].ctx
  BY <1>7 DEF e
<1> QED
  BY <1>6, <1>8 DEF Follows

\* Before a call is read: what the encoder had before and after it.
LEMMA Hearing ==
    ASSUME TableAssumption, ProgramAssumption, Inv, NEW h, History(h), Listening(h), Written, nget >= 0, nget < Calls
    PROVE  /\ CallTyped(prog.contexts, Asked) /\ prog.samples \in Seq({0, 1}) /\ Len(prog.samples) % 8 = 0
           /\ Len(bits) % 8 = 0 /\ BitsTyped
           /\ Whole(h[nget], prog.contexts) /\ Link(prog.samples, h[nget], Asked, h[nget + 1])
           /\ Follows(c, h[nget].e) /\ cstate = h[nget].ctx
           /\ Prefix(h[nget + 1].e.out) /\ (Asked.op # "end" => Room(h[nget + 1].e))
           /\ nget + 1 < Calls => Asked.op # "end"
<1>1. nget \in Int /\ prog \in Programs /\ BitsTyped /\ Len(bits) % 8 = 0
  BY DEF Inv
<1>2. /\ Calls \in Nat /\ prog.samples \in Seq({0, 1}) /\ Len(prog.samples) % 8 = 0
      /\ \A k \in 1 .. Calls : CallTyped(prog.contexts, prog.calls[k]) /\ (prog.calls[k].op = "end" <=> k = Calls)
  BY <1>1, ProgramIs
<1>3. nput = Calls
  BY DEF Written, Calls
<1>4. nget + 1 \in 1 .. Calls /\ nget \in 0 .. Calls /\ (nget + 1) - 1 = nget
  BY <1>1, <1>2
<1>5. CallTyped(prog.contexts, Asked) /\ (Asked.op = "end" <=> nget + 1 = Calls)
  BY <1>2, <1>4 DEF Asked
<1>6. Link(prog.samples, h[nget], Asked, h[nget + 1])
  BY <1>3, <1>4 DEF History, Asked
<1>7. Whole(h[nget], prog.contexts)
  BY <1>3, <1>4 DEF History
<1>8. Prefix(h[nget + 1].e.out) /\ (nget + 1 < Calls => Room(h[nget + 1].e))
  <2>1. nget + 1 \in 0 .. Calls
    BY <1>1, <1>2
  <2> QED
    BY <2>1, <1>1, Backward
<1>9. Follows(c, h[nget].e) /\ cstate = h[nget].ctx
  BY DEF Listening
<1>10. nget + 1 < Calls <=> Asked.op # "end"
  BY <1>1, <1>2, <1>4, <1>5
<1> QED
  BY <1>1, <1>2, <1>5, <1>6, <1>7, <1>8, <1>9, <1>10

\* After a call is read.
LEMMA Heard ==
    ASSUME Inv, NEW h, History(h), Written, nget >= 0, nget < Calls, Calls \in Nat,
           UNCHANGED <<prog, bits, nput, w, wstate>>, nget' = nget + 1,
           NEW d, c' = d, nget + 1 < Calls => Follows(d, h[nget + 1].e) /\ cstate' = h[nget + 1].ctx,
           NEW bin, NEW samples, got' = [bin |-> bin, samples |-> samples, refused |-> FALSE],
           bin = Asked.bin, Asked.op = "pcm" => samples = prog.samples
    PROVE  Inv'
<1>1. nget \in Int /\ nget + 1 \in Int /\ nget + 1 >= 0 /\ nget + 1 <= Calls /\ Calls' = Calls
  BY DEF Inv, Calls
<1>2. /\ (prog \in Programs)' /\ (nput \in 0 .. Calls)' /\ BitsTyped' /\ (Written => Len(bits) % 8 = 0)' /\ Written'
  BY <1>1 DEF Inv, BitsTyped, Written
<1>3. History(h)'
  <2>1. Here' = Here
    BY DEF Here, Begun
  <2>2. nput' = nput /\ prog' = prog
    OBVIOUS
  <2> QED
    BY <2>1, <2>2, <1>1 DEF History
<1>4. Listening(h)'
  <2> DEFINE k == nget + 1 ctx == cstate'
  <2>1. bits' = bits /\ Calls' = Calls /\ c' = d /\ nget' = k /\ cstate' = ctx /\ (k < Calls => Follows(d, h[k].e) /\ ctx = h[k].ctx)
    BY <1>1
  <2> HIDE DEF k, ctx
  <2> QED
    BY ONLY <2>1, ListeningKept
<1>5. BinsAsCoded'
  <2>1. Decoded' = Asked
    BY DEF Decoded, Asked
  <2> QED
    BY <2>1 DEF BinsAsCoded
<1>6. (got = [bin |-> got.bin, samples |-> got.samples, refused |-> got.refused])'
  OBVIOUS
<1>7. (nget \in Int /\ nget >= -1 /\ nget <= Calls /\ (nget >= 0 => Written) /\ (nget < 0 => cstate = prog.contexts))'
  BY <1>1, <1>2
<1> QED
  BY <1>2, <1>3, <1>4, <1>5, <1>6, <1>7 DEF Inv

LEMMA EncodeInv == ASSUME TableAssumption, ProgramAssumption, Inv, Encode PROVE Inv'
<1>1. PICK h : History(h) /\ Listening(h)
  BY DEF Inv
<1>2. /\ prog \in Programs /\ nput \in Nat /\ BitsTyped /\ nget \in Int
      /\ Calls \in Nat /\ prog.samples \in Seq({0, 1})
      /\ \A k \in 1 .. Calls : CallTyped(prog.contexts, prog.calls[k]) /\ (prog.calls[k].op = "end" <=> k = Calls)
  BY ProgramIs DEF Inv
<1>3. nput < Calls /\ ~Written
  BY <1>2 DEF Encode, Written, Calls
<1>4. h[nput] = Here /\ Whole(Here, prog.contexts)
  BY <1>1, <1>2, <1>3 DEF History
<1>5. /\ Link(prog.samples, Here, Call, Here') /\ prog' = prog /\ nput' = nput + 1 /\ nput + 1 \in 1 .. Calls
      /\ bits' \in Seq({0, 1}) /\ (Call.op = "end" => Len(bits') % 8 = 0)
      /\ UNCHANGED <<nget, c, cstate, got>>
  BY <1>2, <1>4, EncodeLinks
<1>6. CallTyped(prog.contexts, Call) /\ (Call.op = "end" <=> nput + 1 = Calls)
  BY <1>2, <1>5 DEF Call
<1>7. nput + 1 < Calls => Whole(Here', prog.contexts)
  <2> DEFINE a == Here b == Here' call == Call contexts == prog.contexts samples == prog.samples
  <2>1. /\ TableAssumption /\ BitsTyped /\ CallTyped(contexts, call) /\ samples \in Seq({0, 1})
        /\ Whole(a, contexts) /\ Link(samples, a, call, b) /\ (nput + 1 < Calls => call.op # "end")
    BY <1>2, <1>4, <1>5, <1>6
  <2> HIDE DEF a, b, call, contexts, samples
  <2>2. nput + 1 < Calls => Whole(b, contexts)
    BY ONLY <2>1, LinkForward
  <2> QED
    BY <2>2 DEF b, contexts
<1> DEFINE n == nput + 1
           new == Here'
<1>18. PICK g : g = [k \in 0 .. n |-> IF k = n THEN new ELSE h[k]]
  OBVIOUS
<1>8. n \in Nat /\ n > 0 /\ g[n] = new /\ g[0] = h[0] /\ \A k \in 0 .. nput : g[k] = h[k]
  BY <1>2, <1>18
<1>9. Calls' = Calls /\ Calls' \in Nat
  BY <1>2, <1>5 DEF Calls
<1> HIDE DEF new
<1>10. History(g)'
  <2>1. g[0].e = Fresh(<<>>) /\ g[0].ctx = prog.contexts
    BY <1>1, <1>8 DEF History
  <2>2. g[nput'] = Here'
    BY <1>5, <1>8 DEF new
  <2>3. ASSUME NEW k \in 1 .. n PROVE Link(prog.samples, g[k - 1], prog.calls[k], g[k])
    <3>1. CASE k = n
      <4>1. k - 1 = nput /\ nput \in 0 .. nput
        BY <3>1, <1>2
      <4>2. g[k - 1] = Here /\ g[k] = Here' /\ prog.calls[k] = Call
        BY <4>1, <3>1, <1>4, <1>8 DEF new, Call
      <4> QED
        BY <4>2, <1>5
    <3>2. CASE k # n
      <4>1. k \in 1 .. nput /\ k \in 0 .. nput /\ k - 1 \in 0 .. nput
        BY <3>2, <1>2
      <4>2. Link(prog.samples, h[k - 1], prog.calls[k], h[k])
        BY <4>1, <1>1 DEF History
      <4> QED
        BY <4>1, <4>2, <1>8
    <3> QED
      BY <3>1, <3>2
  <2>4. ASSUME NEW k \in 0 .. n, k < Calls PROVE Whole(g[k], prog.contexts)
    <3>1. CASE k = n
      BY <3>1, <2>4, <1>7, <1>8 DEF new
    <3>2. CASE k # n
      <4>1. k \in 0 .. nput
        BY <3>2, <1>2
      <4> QED
        BY <4>1, <2>4, <1>1, <1>8 DEF History
    <3> QED
      BY <3>1, <3>2
  <2>5. nput' = n
    BY <1>5
  <2> HIDE DEF n
  <2> QED
    BY <2>1, <2>2, <2>3, <2>4, <2>5, <1>5, <1>9 DEF History
<1>11. nget < 0
  BY <1>2, <1>3 DEF Inv
<1>12. Listening(g)'
  BY <1>2, <1>5, <1>11 DEF Listening
<1>13. (Written => Len(bits) % 8 = 0)'
  <2>1. Written' => nput + 1 = Calls
    BY <1>5 DEF Written, Calls
  <2> QED
    BY <2>1, <1>5, <1>6
<1>14. BinsAsCoded'
  BY <1>2, <1>5, <1>11 DEF BinsAsCoded, Inv
<1>15. (nget \in Int /\ nget >= -1 /\ nget <= Calls /\ (nget >= 0 => Written) /\ (nget < 0 => cstate = prog.contexts))'
  BY <1>2, <1>5, <1>9, <1>11 DEF Inv
<1>16. (prog \in Programs /\ nput \in 0 .. Calls /\ BitsTyped)'
  BY <1>2, <1>5, <1>9 DEF BitsTyped
<1>17. (got = [bin |-> got.bin, samples |-> got.samples, refused |-> got.refused])'
  BY <1>5 DEF Inv
<1> QED
  BY <1>10, <1>12, <1>13, <1>14, <1>15, <1>16, <1>17 DEF Inv

LEMMA StartInv == ASSUME TableAssumption, ProgramAssumption, Inv, Start PROVE Inv'
<1>1. PICK h : History(h) /\ Listening(h)
  BY DEF Inv
<1>2. /\ prog \in Programs /\ BitsTyped /\ Calls \in Nat /\ Calls > 0
  BY ProgramIs DEF Inv
<1>3. /\ Written /\ nget < 0 /\ nget' = 0 /\ c' = init(0) /\ got' = [got EXCEPT !.refused = ~CanInit(0)]
      /\ UNCHANGED <<prog, bits, nput, w, wstate, cstate>>
  BY DEF Start
<1>4. Room(h[0].e) /\ Len(bits) % 8 = 0 /\ cstate = prog.contexts
  <2>1. 0 \in 0 .. Calls /\ 0 < Calls
    BY <1>2
  <2>2. Room(h[0].e)
    BY <2>1, <1>1, <1>2, <1>3, Backward
  <2> QED
    BY <2>2, <1>3 DEF Inv
<1>5. h[0].e = Fresh(<<>>) /\ h[0].ctx = prog.contexts
  BY <1>1 DEF History
<1>6. <<>> \in Seq({0, 1}) /\ Len(<<>>) = 0 /\ Len(<<>>) = 8 * 0 /\ 0 \in Nat
  OBVIOUS
<1>7. Place(Fresh(<<>>)) = 0
  BY <1>2, <1>6, FreshIs
<1>8. Len(bits) >= 0 + 9
  BY <1>4, <1>5, <1>7 DEF Room
<1>9. Follows(init(0), Fresh(<<>>)) /\ CanInit(0)
  BY <1>2, <1>4, <1>6, <1>8, InitFollows
<1>10. Calls' = Calls
  BY <1>3 DEF Calls
<1>11. Listening(h)'
  <2> DEFINE ctx == cstate' d == init(0)
  <2>1. bits' = bits /\ Calls' = Calls /\ c' = d /\ nget' = 0 /\ cstate' = ctx /\ (0 >= 0 /\ 0 < Calls => Follows(d, h[0].e) /\ ctx = h[0].ctx)
    BY <1>3, <1>4, <1>5, <1>9, <1>10
  <2> HIDE DEF ctx, d
  <2> QED
    BY ONLY <2>1, ListeningKept
<1>12. History(h)'
  <2>1. Here' = Here
    BY <1>3 DEF Here, Begun
  <2> QED
    BY <2>1, <1>1, <1>3, <1>10 DEF History
<1>13. /\ (prog \in Programs)' /\ (nput \in 0 .. Calls)' /\ BitsTyped' /\ (Written => Len(bits) % 8 = 0)' /\ Written'
  BY <1>3, <1>4, <1>10 DEF Inv, BitsTyped, Written
<1>14. got'.refused = FALSE /\ got' = [bin |-> got'.bin, samples |-> got'.samples, refused |-> got'.refused]
  BY <1>3, <1>9 DEF Inv
<1>15. BinsAsCoded'
  BY <1>3, <1>14 DEF BinsAsCoded
<1>16. (nget \in Int /\ nget >= -1 /\ nget <= Calls /\ (nget >= 0 => Written) /\ (nget < 0 => cstate = prog.contexts))'
  BY <1>2, <1>3, <1>10, <1>13
<1> QED
  BY <1>11, <1>12, <1>13, <1>14, <1>15, <1>16 DEF Inv

LEMMA DecodeBinInv == ASSUME TableAssumption, ProgramAssumption, Inv, DecodeBin PROVE Inv'
<1> DEFINE s == cstate[Asked.ctx]
           lps == lpsRange(Quarter(c.rng), s)
           d == refillShifted(decodeBin(c, lps))
           bin == IF Less(c, lps) THEN 1 - (s % 2) ELSE s % 2
<1>1. PICK h : History(h) /\ Listening(h)
  BY DEF Inv
<1>2. /\ Written /\ nget >= 0 /\ nget < Calls /\ Asked.op = "bin"
      /\ nget' = nget + 1 /\ UNCHANGED <<prog, bits, nput, w, wstate>>
      /\ c' = d /\ got' = [bin |-> bin, samples |-> <<>>, refused |-> FALSE]
      /\ cstate' = [cstate EXCEPT ![Asked.ctx] = transState(Signed(s, ~Less(c, lps)))]
  BY DEF DecodeBin, BinRead, Read, Reading, Calls
<1>3. Calls \in Nat
  BY ProgramIs DEF Inv
<1> DEFINE contexts == prog.contexts samples == prog.samples call == Asked a == h[nget] b == h[nget + 1]
<1>4. /\ CallTyped(contexts, call) /\ BitsTyped /\ Whole(a, contexts) /\ Link(samples, a, call, b) /\ Follows(c, a.e)
      /\ cstate = a.ctx /\ (call.op # "end" => Room(b.e))
  BY <1>1, <1>2, Hearing
<1>5. Room(b.e) /\ call.op = "bin" /\ Chosen(a, call, c, s, lps)
  BY <1>2, <1>4 DEF Chosen
<1> HIDE DEF contexts, samples, call, a, b, lps
<1>6. bin = call.bin /\ [a.ctx EXCEPT ![call.ctx] = transState(Signed(s, ~Less(c, lps)))] = b.ctx /\ Follows(d, b.e)
  <2> HIDE DEF s
  <2> QED
    BY ONLY <1>4, <1>5, TableAssumption, HeardBin
<1>7. cstate' = b.ctx
  BY <1>2, <1>4, <1>6 DEF call
<1> HIDE DEF d, bin, s
<1>8. Asked.op # "pcm" /\ bin = Asked.bin /\ Follows(d, h[nget + 1].e) /\ cstate' = h[nget + 1].ctx
  BY <1>2, <1>6, <1>7 DEF b, call
<1> QED
  BY ONLY Inv, <1>1, <1>2, <1>3, <1>8, Heard

LEMMA DecodeBypassInv == ASSUME TableAssumption, ProgramAssumption, Inv, DecodeBypass PROVE Inv'
<1> DEFINE u == Doubled(c)
           d == decodeBypass(u)
           bin == IF u.low < u.rng * Word THEN 0 ELSE 1
<1>1. PICK h : History(h) /\ Listening(h)
  BY DEF Inv
<1>2. /\ Written /\ nget >= 0 /\ nget < Calls /\ Asked.op = "bypass"
      /\ nget' = nget + 1 /\ UNCHANGED <<prog, bits, nput, w, wstate>>
      /\ c' = d /\ got' = [bin |-> bin, samples |-> <<>>, refused |-> FALSE]
      /\ cstate' = cstate
  BY DEF DecodeBypass, Bypassed, Read, Reading, Calls
<1>3. Calls \in Nat
  BY ProgramIs DEF Inv
<1> DEFINE contexts == prog.contexts samples == prog.samples call == Asked a == h[nget] b == h[nget + 1]
<1>4. /\ CallTyped(contexts, call) /\ BitsTyped /\ Whole(a, contexts) /\ Link(samples, a, call, b) /\ Follows(c, a.e)
      /\ cstate = a.ctx /\ (call.op # "end" => Room(b.e)) /\ call.op = "bypass"
  BY <1>1, <1>2, Hearing
<1> HIDE DEF contexts, samples, call, a, b
<1>5. bin = call.bin /\ Follows(d, b.e)
  BY ONLY <1>4, HeardBypass
<1>6. b.ctx = a.ctx
  BY <1>4 DEF Link, Trained
<1> HIDE DEF d, bin
<1>7. Asked.op # "pcm" /\ bin = Asked.bin /\ Follows(d, h[nget + 1].e) /\ cstate' = h[nget + 1].ctx
  BY <1>2, <1>4, <1>5, <1>6 DEF b, call
<1> QED
  BY ONLY Inv, <1>1, <1>2, <1>3, <1>7, Heard

LEMMA DecodeTerminateInv == ASSUME TableAssumption, ProgramAssumption, Inv, DecodeTerminate PROVE Inv'
<1> DEFINE d == decodeTerminate(c)
           bin == IF Terminated(c) THEN 1 ELSE 0
<1>1. PICK h : History(h) /\ Listening(h)
  BY DEF Inv
<1>2. /\ Written /\ nget >= 0 /\ nget < Calls /\ Asked.op \in {"terminate", "end"}
      /\ nget' = nget + 1 /\ UNCHANGED <<prog, bits, nput, w, wstate>>
      /\ c' = d /\ got' = [bin |-> bin, samples |-> <<>>, refused |-> FALSE]
      /\ cstate' = cstate
  BY DEF DecodeTerminate, Read, Reading, Calls
<1>3. Calls \in Nat
  BY ProgramIs DEF Inv
<1> DEFINE contexts == prog.contexts samples == prog.samples call == Asked a == h[nget] b == h[nget + 1]
<1>4. /\ CallTyped(contexts, call) /\ BitsTyped /\ Whole(a, contexts) /\ Link(samples, a, call, b) /\ Follows(c, a.e)
      /\ cstate = a.ctx /\ (call.op # "end" => Room(b.e)) /\ call.op \in {"terminate", "end"} /\ Prefix(b.e.out)
      /\ nget + 1 < Calls => call.op # "end"
  BY <1>1, <1>2, Hearing
<1> HIDE DEF contexts, samples, call, a, b
<1>5. call.op = "terminate" => bin = call.bin /\ Follows(d, b.e)
  BY ONLY <1>4, HeardTerminate
<1>6. call.op = "end" => bin = call.bin
  BY ONLY <1>4, HeardEnd
<1>7. b.ctx = a.ctx
  BY <1>4 DEF Link, Trained
<1> HIDE DEF d, bin
<1>8. Asked.op # "pcm" /\ bin = Asked.bin /\ (nget + 1 < Calls => Follows(d, h[nget + 1].e) /\ cstate' = h[nget + 1].ctx)
  BY <1>2, <1>4, <1>5, <1>6, <1>7 DEF b, call
<1> QED
  BY ONLY Inv, <1>1, <1>2, <1>3, <1>8, Heard

LEMMA DecodePcmInv == ASSUME TableAssumption, ProgramAssumption, Inv, DecodePcm PROVE Inv'
<1> DEFINE off == pcmOffset(decodeTerminate(c))
           m == off + Samples
           d == init(m)
           bin == IF Terminated(c) THEN 1 ELSE 0
           read == SubSeq(bits, 8 * off + 1, 8 * m)
<1>1. PICK h : History(h) /\ Listening(h)
  BY DEF Inv
<1>2. /\ Written /\ nget >= 0 /\ nget < Calls /\ Asked.op = "pcm"
      /\ nget' = nget + 1 /\ UNCHANGED <<prog, bits, nput, w, wstate>>
      /\ c' = (IF CanInit(m) THEN d ELSE c)
      /\ got' = [bin |-> bin, samples |-> read, refused |-> off < 0 \/ m > Bytes \/ ~CanInit(m)]
      /\ cstate' = cstate
  BY DEF DecodePcm, PcmSample, Reading, Calls
<1>3. Calls \in Nat
  BY ProgramIs DEF Inv
<1> DEFINE contexts == prog.contexts samples == prog.samples call == Asked a == h[nget] b == h[nget + 1]
<1>4. /\ CallTyped(contexts, call) /\ BitsTyped /\ Whole(a, contexts) /\ Link(samples, a, call, b) /\ Follows(c, a.e)
      /\ cstate = a.ctx /\ (call.op # "end" => Room(b.e)) /\ call.op = "pcm"
      /\ samples \in Seq({0, 1}) /\ Len(samples) % 8 = 0 /\ Len(bits) % 8 = 0
  BY <1>1, <1>2, Hearing
<1>5. /\ CallTyped(contexts, call) /\ BitsTyped /\ Whole(a, contexts) /\ Link(samples, a, call, b) /\ Follows(c, a.e)
      /\ Room(b.e) /\ call.op = "pcm" /\ Found(c, samples, off, m) /\ WholeBytes(samples)
  BY <1>4 DEF Samples, Found, WholeBytes
<1> HIDE DEF contexts, samples, call, a, b, off, m
<1>6. /\ bin = call.bin /\ read = samples /\ ~(off < 0) /\ ~(m > Bytes) /\ CanInit(m) /\ Follows(d, b.e)
  BY ONLY <1>5, HeardPcm
<1>7. b.ctx = a.ctx
  BY <1>4 DEF Link, Trained
<1> HIDE DEF d, bin, read
<1>8. c' = d /\ got' = [bin |-> bin, samples |-> read, refused |-> FALSE]
  BY <1>2, <1>6
<1>9. bin = Asked.bin /\ read = prog.samples /\ Follows(d, h[nget + 1].e) /\ cstate' = h[nget + 1].ctx
  BY <1>2, <1>4, <1>6, <1>7 DEF b, call, samples
<1> QED
  BY ONLY Inv, <1>1, <1>2, <1>3, <1>8, <1>9, Heard

LEMMA StutterInv == ASSUME Inv, UNCHANGED cabacVars PROVE Inv'
<1>1. /\ prog' = prog /\ bits' = bits /\ nput' = nput /\ w' = w /\ wstate' = wstate
      /\ nget' = nget /\ c' = c /\ cstate' = cstate /\ got' = got
  BY DEF cabacVars
<1>2. PICK h : History(h) /\ Listening(h)
  BY DEF Inv
<1>3. Calls' = Calls
  BY <1>1 DEF Calls
<1>4. History(h)'
  <2>1. Here' = Here
    BY <1>1 DEF Here, Begun
  <2> QED
    BY <2>1, <1>1, <1>2, <1>3 DEF History
<1>5. Listening(h)'
  <2> DEFINE d == c k == nget ctx == cstate
  <2>1. bits' = bits /\ Calls' = Calls /\ c' = d /\ nget' = k /\ cstate' = ctx /\ (k >= 0 /\ k < Calls => Follows(d, h[k].e) /\ ctx = h[k].ctx)
    BY <1>1, <1>2, <1>3 DEF Listening
  <2> HIDE DEF d, k, ctx
  <2> QED
    BY ONLY <2>1, ListeningKept
<1>6. BinsAsCoded'
  BY <1>1 DEF Inv, BinsAsCoded, Decoded
<1>7. (prog \in Programs /\ nput \in 0 .. Calls /\ BitsTyped /\ (Written => Len(bits) % 8 = 0))'
  BY <1>1, <1>3 DEF Inv, BitsTyped, Written
<1>8. (nget \in Int /\ nget >= -1 /\ nget <= Calls /\ (nget >= 0 => Written) /\ (nget < 0 => cstate = prog.contexts))'
  BY <1>1, <1>3 DEF Inv, Written
<1>9. (got = [bin |-> got.bin, samples |-> got.samples, refused |-> got.refused])'
  BY <1>1 DEF Inv
<1> QED
  BY <1>4, <1>5, <1>6, <1>7, <1>8, <1>9 DEF Inv

\* Between two calls the registers keep what the code relies on without a test: a range
\* of 256 to 510, so that two of its bits pick a column of the table; an interval of the
\* encoder that a single carry brings back into its register; and a window of the decoder
\* that lies inside the range, so that no shift leaves 32 bits.
RegistersInRange ==
    /\ nput < Len(prog.calls) => w.rng \in 256 .. 510 /\ w.low \in 0 .. 1024 - w.rng
    /\ nget \in 0 .. Len(prog.calls) - 1 => c.rng \in 256 .. 510 /\ c.low \in 1 .. c.rng * Word - 1

LEMMA InRange == ASSUME TableAssumption, ProgramAssumption, Inv PROVE RegistersInRange
<1>1. PICK h : History(h) /\ Listening(h)
  BY DEF Inv
<1>2. /\ prog \in Programs /\ nput \in Nat /\ BitsTyped /\ nget \in Int /\ Calls \in Nat /\ nput <= Calls
  BY ProgramIs DEF Inv
<1>3. ASSUME nput < Calls PROVE w.rng \in 256 .. 510 /\ w.low \in 0 .. 1024 - w.rng
  <2>1. Whole(Here, prog.contexts)
    BY <1>1, <1>2, <1>3 DEF History
  <2>2. Between(Begun, 256)
    BY <2>1 DEF Whole, Here
  <2>3. Begun.low = w.low /\ Begun.rng = w.rng
    BY DEF Begun
  <2> DEFINE e == Begun
  <2> HIDE DEF e
  <2>4. e.low \in Nat /\ e.rng \in Nat /\ e.rng >= 256 /\ e.rng <= 510 /\ e.low + e.rng <= 1024
    BY <2>2, BetweenIs DEF e
  <2> QED
    BY <2>3, <2>4 DEF e
<1>4. ASSUME nget \in 0 .. Calls - 1 PROVE c.rng \in 256 .. 510 /\ c.low \in 1 .. c.rng * Word - 1
  <2> DEFINE e == h[nget].e
  <2>1. Written /\ nget >= 0 /\ nget < Calls /\ nget \in 0 .. Calls
    BY <1>2, <1>4 DEF Inv
  <2>2. Between(e, 256) /\ Follows(c, e)
    BY <2>1, <1>1, TableAssumption, Hearing DEF Whole
  <2>3. Room(e)
    BY <2>1, <1>1, <1>2, Backward
  <2> HIDE DEF e
  <2>4. e \in Coder /\ e.rng \in Nat /\ e.rng >= 256 /\ e.rng <= 510
    BY <2>2, BetweenIs
  <2>5. Offset(e) \in Int /\ Offset(e) >= 0 /\ Offset(e) <= e.rng - 1 /\ Place(e) + 9 \in Nat
    BY <2>3, <2>4, <1>2, OffsetIs DEF Room, Fits, Offset
  <2>6. PICK r \in Nat : r <= 16 /\ c.low = 131072 * Offset(e) + Fetch(Place(e) + 9, r)
    BY <2>2 DEF Follows, Shows
  <2>7. Fetch(Place(e) + 9, r) \in Int /\ Fetch(Place(e) + 9, r) >= 1 /\ Fetch(Place(e) + 9, r) <= 131071
    BY ONLY <2>5, <2>6, <1>2, FetchIs
  <2>8. c.rng = e.rng
    BY <2>2 DEF Follows
  <2>9. c.low \in Int /\ c.low >= 1 /\ c.low <= 131072 * e.rng - 1
    BY <2>4, <2>5, <2>6, <2>7
  <2>10. Word = 131072
    BY DEF Word, CabacBits
  <2> QED
    BY <2>4, <2>8, <2>9, <2>10
<1> QED
  BY <1>3, <1>4 DEF RegistersInRange, Calls

LEMMA Invariance == CabacSpec => []Inv
<1>1. CabacInit => Inv
  BY TablesGiven, ProgramsGiven, InitInv
<1>2. Inv /\ [CabacNext]_cabacVars => Inv'
  <2> SUFFICES ASSUME Inv, [CabacNext]_cabacVars PROVE Inv'
    OBVIOUS
  <2>1. CASE Encode
    BY <2>1, TablesGiven, ProgramsGiven, EncodeInv
  <2>2. CASE Start
    BY <2>2, TablesGiven, ProgramsGiven, StartInv
  <2>3. CASE DecodeBin
    BY <2>3, TablesGiven, ProgramsGiven, DecodeBinInv
  <2>4. CASE DecodeBypass
    BY <2>4, TablesGiven, ProgramsGiven, DecodeBypassInv
  <2>5. CASE DecodeTerminate
    BY <2>5, TablesGiven, ProgramsGiven, DecodeTerminateInv
  <2>6. CASE DecodePcm
    BY <2>6, TablesGiven, ProgramsGiven, DecodePcmInv
  <2>7. CASE UNCHANGED cabacVars
    BY <2>7, StutterInv
  <2> QED
    BY <2>1, <2>2, <2>3, <2>4, <2>5, <2>6, <2>7 DEF CabacNext
<1> QED
  BY <1>1, <1>2, PTL DEF CabacSpec

\* Whatever calls are coded, cabac (hevc/cabac.go) reads back from the bytes that
\* cabacWriter (hevc/cabacenc.go) wrote every bin and every PCM sample, finds where the
\* samples begin and never runs out of bytes to start anew.
THEOREM ArithmeticReadsBack == CabacSpec => []BinsAsCoded
<1>1. Inv => BinsAsCoded
  BY DEF Inv
<1> QED
  BY <1>1, Invariance, PTL

\* RegistersInRange: before every call range and low of cabacWriter are within their
\* registers and the window of cabac is inside its range and not empty.
THEOREM RegistersAreInRange == CabacSpec => []RegistersInRange
<1>1. Inv => RegistersInRange
  BY TablesGiven, ProgramsGiven, InRange
<1> QED
  BY <1>1, Invariance, PTL
=============================================================================
