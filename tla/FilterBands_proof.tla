---------------------------- MODULE FilterBands_proof ----------------------------
(***************************************************************************)
(* Proofs about FilterBands: what the goroutines of a pass touch is apart, *)
(* and a picture is filtered as the encoder filters it however it is cut.  *)
(***************************************************************************)
EXTENDS FilterBands, FiniteSetTheorems, WellFoundedInduction, TLAPS

Picture(p) ==
    /\ {p.rows, p.cols, p.ctb} \subseteq Nat \ {0}
    /\ p.sub \in {1, 2} /\ p.comps \in {{0}, {0, 1}}

-----------------------------------------------------------------------------
\* Arithmetic.

LEMMA DivMod ==
    ASSUME NEW a \in Nat, NEW n \in Nat \ {0}
    PROVE  /\ a \div n \in Nat /\ a % n \in Nat /\ a % n < n
           /\ n * (a \div n) \in Nat
           /\ a = n * (a \div n) + (a % n)
  BY SMT

LEMMA Times ==
    ASSUME NEW a \in Nat, NEW b \in Nat, NEW n \in Nat, a <= b
    PROVE  /\ n * a \in Nat /\ n * b \in Nat /\ n * a <= n * b
           /\ n * a = a * n /\ n * b = b * n /\ n * (a + 1) = n * a + n
  BY SMT

LEMMA DivUnique ==
    ASSUME NEW a \in Nat, NEW n \in Nat \ {0}, NEW q \in Nat, NEW r \in 0 .. n - 1, a = n * q + r
    PROVE  a \div n = q /\ a % n = r
  BY SMT

\* Multiples of n that differ are n apart.
LEMMA MultiplesApart ==
    ASSUME NEW a \in Nat, NEW b \in Nat, NEW n \in Nat \ {0}, a % n = 0, b % n = 0, a < b
    PROVE  a + n <= b
<1>1. a = n * (a \div n) /\ b = n * (b \div n) /\ a \div n \in Nat /\ b \div n \in Nat
  BY DivMod, SMT
<1>2. a \div n < b \div n
  BY <1>1, SMT
<1>3. n * (a \div n) + n <= n * (b \div n)
  BY <1>2, <1>1, SMT
<1> QED
  BY <1>1, <1>3, SMT

\* A set of numbers has a least element and, below a bound, a greatest.
LEMMA LeastExists ==
    ASSUME NEW S \in SUBSET Nat, S # {}
    PROVE  \E x \in S : \A y \in S : x <= y
<1>1. IsWellFoundedOn(OpToRel(<, Nat), Nat)
  BY NatLessThanWellFounded
<1>2. PICK x \in S : \A y \in S : <<y, x>> \notin OpToRel(<, Nat)
  BY <1>1, WFMin
<1>3. \A y \in S : ~(y < x)
  BY <1>2 DEF OpToRel
<1> QED
  BY <1>3

LEMMA LoHi ==
    ASSUME NEW n \in Nat, NEW S \in SUBSET (0 .. n - 1), S # {}
    PROVE  /\ Lo(S) \in S /\ Hi(S) \in S
           /\ \A q \in S : Lo(S) <= q /\ q <= Hi(S)
<1>1. \E x \in S : \A y \in S : x <= y
  <2>1. S \in SUBSET Nat
    OBVIOUS
  <2> QED
    BY <2>1, LeastExists
<1>2. \E x \in S : \A y \in S : y <= x
  <2> DEFINE T == {m \in Nat : n - m \in S}
  <2>1. T \in SUBSET Nat /\ \A q \in S : n - q \in T
    OBVIOUS
  <2>2. PICK t \in T : \A u \in T : t <= u
    BY <2>1, LeastExists
  <2>3. n - t \in S /\ \A y \in S : t <= n - y
    BY <2>1, <2>2
  <2> QED
    BY <2>3, <2>1
<1> QED
  BY <1>1, <1>2 DEF Lo, Hi

-----------------------------------------------------------------------------
\* What is where in a picture.

LEMMA SampleIs ==
    ASSUME NEW p, Picture(p), NEW s \in Samples(p)
    PROVE  /\ s = <<s[1], s[2], s[3]>>
           /\ s[1] \in p.comps /\ s[2] \in 0 .. p.cols - 1 /\ s[3] \in 0 .. Lines(p, s[1]) - 1
           /\ Sub(p, s[1]) \in {1, 2} /\ Lines(p, s[1]) \in Nat
<1>1. PICK c \in p.comps : s \in {c} \X (0 .. p.cols - 1) \X (0 .. Lines(p, c) - 1)
  BY DEF Samples
<1>2. s = <<s[1], s[2], s[3]>> /\ s[1] = c
      /\ s[2] \in 0 .. p.cols - 1 /\ s[3] \in 0 .. Lines(p, c) - 1
  BY <1>1
<1> QED
  BY <1>2 DEF Picture, Sub, Lines

LEMMA WritesAreRead ==
    ASSUME NEW p, NEW r, NEW v \in BOOLEAN, NEW s \in EdgeWrites(p, r, v), Picture(p), r \in 0 .. p.rows - 1
    PROVE  s \in EdgeReads(p, r, v)
<1>1. s \in Samples(p) /\ Filtered(p, r, v) /\ s[3] \in EdgeLines(p, s[1], r, v, Reach(s[1]).write)
  BY DEF EdgeWrites
<1>2. s[1] \in p.comps /\ s[3] \in Nat /\ Sub(p, s[1]) \in {1, 2}
  BY <1>1, SampleIs
<1>3. s[3] \in EdgeLines(p, s[1], r, v, Reach(s[1]).read)
  BY <1>1, <1>2 DEF EdgeLines, AroundEdge, Above, Reach, Picture
<1> QED
  BY <1>1, <1>3 DEF EdgeReads

\* The edges of a row touch lines that no other row writes.
LEMMA EdgesApart ==
    ASSUME NEW p, Picture(p), NEW v \in BOOLEAN,
           NEW r \in 0 .. p.rows - 1, NEW q \in 0 .. p.rows - 1, r # q
    PROVE  EdgeWrites(p, r, v) \cap EdgeReads(p, q, v) = {}
<1> SUFFICES ASSUME NEW s \in EdgeWrites(p, r, v), s \in EdgeReads(p, q, v) PROVE FALSE
  OBVIOUS
<1>1. /\ s \in Samples(p)
      /\ s[3] \in EdgeLines(p, s[1], r, v, Reach(s[1]).write)
      /\ s[3] \in EdgeLines(p, s[1], q, v, Reach(s[1]).read)
  BY DEF EdgeWrites, EdgeReads
<1>2. s[1] \in p.comps /\ s[3] \in Nat /\ Sub(p, s[1]) \in {1, 2}
  BY <1>1, SampleIs
<1>3. r \in Nat /\ q \in Nat
  BY DEF Picture
<1>4. CASE v
  <2>1. /\ s[3] \in Above(p, s[1], r) .. Above(p, s[1], r + 1) - 1
        /\ s[3] \in Above(p, s[1], q) .. Above(p, s[1], q + 1) - 1
    BY <1>1, <1>4 DEF EdgeLines
  <2> QED
    BY <2>1, <1>2, <1>3, SMT DEF Above
<1>5. CASE ~v
  <2>1. /\ s[3] \in AroundEdge(p, s[1], r, Reach(s[1]).write)
        /\ s[3] \in AroundEdge(p, s[1], q, Reach(s[1]).read)
    BY <1>1, <1>5 DEF EdgeLines
  <2>2. /\ OnGrid(p, s[1], r)
        /\ s[3] \in Above(p, s[1], r) - Reach(s[1]).write .. Above(p, s[1], r) + Reach(s[1]).write - 1
    BY <2>1 DEF AroundEdge
  <2>3. /\ OnGrid(p, s[1], q)
        /\ s[3] \in Above(p, s[1], q) - Reach(s[1]).read .. Above(p, s[1], q) + Reach(s[1]).read - 1
    BY <2>1 DEF AroundEdge
  <2>4. CASE s[1] = 0
    BY <2>2, <2>3, <2>4, <1>2, <1>3, SMT DEF Above, Reach, Sub
  <2>5. CASE s[1] # 0
    <3>1. Reach(s[1]).write = 1 /\ Reach(s[1]).read = 2 /\ Sub(p, s[1]) = p.sub
      BY <2>5 DEF Reach, Sub
    <3>2. CASE p.sub = 1
      BY <3>1, <3>2, <2>2, <2>3, <1>2, <1>3, SMT DEF Above
    <3>3. CASE p.sub = 2
      BY <3>1, <3>3, <2>2, <2>3, <1>2, <1>3, SMT DEF Above, OnGrid
    <3> QED
      BY <3>2, <3>3, <3>1, <1>2
  <2> QED
    BY <2>4, <2>5
<1> QED
  BY <1>4, <1>5

\* Rows of coding tree blocks.
CtbRows(p) == (p.rows + p.ctb - 1) \div p.ctb

LEMMA CtbLinesType ==
    ASSUME NEW p, Picture(p), NEW c \in p.comps
    PROVE  CtbLines(p, c) \in Nat \ {0} /\ CtbRows(p) \in Nat \ {0}
           /\ Lines(p, c) <= CtbLines(p, c) * CtbRows(p)
<1> DEFINE R == CtbRows(p)
           N == p.ctb
<1>0. N \in Nat \ {0} /\ p.rows \in Nat \ {0} /\ p.rows + N - 1 \in Nat
  BY SMT DEF Picture
<1>1. R \in Nat /\ p.rows + N - 1 = N * R + ((p.rows + N - 1) % N) /\ (p.rows + N - 1) % N \in Nat
      /\ (p.rows + N - 1) % N < N /\ N * R \in Nat
  BY <1>0, DivMod DEF CtbRows
<1>2. p.rows <= N * R /\ N * R \in Int
  BY <1>0, <1>1, SMT
<1>3. R # 0
  BY <1>0, <1>2, SMT
<1>4. CASE Sub(p, c) = 1
  <2>1. CtbLines(p, c) = 8 * N /\ Lines(p, c) = 8 * p.rows
    BY <1>0, <1>4, SMT DEF CtbLines, Lines
  <2>2. (8 * N) * R = 8 * (N * R)
    BY <1>0, <1>1, SMT
  <2> QED
    BY <2>1, <2>2, <1>2, <1>3, <1>0, <1>1
<1>5. CASE Sub(p, c) = 2
  <2>1. CtbLines(p, c) = 4 * N /\ Lines(p, c) = 4 * p.rows
    BY <1>0, <1>5, SMT DEF CtbLines, Lines
  <2>2. (4 * N) * R = 4 * (N * R)
    BY <1>0, <1>1, SMT
  <2> QED
    BY <2>1, <2>2, <1>2, <1>3, <1>0, <1>1
<1> QED
  BY <1>4, <1>5 DEF Sub, Picture

LEMMA CtbsAre ==
    ASSUME NEW p, Picture(p)
    PROVE  /\ p.cols * CtbRows(p) \in Nat
           /\ Ctbs(p) = 0 .. p.cols * CtbRows(p) - 1
           /\ Cardinality(Ctbs(p)) = p.cols * CtbRows(p)
<1>1. p.cols \in Nat /\ CtbRows(p) \in Nat
  <2>1. PICK c \in p.comps : TRUE
    BY DEF Picture
  <2> QED
    BY <2>1, CtbLinesType DEF Picture
<1>2. p.cols * CtbRows(p) \in Nat
  BY <1>1, SMT
<1>3. Ctbs(p) = 0 .. p.cols * CtbRows(p) - 1
  BY DEF Ctbs, CtbRows
<1> QED
  BY <1>2, <1>3, FS_Interval

\* Every sample is in one coding tree block.
LEMMA CtbIsOne ==
    ASSUME NEW p, Picture(p), NEW c, NEW k \in Ctbs(p), NEW s \in InCtb(p, c, k)
    PROVE  CtbAt(p, s) = k
<1>1. s[1] = c /\ s[2] = k % p.cols /\ s[3] \div CtbLines(p, c) = k \div p.cols
  BY DEF InCtb
<1>2. k \in Nat /\ p.cols \in Nat \ {0}
  BY CtbsAre DEF Picture
<1>3. k = p.cols * (k \div p.cols) + (k % p.cols) /\ k \div p.cols \in Nat /\ k % p.cols \in Nat
  BY <1>2, DivMod
<1>4. (k \div p.cols) * p.cols = p.cols * (k \div p.cols)
  BY <1>2, <1>3, SMT
<1> QED
  BY <1>1, <1>3, <1>4 DEF CtbAt

LEMMA CtbExists ==
    ASSUME NEW p, Picture(p), NEW s \in Samples(p)
    PROVE  CtbAt(p, s) \in Ctbs(p)
<1> DEFINE L == CtbLines(p, s[1])
           R == CtbRows(p)
           d == s[3] \div L
<1>1. /\ s[1] \in p.comps /\ s[2] \in 0 .. p.cols - 1
      /\ s[3] \in Nat /\ Lines(p, s[1]) \in Nat /\ s[3] < Lines(p, s[1])
  BY SampleIs
<1>2. L \in Nat \ {0} /\ R \in Nat /\ Lines(p, s[1]) <= L * R /\ L * R \in Nat
  BY <1>1, CtbLinesType, SMT
<1>3. d \in Nat /\ s[3] = L * d + (s[3] % L) /\ s[3] % L \in Nat /\ L * d \in Nat
  BY <1>1, <1>2, DivMod
<1> HIDE DEF d, L, R
<1>4. d < R
  <2>1. SUFFICES ASSUME d >= R PROVE FALSE
    BY <1>2, <1>3
  <2>2. L * d >= L * R
    BY <2>1, <1>2, <1>3, Times
  <2> QED
    BY <2>2, <1>1, <1>2, <1>3
<1>5. p.cols \in Nat \ {0}
  BY DEF Picture
<1>6. d * p.cols + p.cols <= p.cols * R /\ d * p.cols \in Nat /\ p.cols * R \in Nat
  <2>1. d + 1 \in Nat /\ d + 1 <= R
    BY <1>4, <1>2, <1>3
  <2>2. p.cols * (d + 1) <= p.cols * R /\ p.cols * R \in Nat
    BY <2>1, <1>5, <1>2, Times
  <2>3. p.cols * (d + 1) = p.cols * d + p.cols /\ p.cols * d = d * p.cols /\ p.cols * d \in Nat
    BY <1>5, <1>3, Times
  <2> QED
    BY <2>2, <2>3
<1>7. CtbAt(p, s) \in 0 .. p.cols * R - 1
  BY <1>6, <1>1, <1>5 DEF CtbAt, d, L
<1> QED
  BY <1>7, CtbsAre DEF R

LEMMA SaoApart ==
    ASSUME NEW p, Picture(p), NEW c, NEW k \in Ctbs(p), NEW l \in Ctbs(p), k # l
    PROVE  SaoWrites(p, c, k) \cap SaoWrites(p, c, l) = {}
<1>1. \A s \in SaoWrites(p, c, k) : s \in InCtb(p, c, k)
  BY DEF SaoWrites
<1>2. \A s \in SaoWrites(p, c, l) : s \in InCtb(p, c, l)
  BY DEF SaoWrites
<1> QED
  BY <1>1, <1>2, CtbIsOne

\* The copy has everything the blocks of a component compare.
LEMMA CopyCovers ==
    ASSUME NEW p, Picture(p), NEW c \in p.comps, NEW k \in Ctbs(p)
    PROVE  SaoReads(p, c, k) \subseteq Copied(p, c)
<1> SUFFICES ASSUME NEW s \in SaoWrites(p, c, k), NEW u \in Compared(p, k, s) PROVE u \in Copied(p, c)
  BY DEF SaoReads
<1> DEFINE L == CtbLines(p, c)
           S == SaoRows(p, c)
           g == k \div p.cols
<1>1. s \in Samples(p) /\ s[1] = c /\ s[3] \div L = g /\ saoEnabled(p, c, k)
  BY DEF SaoWrites, InCtb
<1>2. u \in Samples(p) /\ u[1] = c /\ u[3] - s[3] \in {-1, 0, 1}
  BY <1>1 DEF Compared
<1>3. /\ s[3] \in Nat /\ u[3] \in 0 .. Lines(p, c) - 1 /\ Lines(p, c) \in Nat
      /\ L \in Nat \ {0} /\ CtbRows(p) \in Nat
  BY <1>1, <1>2, SampleIs, CtbLinesType
<1>4. p.cols \in Nat \ {0} /\ Ctbs(p) \subseteq Nat /\ p.cols * CtbRows(p) \in Nat
  BY CtbsAre DEF Picture
<1>5. g \in S
  BY <1>1 DEF SaoRows
<1>6. S \in SUBSET (0 .. p.cols * CtbRows(p) - 1)
  <2>1. SUFFICES ASSUME NEW j \in Ctbs(p) PROVE j \div p.cols \in 0 .. p.cols * CtbRows(p) - 1
    BY DEF SaoRows
  <2>2. j \in 0 .. p.cols * CtbRows(p) - 1 /\ j \in Nat
    BY <1>4, CtbsAre
  <2>3. j \div p.cols \in Nat /\ j = p.cols * (j \div p.cols) + (j % p.cols) /\ j % p.cols \in Nat
    BY <2>2, <1>4, DivMod
  <2>4. p.cols * (j \div p.cols) >= j \div p.cols
    <3>1. (j \div p.cols) * 1 <= (j \div p.cols) * p.cols
      BY <2>3, <1>4, Times
    <3> QED
      BY <3>1, <2>3, <1>4, Times
  <2>5. j \div p.cols <= j
    BY <2>2, <2>3, <2>4, <1>4, SMT
  <2> QED
    BY <2>2, <2>3, <2>5, <1>4
<1>7. Lo(S) \in Nat /\ Hi(S) \in Nat /\ Lo(S) <= g /\ g <= Hi(S) /\ g \in Nat
  <2>1. Lo(S) \in S /\ Hi(S) \in S /\ Lo(S) <= g /\ g <= Hi(S)
    BY <1>4, <1>5, <1>6, LoHi
  <2> QED
    BY <2>1, <1>4, <1>5, <1>6
<1>8. s[3] = L * g + (s[3] % L) /\ s[3] % L \in Nat /\ s[3] % L < L /\ L * g \in Nat
  BY <1>1, <1>3, DivMod
<1>9. S # {}
  BY <1>5
<1> HIDE DEF S, L, g
<1>10. Lo(S) * L <= L * g /\ (Hi(S) + 1) * L >= L * g + L /\ Lo(S) * L \in Nat /\ (Hi(S) + 1) * L \in Nat
  <2>1. L * Lo(S) <= L * g /\ L * Lo(S) = Lo(S) * L /\ L * Lo(S) \in Nat
    BY <1>7, <1>3, Times
  <2>2. g + 1 \in Nat /\ Hi(S) + 1 \in Nat /\ g + 1 <= Hi(S) + 1
    BY <1>7
  <2>3. L * (g + 1) <= L * (Hi(S) + 1) /\ L * (Hi(S) + 1) = (Hi(S) + 1) * L /\ L * (Hi(S) + 1) \in Nat
    BY <2>2, <1>3, Times
  <2>4. L * (g + 1) = L * g + L
    BY <1>7, <1>3, Times
  <2> QED
    BY <2>1, <2>3, <2>4
<1>11. u[3] \in Most(Lo(S) * L - 1, 0) .. Least((Hi(S) + 1) * L + 1, Lines(p, c)) - 1
  BY <1>2, <1>3, <1>8, <1>10, SMT DEF Most, Least
<1> QED
  BY <1>2, <1>9, <1>11 DEF Copied, S, L

-----------------------------------------------------------------------------
\* Units and bands of a pass.

Deblock(v) == [op |-> "deblock", vertical |-> v]
Sao(c) == [op |-> "sao", comp |-> c]

\* Passes that are cut into bands, of picture p.
Banded(p) == {Deblock(v) : v \in BOOLEAN} \cup {Sao(c) : c \in p.comps}

LEMMA UnitsAre ==
    ASSUME NEW p, Picture(p), NEW pass \in Banded(p)
    PROVE  /\ Units(p, pass) \in Nat
           /\ pass.op = "deblock" => 0 .. Units(p, pass) - 1 = 0 .. p.rows - 1 /\ pass.vertical \in BOOLEAN
           /\ pass.op # "deblock" => 0 .. Units(p, pass) - 1 = Ctbs(p) /\ pass.comp \in p.comps
  BY CtbsAre DEF Units, Banded, Deblock, Sao, Picture

\* Two units of a pass write different samples, and neither reads what the other
\* writes: deblocking by its distances, the offset since it reads a copy.
LEMMA UnitsApart ==
    ASSUME NEW p, Picture(p), NEW pass \in Banded(p),
           NEW u \in 0 .. Units(p, pass) - 1, NEW v \in 0 .. Units(p, pass) - 1, u # v
    PROVE  /\ Writes(p, pass, u) \cap Writes(p, pass, v) = {}
           /\ pass.op = "deblock" => Writes(p, pass, u) \cap Reads(p, pass, v) = {}
<1>1. CASE pass.op = "deblock"
  <2>1. u \in 0 .. p.rows - 1 /\ v \in 0 .. p.rows - 1 /\ pass.vertical \in BOOLEAN
    BY <1>1, UnitsAre
  <2>2. EdgeWrites(p, u, pass.vertical) \cap EdgeReads(p, v, pass.vertical) = {}
    BY <2>1, EdgesApart
  <2>3. EdgeWrites(p, v, pass.vertical) \subseteq EdgeReads(p, v, pass.vertical)
    BY <2>1, WritesAreRead
  <2> QED
    BY <1>1, <2>2, <2>3 DEF Writes, Reads
<1>2. CASE pass.op # "deblock"
  <2>1. u \in Ctbs(p) /\ v \in Ctbs(p)
    BY <1>2, UnitsAre
  <2> QED
    BY <1>2, <2>1, SaoApart DEF Writes
<1> QED
  BY <1>1, <1>2

\* The bands of a pass: intervals of it that do not meet, with every unit in one.
LEMMA BandsAre ==
    ASSUME NEW rows \in Nat, FilterAssumption
    PROVE  /\ \A b \in overRows(rows) : /\ b = <<b[1], b[2]>> /\ b[1] \in 0 .. rows /\ b[2] \in 0 .. rows
                                        /\ b[1] <= b[2]
           /\ \A b, o \in overRows(rows) : b # o => b[2] <= o[1] \/ o[2] <= b[1]
           /\ \A u \in 0 .. rows - 1 : \E b \in overRows(rows) : b[1] <= u /\ u < b[2]
<1> DEFINE n == Least(Threads, rows \div MinBands)
           chunk == (rows + n - 1) \div n
           Firsts == {r \in 0 .. rows - 1 : r % chunk = 0}
<1>1. CASE n <= 1
  <2>1. overRows(rows) = {<<0, rows>>}
    BY <1>1 DEF overRows
  <2> QED
    BY <2>1
<1>2. CASE ~(n <= 1)
  <2>1. overRows(rows) = {<<r, Least(r + chunk, rows)>> : r \in Firsts}
    BY <1>2 DEF overRows
  <2>2. n \in Nat /\ n > 1
    <3>1. Threads \in Nat /\ MinBands \in Nat \ {0}
      BY DEF FilterAssumption
    <3>2. rows \div MinBands \in Nat
      BY <3>1, DivMod
    <3> QED
      BY <1>2, <3>1, <3>2 DEF Least
  <2> HIDE DEF n
  <2>3. chunk \in Nat /\ (rows > 0 => chunk > 0)
    <3>1. rows + n - 1 \in Nat /\ n \in Nat \ {0}
      BY <2>2
    <3>2. /\ chunk \in Nat /\ rows + n - 1 = n * chunk + ((rows + n - 1) % n)
          /\ (rows + n - 1) % n \in Nat /\ (rows + n - 1) % n < n
      BY <3>1, DivMod
    <3>3. chunk = 0 => n * chunk = 0
      BY <2>2, SMT
    <3> QED
      BY <3>1, <3>2, <3>3
  <2> HIDE DEF chunk
  <2>4. \A b \in overRows(rows) : \E r \in Firsts : b = <<r, Least(r + chunk, rows)>>
    BY <2>1
  <2>5. ASSUME NEW r \in Firsts
        PROVE  /\ r \in Nat /\ r < rows /\ r % chunk = 0 /\ chunk \in Nat \ {0}
               /\ Least(r + chunk, rows) \in 0 .. rows /\ r < Least(r + chunk, rows)
               /\ Least(r + chunk, rows) <= r + chunk
    BY <2>3 DEF Least
  <2>6. \A b \in overRows(rows) : b = <<b[1], b[2]>> /\ b[1] \in 0 .. rows /\ b[2] \in 0 .. rows /\ b[1] <= b[2]
    BY <2>4, <2>5
  <2>7. ASSUME NEW r \in Firsts, NEW q \in Firsts, r < q PROVE Least(r + chunk, rows) <= q
    <3>1. r + chunk <= q
      BY <2>5, <2>7, MultiplesApart
    <3> QED
      BY <3>1, <2>5
  <2>8. \A b, o \in overRows(rows) : b # o => b[2] <= o[1] \/ o[2] <= b[1]
    <3> SUFFICES ASSUME NEW b \in overRows(rows), NEW o \in overRows(rows), b # o
                 PROVE  b[2] <= o[1] \/ o[2] <= b[1]
      OBVIOUS
    <3>1. PICK r \in Firsts : b = <<r, Least(r + chunk, rows)>>
      BY <2>4
    <3>2. PICK q \in Firsts : o = <<q, Least(q + chunk, rows)>>
      BY <2>4
    <3>3. r # q /\ r \in Nat /\ q \in Nat
      BY <3>1, <3>2
    <3> QED
      BY <3>1, <3>2, <3>3, <2>7
  <2>9. ASSUME NEW u \in 0 .. rows - 1 PROVE \E b \in overRows(rows) : b[1] <= u /\ u < b[2]
    <3>1. chunk \in Nat \ {0} /\ u \in Nat
      BY <2>3
    <3> DEFINE r == chunk * (u \div chunk)
    <3>2. r \in Nat /\ u \div chunk \in Nat /\ u = r + (u % chunk) /\ u % chunk \in Nat /\ u % chunk < chunk
      BY <3>1, DivMod
    <3>3. r % chunk = 0
      <4>1. 0 \in 0 .. chunk - 1 /\ r = chunk * (u \div chunk) + 0
        BY <3>1, <3>2
      <4> QED
        BY <4>1, <3>1, <3>2, DivUnique
    <3> HIDE DEF r
    <3>4. r \in Firsts
      BY <3>2, <3>3
    <3>5. <<r, Least(r + chunk, rows)>> \in overRows(rows)
      BY <3>4, <2>1
    <3>6. r <= u /\ u < Least(r + chunk, rows)
      BY <3>1, <3>2 DEF Least
    <3> QED
      BY <3>5, <3>6
  <2> QED
    BY <2>6, <2>8, <2>9
<1> QED
  BY <1>1, <1>2

-----------------------------------------------------------------------------
\* Types: the bands of a pass are those overRows cuts, each somewhere in its own.

Last(p) == 2 + 2 * Cardinality(p.comps)
Copying(c) == [op |-> "copy", comp |-> c]

LEMMA PassIs ==
    ASSUME NEW p, Picture(p)
    PROVE  /\ (p.comps = {0} /\ Last(p) = 4) \/ (p.comps = {0, 1} /\ Last(p) = 6)
           /\ Passes[1] = Deblock(TRUE) /\ Passes[2] = Deblock(FALSE)
           /\ Passes[3] = Copying(0) /\ Passes[4] = Sao(0)
           /\ Passes[5] = Copying(1) /\ Passes[6] = Sao(1)
<1>1. Cardinality({0}) = 1
  BY FS_Singleton
<1>2. Cardinality({0, 1}) = 2
  <2>1. IsFiniteSet({0}) /\ {0} \cup {1} = {0, 1} /\ 1 \notin {0}
    BY FS_Singleton
  <2>2. Cardinality({0} \cup {1}) = Cardinality({0}) + 1
    BY <2>1, FS_AddElement
  <2> QED
    BY <1>1, <2>1, <2>2
<1>3. (p.comps = {0} /\ Last(p) = 4) \/ (p.comps = {0, 1} /\ Last(p) = 6)
  <2>1. CASE p.comps = {0}
    <3>1. Cardinality(p.comps) = 1
      BY <2>1, <1>1, Zenon
    <3> QED
      BY <2>1, <3>1 DEF Last
  <2>2. CASE p.comps = {0, 1}
    <3>1. Cardinality(p.comps) = 2
      BY <2>2, <1>2, Zenon
    <3> QED
      BY <2>2, <3>1 DEF Last
  <2> QED
    BY <2>1, <2>2 DEF Picture
<1> QED
  BY <1>3 DEF Passes, Deblock, Sao, Copying

\* The stages of a picture, each with its pass.
LEMMA StageIs ==
    ASSUME Picture(pic), stage \in Nat \ {0}, ~Done
    PROVE  \/ stage = 1 /\ Pass = Deblock(TRUE)
           \/ stage = 2 /\ Pass = Deblock(FALSE)
           \/ stage = 3 /\ Pass = Copying(0) /\ 0 \in pic.comps
           \/ stage = 4 /\ Pass = Sao(0) /\ 0 \in pic.comps
           \/ stage = 5 /\ Pass = Copying(1) /\ 1 \in pic.comps
           \/ stage = 6 /\ Pass = Sao(1) /\ 1 \in pic.comps
<1>1. (pic.comps = {0} /\ Last(pic) = 4) \/ (pic.comps = {0, 1} /\ Last(pic) = 6)
  BY PassIs, Zenon
<1>2. ~(stage > Last(pic))
  BY Zenon DEF Done, Last
<1>3. CASE Last(pic) = 4 /\ 0 \in pic.comps
  <2>1. stage = 1 \/ stage = 2 \/ stage = 3 \/ stage = 4
    BY <1>2, <1>3
  <2> QED
    BY <2>1, <1>3, PassIs, Zenon DEF Pass
<1>4. CASE Last(pic) = 6 /\ 0 \in pic.comps /\ 1 \in pic.comps
  <2>1. stage = 1 \/ stage = 2 \/ stage = 3 \/ stage = 4 \/ stage = 5 \/ stage = 6
    BY <1>2, <1>4
  <2> QED
    BY <2>1, <1>4, PassIs, Zenon DEF Pass
<1> QED
  BY <1>1, <1>3, <1>4

Band(b) ==
    /\ bands[b] = [at |-> bands[b].at, got |-> bands[b].got]
    /\ bands[b].at \in b[1] .. b[2]
    /\ bands[b].got # None => bands[b].at < b[2]

Running ==
    /\ ~Done /\ Pass \in Banded(pic)
    /\ bands = [b \in overRows(Units(pic, Pass)) |-> bands[b]]
    /\ \A b \in overRows(Units(pic, Pass)) : Band(b)

TypeInv ==
    /\ pic \in Pictures
    /\ stage \in Nat \ {0}
    /\ bands # <<>> => Running

LEMMA TypeInit == FilterAssumption /\ Init => TypeInv
  BY DEF Init, TypeInv

LEMMA TypeNext == FilterAssumption /\ TypeInv /\ [Next]_vars => TypeInv'
<1> SUFFICES ASSUME FilterAssumption, TypeInv, [Next]_vars PROVE TypeInv'
  OBVIOUS
<1>0. Picture(pic)
  BY DEF FilterAssumption, Picture, TypeInv
<1>1. CASE Start
  <2>1. UNCHANGED <<pic, stage, Pass>> /\ ~Done'
    BY <1>1 DEF Start, Pass, Done
  <2>2. Pass \in Banded(pic)
    <3>1. ~Done /\ Pass.op # "copy" /\ stage \in Nat \ {0}
      BY <1>1 DEF Start, TypeInv
    <3>2. \A c : Copying(c).op = "copy"
      BY DEF Copying
    <3> QED
      BY <1>0, <3>1, <3>2, StageIs DEF Banded
  <2>3. Units(pic, Pass) \in Nat
    BY <1>0, <2>2, UnitsAre
  <2>4. bands' = [b \in overRows(Units(pic, Pass)) |-> [at |-> b[1], got |-> None]]
    BY <1>1 DEF Start
  <2>5. \A b \in overRows(Units(pic, Pass)) : b[1] \in b[1] .. b[2]
    BY <2>3, BandsAre
  <2>6. \A b \in overRows(Units(pic, Pass)) : Band(b)'
    BY <2>4, <2>5 DEF Band
  <2>7. Running'
    BY <2>1, <2>2, <2>4, <2>6 DEF Running
  <2> QED
    BY <2>1, <2>7 DEF TypeInv
<1>2. CASE Copy
  BY <1>2 DEF Copy, TypeInv
<1>3. CASE Join
  BY <1>3 DEF Join, TypeInv
<1>4. ASSUME NEW b \in DOMAIN bands, Fetch(b) PROVE TypeInv'
  <2>1. Running /\ b \in overRows(Units(pic, Pass)) /\ Units(pic, Pass) \in Nat
    BY <1>4, <1>0, UnitsAre DEF TypeInv, Running
  <2>2. UNCHANGED <<pic, stage, Pass>> /\ ~Done'
    BY <1>4, <2>1 DEF Fetch, Pass, Done, Running
  <2>3. \A o \in overRows(Units(pic, Pass)) : o # b => bands'[o] = bands[o]
    BY <1>4, <2>1 DEF Fetch, Running
  <2>4. PICK g : bands'[b] = [bands[b] EXCEPT !.got = g]
    BY <1>4, <2>1 DEF Fetch, Running
  <2>5. bands'[b].at = bands[b].at /\ bands'[b] = [at |-> bands[b].at, got |-> g]
    BY <2>1, <2>4 DEF Running, Band
  <2>6. Band(b)'
    BY <1>4, <2>1, <2>5 DEF Fetch, Running, Band
  <2>7. bands' = [o \in overRows(Units(pic, Pass)) |-> bands'[o]]
    BY <1>4, <2>1 DEF Fetch, Running
  <2>8. \A o \in overRows(Units(pic, Pass)) : Band(o)'
    BY <2>1, <2>3, <2>6 DEF Running, Band
  <2> QED
    BY <2>1, <2>2, <2>7, <2>8 DEF TypeInv, Running
<1>5. ASSUME NEW b \in DOMAIN bands, Store(b) PROVE TypeInv'
  <2>1. Running /\ b \in overRows(Units(pic, Pass)) /\ Units(pic, Pass) \in Nat
    BY <1>5, <1>0, UnitsAre DEF TypeInv, Running
  <2>2. UNCHANGED <<pic, stage, Pass>> /\ ~Done'
    BY <1>5, <2>1 DEF Store, Pass, Done, Running
  <2>3. \A o \in overRows(Units(pic, Pass)) : o # b => bands'[o] = bands[o]
    BY <1>5, <2>1 DEF Store, Running
  <2>4. bands'[b] = [at |-> bands[b].at + 1, got |-> None]
    BY <1>5, <2>1 DEF Store, Running
  <2>5. bands[b].at \in b[1] .. b[2] /\ bands[b].at < b[2] /\ b[1] \in Int /\ b[2] \in Int
    BY <1>5, <2>1, BandsAre DEF Store, Running, Band
  <2>6. Band(b)'
    BY <2>4, <2>5 DEF Band
  <2>7. bands' = [o \in overRows(Units(pic, Pass)) |-> bands'[o]]
    BY <1>5, <2>1 DEF Store, Running
  <2>8. \A o \in overRows(Units(pic, Pass)) : Band(o)'
    BY <2>1, <2>3, <2>6 DEF Running, Band
  <2> QED
    BY <2>1, <2>2, <2>7, <2>8 DEF TypeInv, Running
<1>6. CASE UNCHANGED vars
  BY <1>6 DEF vars, TypeInv, Running, Band, Pass, Done
<1> QED
  BY <1>1, <1>2, <1>3, <1>4, <1>5, <1>6 DEF Next

\* Units that two goroutines are at are two units.
LEMMA AtApart ==
    ASSUME FilterAssumption, TypeInv,
           NEW b \in DOMAIN bands, NEW o \in DOMAIN bands, b # o,
           NEW u \in b[1] .. b[2] - 1, NEW v \in o[1] .. o[2] - 1
    PROVE  /\ u # v /\ u \in 0 .. Units(pic, Pass) - 1 /\ v \in 0 .. Units(pic, Pass) - 1
           /\ Writes(pic, Pass, u) \cap Writes(pic, Pass, v) = {}
           /\ Pass.op = "deblock" => Writes(pic, Pass, u) \cap Reads(pic, Pass, v) = {}
<1>1. Picture(pic) /\ Running
  BY DEF FilterAssumption, Picture, TypeInv
<1>2. Pass \in Banded(pic) /\ DOMAIN bands = overRows(Units(pic, Pass))
  BY <1>1 DEF Running
<1>3. Units(pic, Pass) \in Nat
  BY <1>1, <1>2, UnitsAre
<1>4. /\ b[1] \in 0 .. Units(pic, Pass) /\ b[2] \in 0 .. Units(pic, Pass)
      /\ o[1] \in 0 .. Units(pic, Pass) /\ o[2] \in 0 .. Units(pic, Pass)
      /\ b[2] <= o[1] \/ o[2] <= b[1]
  BY <1>2, <1>3, BandsAre
<1>5. u # v /\ u \in 0 .. Units(pic, Pass) - 1 /\ v \in 0 .. Units(pic, Pass) - 1
  BY <1>3, <1>4
<1> QED
  BY <1>1, <1>2, <1>5, UnitsApart

\* "Every band writes samples no other band touches" (overRows), whatever the
\* number of goroutines, rows and blocks and wherever the edges are filtered.
THEOREM BandsDoNotRace == Spec => []NoRace
<1>1. TypeInv => NoRace
  <2> SUFFICES ASSUME TypeInv,
                      NEW b \in DOMAIN bands, NEW o \in DOMAIN bands, b # o,
                      bands[b].at < b[2], bands[o].at < o[2]
               PROVE  /\ Writes(pic, Pass, bands[b].at) \cap Writes(pic, Pass, bands[o].at) = {}
                      /\ Pass.op = "deblock" =>
                            Writes(pic, Pass, bands[b].at) \cap Reads(pic, Pass, bands[o].at) = {}
    BY DEF NoRace
  <2>1. Running /\ Units(pic, Pass) \in Nat /\ DOMAIN bands = overRows(Units(pic, Pass))
    BY FilterAssumption, UnitsAre DEF TypeInv, Running, FilterAssumption, Picture
  <2>2. /\ bands[b].at \in b[1] .. b[2] /\ bands[o].at \in o[1] .. o[2]
        /\ {b[1], b[2], o[1], o[2]} \subseteq Int
    BY <2>1, FilterAssumption, BandsAre DEF Running, Band
  <2>3. bands[b].at \in b[1] .. b[2] - 1 /\ bands[o].at \in o[1] .. o[2] - 1
    BY <2>2
  <2> QED
    BY <2>3, FilterAssumption, AtApart
<1> QED
  BY <1>1, TypeInit, TypeNext, FilterAssumption, PTL DEF Spec

-----------------------------------------------------------------------------
\* What a goroutine writes is what the encoder has there after the pass.

\* The samples before stage n, as the encoder has them.
At(p, n, s) ==
    IF n = 1 THEN Reconstructed
    ELSE IF n = 2 THEN AfterVertical(p, s)
    ELSE IF n > 6 \/ (n > 4 /\ s[1] = 0) THEN applySAO(p, deblockRecon(p))[s]
    ELSE deblockRecon(p)[s]

\* Units a goroutine has behind it that write a sample.
Wrote(b, s) == \E u \in b[1] .. bands[b].at - 1 : s \in Writes(pic, Pass, u)
LEMMA VerticalRow ==
    ASSUME NEW p, Picture(p), NEW r \in 0 .. p.rows - 1, NEW s \in EdgeWrites(p, r, TRUE)
    PROVE  s \in Samples(p) /\ RowOf(p, s) = r
<1>1. s \in Samples(p) /\ s[3] \in Above(p, s[1], r) .. Above(p, s[1], r + 1) - 1
  BY DEF EdgeWrites, EdgeLines
<1>2. s[3] \in Nat /\ Sub(p, s[1]) \in {1, 2} /\ r \in Nat
  BY <1>1, SampleIs DEF Picture
<1>3. RowOf(p, s) = r
  BY <1>1, <1>2, SMT DEF Above, RowOf
<1> QED
  BY <1>1, <1>3

LEMMA StoredVertical ==
    ASSUME NEW p, Picture(p), NEW r \in 0 .. p.rows - 1, NEW s \in EdgeWrites(p, r, TRUE),
           NEW got, got = [t \in EdgeReads(p, r, TRUE) |-> At(p, 1, t)]
    PROVE  EdgeValue(s, r, TRUE, got) = At(p, 2, s)
<1>1. RowOf(p, s) = r /\ RowsAt(p, s, TRUE) # {} /\ s \in EdgeReads(p, r, TRUE)
  BY VerticalRow, WritesAreRead DEF RowsAt
<1>2. \A t \in EdgeReads(p, r, TRUE) : got[t] = Reconstructed
  BY DEF At
<1> DEFINE T == {u \in DOMAIN got : /\ u[1] = s[1] /\ u[2] = s[2]
                                    /\ TRUE => u[3] = s[3]}
<1>3. T \subseteq EdgeReads(p, r, TRUE) /\ s \in T
  BY <1>1
<1>4. {got[t] : t \in T} = {Reconstructed}
  BY <1>2, <1>3
<1>5. EdgeValue(s, r, TRUE, got) = [edge |-> <<TRUE, r>>, of |-> {got[t] : t \in T}]
  BY Zenon DEF EdgeValue
<1>6. At(p, 2, s) = [edge |-> <<TRUE, r>>, of |-> {Reconstructed}]
  <2>1. At(p, 2, s) = AfterVertical(p, s)
    BY DEF At
  <2> QED
    BY <1>1, <2>1, Zenon DEF AfterVertical
<1> QED
  BY <1>4, <1>5, <1>6

LEMMA StoredHorizontal ==
    ASSUME NEW p, Picture(p), NEW r \in 0 .. p.rows - 1, NEW s \in EdgeWrites(p, r, FALSE),
           NEW got, got = [t \in EdgeReads(p, r, FALSE) |-> At(p, 2, t)]
    PROVE  EdgeValue(s, r, FALSE, got) = At(p, 3, s)
<1>1. s \in Samples(p) /\ r \in RowsAt(p, s, FALSE)
  BY DEF EdgeWrites, RowsAt
<1>2. \A q \in RowsAt(p, s, FALSE) : q = r
  <2> SUFFICES ASSUME NEW q \in RowsAt(p, s, FALSE), q # r PROVE FALSE
    OBVIOUS
  <2>1. q \in 0 .. p.rows - 1 /\ s \in EdgeWrites(p, q, FALSE)
    BY DEF RowsAt
  <2>2. s \in EdgeReads(p, r, FALSE)
    BY WritesAreRead
  <2> QED
    BY <2>1, <2>2, EdgesApart
<1>3. (CHOOSE q \in RowsAt(p, s, FALSE) : TRUE) = r
  BY <1>1, <1>2
<1> DEFINE T == {t \in EdgeReads(p, r, FALSE) : t[1] = s[1] /\ t[2] = s[2]}
<1>4. deblockRecon(p)[s] = [edge |-> <<FALSE, r>>, of |-> {AfterVertical(p, t) : t \in T}]
  BY <1>1, <1>3 DEF deblockRecon
<1>5. EdgeValue(s, r, FALSE, got) = [edge |-> <<FALSE, r>>, of |-> {got[t] : t \in T}]
  <2> DEFINE U == {u \in DOMAIN got : /\ u[1] = s[1] /\ u[2] = s[2]
                                      /\ FALSE => u[3] = s[3]}
  <2>1. U = T
    OBVIOUS
  <2>2. EdgeValue(s, r, FALSE, got) = [edge |-> <<FALSE, r>>, of |-> {got[t] : t \in U}]
    BY Zenon DEF EdgeValue
  <2> HIDE DEF T, U
  <2> QED
    BY <2>1, <2>2, Zenon
<1>6. {got[t] : t \in T} = {AfterVertical(p, t) : t \in T}
  <2>1. \A t \in T : got[t] = AfterVertical(p, t)
    BY DEF At
  <2> HIDE DEF T
  <2> QED
    BY <2>1
<1>7. At(p, 3, s) = deblockRecon(p)[s]
  BY DEF At
<1> QED
  BY <1>4, <1>5, <1>6, <1>7

LEMMA StoredSao ==
    ASSUME NEW p, Picture(p), NEW c \in p.comps, NEW k \in Ctbs(p), NEW s \in SaoWrites(p, c, k),
           NEW got, got = [t \in SaoReads(p, c, k) |-> deblockRecon(p)[t]]
    PROVE  SaoValue(p, k, s, got) = applySAO(p, deblockRecon(p))[s]
<1>1. s \in InCtb(p, c, k) /\ s \in Samples(p) /\ s[1] = c
  BY DEF SaoWrites, InCtb
<1>2. CtbAt(p, s) = k
  BY <1>1, CtbIsOne
<1>3. applySAO(p, deblockRecon(p))[s] = SaoValue(p, k, s, deblockRecon(p))
  BY <1>1, <1>2 DEF applySAO
<1>4. \A t \in Compared(p, k, s) : got[t] = deblockRecon(p)[t]
  BY DEF SaoReads
<1>5. {got[t] : t \in Compared(p, k, s)} = {deblockRecon(p)[t] : t \in Compared(p, k, s)}
  BY <1>4
<1> QED
  BY <1>3, <1>5, Zenon DEF SaoValue

LEMMA Stored ==
    ASSUME Picture(pic), stage \in Nat \ {0}, ~Done, Pass \in Banded(pic),
           NEW u \in 0 .. Units(pic, Pass) - 1, NEW s \in Writes(pic, Pass, u),
           NEW got, got = [t \in Reads(pic, Pass, u) |-> At(pic, stage, t)]
    PROVE  Value(pic, Pass, u, s, got) = At(pic, stage + 1, s)
<1>1. CASE stage = 1 /\ Pass = Deblock(TRUE)
  <2>1. Pass.op = "deblock" /\ Pass.vertical = TRUE /\ u \in 0 .. pic.rows - 1
    BY <1>1, UnitsAre DEF Deblock
  <2>2. s \in EdgeWrites(pic, u, TRUE) /\ Reads(pic, Pass, u) = EdgeReads(pic, u, TRUE)
    BY <2>1 DEF Writes, Reads
  <2>3. EdgeValue(s, u, TRUE, got) = At(pic, 2, s)
    BY <1>1, <2>1, <2>2, StoredVertical
  <2>4. stage + 1 = 2
    BY <1>1
  <2> QED
    BY <2>1, <2>3, <2>4, Zenon DEF Value
<1>2. CASE stage = 2 /\ Pass = Deblock(FALSE)
  <2>1. Pass.op = "deblock" /\ Pass.vertical = FALSE /\ u \in 0 .. pic.rows - 1
    BY <1>2, UnitsAre DEF Deblock
  <2>2. s \in EdgeWrites(pic, u, FALSE) /\ Reads(pic, Pass, u) = EdgeReads(pic, u, FALSE)
    BY <2>1 DEF Writes, Reads
  <2>3. EdgeValue(s, u, FALSE, got) = At(pic, 3, s)
    BY <1>2, <2>1, <2>2, StoredHorizontal
  <2>4. stage + 1 = 3
    BY <1>2
  <2> QED
    BY <2>1, <2>3, <2>4, Zenon DEF Value
<1>3. ASSUME NEW c \in pic.comps, Pass = Sao(c), (stage = 4 /\ c = 0) \/ (stage = 6 /\ c = 1)
      PROVE  Value(pic, Pass, u, s, got) = At(pic, stage + 1, s)
  <2>1. Pass.op # "deblock" /\ Pass.comp = c /\ u \in Ctbs(pic)
    BY <1>3, UnitsAre DEF Sao
  <2>2. s \in SaoWrites(pic, c, u) /\ Reads(pic, Pass, u) = SaoReads(pic, c, u)
    BY <2>1 DEF Writes, Reads
  <2>3. s[1] = c /\ \A t \in SaoReads(pic, c, u) : t[1] = c
    BY <2>2 DEF SaoReads, SaoWrites, InCtb, Compared
  <2>4. \A t \in SaoReads(pic, c, u) : At(pic, stage, t) = deblockRecon(pic)[t]
    BY <1>3, <2>3 DEF At
  <2>5. got = [t \in SaoReads(pic, c, u) |-> deblockRecon(pic)[t]]
    BY <2>2, <2>4
  <2>6. SaoValue(pic, u, s, got) = applySAO(pic, deblockRecon(pic))[s]
    BY <2>1, <2>2, <2>5, StoredSao
  <2>7. At(pic, stage + 1, s) = applySAO(pic, deblockRecon(pic))[s]
    BY <1>3, <2>3 DEF At
  <2> QED
    BY <2>1, <2>6, <2>7 DEF Value
<1>4. \A c : Copying(c) \notin Banded(pic)
  BY DEF Copying, Banded, Deblock, Sao
<1> QED
  BY <1>1, <1>2, <1>3, <1>4, StageIs

\* What no unit of a pass writes is the same behind it, and a copy changes nothing.
LEMMA Untouched ==
    ASSUME Picture(pic), stage \in Nat \ {0}, ~Done, Pass \in Banded(pic),
           NEW s \in Samples(pic), \A u \in 0 .. Units(pic, Pass) - 1 : s \notin Writes(pic, Pass, u)
    PROVE  At(pic, stage + 1, s) = At(pic, stage, s)
<1>1. CASE stage = 1 /\ Pass = Deblock(TRUE)
  <2>1. Pass.op = "deblock" /\ Pass.vertical = TRUE /\ 0 .. Units(pic, Pass) - 1 = 0 .. pic.rows - 1
    BY <1>1, UnitsAre DEF Deblock
  <2>2. RowsAt(pic, s, TRUE) = {}
    BY <2>1 DEF RowsAt, Writes
  <2> QED
    BY <1>1, <2>2 DEF At, AfterVertical
<1>2. CASE stage = 2 /\ Pass = Deblock(FALSE)
  <2>1. Pass.op = "deblock" /\ Pass.vertical = FALSE /\ 0 .. Units(pic, Pass) - 1 = 0 .. pic.rows - 1
    BY <1>2, UnitsAre DEF Deblock
  <2>2. RowsAt(pic, s, FALSE) = {}
    BY <2>1 DEF RowsAt, Writes
  <2>3. deblockRecon(pic)[s] = AfterVertical(pic, s)
    BY <2>2 DEF deblockRecon
  <2> QED
    BY <1>2, <2>3 DEF At
<1>3. ASSUME NEW c \in pic.comps, Pass = Sao(c), (stage = 4 /\ c = 0) \/ (stage = 6 /\ c = 1)
      PROVE  At(pic, stage + 1, s) = At(pic, stage, s)
  <2>1. Pass.op # "deblock" /\ Pass.comp = c /\ 0 .. Units(pic, Pass) - 1 = Ctbs(pic)
    BY <1>3, UnitsAre DEF Sao
  <2>2. CtbAt(pic, s) \in Ctbs(pic) /\ s[1] \in pic.comps
    BY CtbExists, SampleIs
  <2>3. s[1] = c => applySAO(pic, deblockRecon(pic))[s] = deblockRecon(pic)[s]
    BY <2>1, <2>2 DEF Writes, applySAO
  <2>4. s[1] = 0 \/ s[1] = 1
    BY <2>2 DEF Picture
  <2> QED
    BY <1>3, <2>3, <2>4 DEF At
<1>4. \A c : Copying(c) \notin Banded(pic)
  BY DEF Copying, Banded, Deblock, Sao
<1> QED
  BY <1>1, <1>2, <1>3, <1>4, StageIs

-----------------------------------------------------------------------------
\* The invariant: what has been written is what the encoder has there after the
\* pass, all else what it has before, and nobody holds anything older.


PlaneInv ==
    /\ plane = [s \in Samples(pic) |-> plane[s]]
    /\ \A s \in Samples(pic) :
          plane[s] = IF \E b \in DOMAIN bands : Wrote(b, s)
                     THEN At(pic, stage + 1, s) ELSE At(pic, stage, s)

GotInv ==
    \A b \in DOMAIN bands :
        bands[b].got # None =>
            bands[b].got = [s \in Reads(pic, Pass, bands[b].at) |-> At(pic, stage, s)]

SrcInv ==
    /\ src = [q \in (0 .. pic.cols - 1) \X (0 .. Lines(pic, 0) - 1) |-> src[q]]
    /\ ~Done /\ stage \in {4, 6} =>
          \A s \in Copied(pic, Pass.comp) : src[<<s[2], s[3]>>] = At(pic, stage, s)

FilterInv == TypeInv /\ PlaneInv /\ GotInv /\ SrcInv

LEMMA FilterInit == FilterAssumption /\ Init => FilterInv
<1> SUFFICES ASSUME FilterAssumption, Init PROVE FilterInv
  OBVIOUS
<1>1. bands = <<>> /\ stage = 1 /\ plane = [s \in Samples(pic) |-> Reconstructed]
  BY DEF Init
<1>2. \A s \in Samples(pic) : plane[s] = At(pic, stage, s)
  BY <1>1 DEF At
<1>3. PlaneInv
  BY <1>1, <1>2 DEF PlaneInv
<1>4. GotInv
  BY <1>1 DEF GotInv
<1>5. SrcInv
  BY <1>1 DEF SrcInv, Init
<1> QED
  BY <1>3, <1>4, <1>5, TypeInit DEF FilterInv

\* A unit behind a goroutine is a unit of the pass, and not one in hand.
LEMMA BehindIs ==
    ASSUME FilterAssumption, TypeInv,
           NEW b \in DOMAIN bands, bands[b].at < b[2],
           NEW o \in DOMAIN bands, NEW u \in o[1] .. bands[o].at - 1
    PROVE  /\ Units(pic, Pass) \in Nat /\ bands[b].at \in b[1] .. b[2] - 1
           /\ u \in 0 .. Units(pic, Pass) - 1 /\ bands[b].at \in 0 .. Units(pic, Pass) - 1
           /\ u # bands[b].at
<1>1. Picture(pic) /\ Running /\ DOMAIN bands = overRows(Units(pic, Pass))
  BY DEF FilterAssumption, Picture, TypeInv, Running
<1>2. Units(pic, Pass) \in Nat
  BY <1>1, UnitsAre DEF Running
<1>3. /\ b[1] \in 0 .. Units(pic, Pass) /\ b[2] \in 0 .. Units(pic, Pass)
      /\ o[1] \in 0 .. Units(pic, Pass) /\ o[2] \in 0 .. Units(pic, Pass)
  BY <1>1, <1>2, BandsAre
<1>4. bands[b].at \in b[1] .. b[2] /\ bands[o].at \in o[1] .. o[2]
  BY <1>1 DEF Running, Band
<1>5. bands[b].at \in b[1] .. b[2] - 1 /\ u \in o[1] .. o[2] - 1
  BY <1>3, <1>4
<1>6. u \in 0 .. Units(pic, Pass) - 1 /\ bands[b].at \in 0 .. Units(pic, Pass) - 1
  BY <1>2, <1>3, <1>5
<1>7. CASE o = b
  BY <1>2, <1>4, <1>5, <1>6, <1>7
<1>8. CASE o # b
  BY <1>2, <1>5, <1>6, <1>8, AtApart
<1> QED
  BY <1>2, <1>5, <1>6, <1>7, <1>8

LEMMA PlaneNext == FilterAssumption /\ FilterInv /\ [Next]_vars => PlaneInv'
<1> SUFFICES ASSUME FilterAssumption, FilterInv, [Next]_vars PROVE PlaneInv'
  OBVIOUS
<1>0. Picture(pic) /\ TypeInv /\ PlaneInv /\ GotInv /\ stage \in Nat \ {0} /\ TypeInv'
  BY TypeNext DEF FilterInv, FilterAssumption, Picture, TypeInv
<1>1. CASE Start
  <2>1. UNCHANGED <<pic, stage, plane, Pass>> /\ bands = <<>>
    BY <1>1 DEF Start, Pass
  <2>2. bands' = [b \in overRows(Units(pic, Pass)) |-> [at |-> b[1], got |-> None]]
    BY <1>1 DEF Start
  <2>4. ASSUME NEW b \in DOMAIN bands', NEW s, Wrote(b, s)' PROVE FALSE
    <3>1. bands' # <<>>
      OBVIOUS
    <3>2. Pass \in Banded(pic)
      BY <1>0, <2>1, <3>1 DEF TypeInv, Running
    <3>3. \A o \in overRows(Units(pic, Pass)) : o[1] \in Nat
      BY <3>2, <1>0, UnitsAre, BandsAre
    <3>4. b[1] \in Int /\ bands'[b].at = b[1]
      BY <2>2, <3>3
    <3> QED
      BY <2>4, <3>4 DEF Wrote
  <2>5. \A s \in Samples(pic) : plane[s] = At(pic, stage, s)
    BY <1>0, <2>1 DEF PlaneInv
  <2> QED
    BY <1>0, <2>1, <2>4, <2>5 DEF PlaneInv
<1>2. CASE Copy
  <2>1. UNCHANGED <<pic, plane>> /\ stage' = stage + 1 /\ bands = <<>> /\ bands' = <<>>
    BY <1>2 DEF Copy
  <2>2. stage \in {3, 5}
    <3>1. ~Done /\ Pass.op = "copy"
      BY <1>2 DEF Copy
    <3> QED
      BY <1>0, <3>1, StageIs DEF Deblock, Sao
  <2>3. \A s : At(pic, stage + 1, s) = At(pic, stage, s)
    BY <2>2 DEF At
  <2>4. \A s \in Samples(pic) : plane[s] = At(pic, stage, s)
    BY <1>0, <2>1 DEF PlaneInv
  <2> QED
    BY <1>0, <2>1, <2>3, <2>4 DEF PlaneInv
<1>3. CASE Join
  <2>1. /\ UNCHANGED <<pic, plane>> /\ stage' = stage + 1 /\ bands # <<>> /\ bands' = <<>>
        /\ \A b \in DOMAIN bands : bands[b].at = b[2]
    BY <1>3 DEF Join
  <2>2. Running /\ DOMAIN bands = overRows(Units(pic, Pass)) /\ Units(pic, Pass) \in Nat
    BY <1>0, <2>1, UnitsAre DEF TypeInv, Running
  <2>3. ASSUME NEW s \in Samples(pic) PROVE plane[s] = At(pic, stage + 1, s)
    <3>1. CASE \E b \in DOMAIN bands : Wrote(b, s)
      BY <1>0, <2>1, <3>1 DEF PlaneInv
    <3>2. CASE ~\E b \in DOMAIN bands : Wrote(b, s)
      <4>1. ASSUME NEW u \in 0 .. Units(pic, Pass) - 1, s \in Writes(pic, Pass, u) PROVE FALSE
        <5>1. PICK b \in overRows(Units(pic, Pass)) : b[1] <= u /\ u < b[2]
          BY <2>2, BandsAre
        <5>2. b[1] \in Int /\ b[2] \in Int
          BY <2>2, BandsAre
        <5>3. u \in b[1] .. bands[b].at - 1
          BY <2>1, <2>2, <5>1, <5>2
        <5> QED
          BY <5>3, <4>1, <3>2, <2>2 DEF Wrote
      <4>2. At(pic, stage + 1, s) = At(pic, stage, s)
        BY <1>0, <2>2, <4>1, Untouched DEF Running
      <4> QED
        BY <1>0, <3>2, <4>2 DEF PlaneInv
    <3> QED
      BY <3>1, <3>2
  <2> QED
    BY <1>0, <2>1, <2>3 DEF PlaneInv
<1>4. ASSUME NEW b \in DOMAIN bands, Fetch(b) PROVE PlaneInv'
  <2>1. UNCHANGED <<pic, stage, plane, Pass>> /\ Running
    BY <1>0, <1>4 DEF Fetch, Pass, TypeInv
  <2>2. DOMAIN bands' = DOMAIN bands /\ \A o \in DOMAIN bands : bands'[o].at = bands[o].at
    BY <1>4, <2>1 DEF Fetch, Running, Band
  <2>4. \A s : \A o \in DOMAIN bands : Wrote(o, s)' <=> Wrote(o, s)
    BY <2>1, <2>2 DEF Wrote
  <2> QED
    BY <1>0, <2>1, <2>2, <2>4 DEF PlaneInv
<1>5. ASSUME NEW b \in DOMAIN bands, Store(b) PROVE PlaneInv'
  <2> DEFINE u == bands[b].at
             got == bands[b].got
  <2>1. UNCHANGED <<pic, stage, Pass>> /\ Running /\ bands # <<>>
    BY <1>0, <1>5 DEF Store, Pass, TypeInv
  <2>2. /\ DOMAIN bands' = DOMAIN bands /\ bands'[b].at = u + 1
        /\ \A o \in DOMAIN bands : o # b => bands'[o] = bands[o]
    BY <1>5, <2>1 DEF Store, Running
  <2>3. plane' = [s \in Samples(pic) |-> IF s \in Writes(pic, Pass, u)
                                         THEN Value(pic, Pass, u, s, got) ELSE plane[s]]
    BY <1>0, <1>5 DEF Store, PlaneInv
  <2>4. got = [t \in Reads(pic, Pass, u) |-> At(pic, stage, t)]
    BY <1>0, <1>5 DEF Store, GotInv
  <2>5. Units(pic, Pass) \in Nat /\ DOMAIN bands = overRows(Units(pic, Pass))
    BY <1>0, <2>1, UnitsAre DEF Running
  <2>6. u \in b[1] .. b[2] /\ u < b[2] /\ b[1] \in 0 .. Units(pic, Pass) /\ b[2] \in 0 .. Units(pic, Pass)
    BY <1>5, <2>1, <2>5, BandsAre DEF Store, Running, Band
  <2>7. u \in 0 .. Units(pic, Pass) - 1
    BY <2>5, <2>6
  <2>8. \A s \in Writes(pic, Pass, u) : Value(pic, Pass, u, s, got) = At(pic, stage + 1, s)
    BY <1>0, <2>1, <2>4, <2>7, Stored DEF Running
  <2>9. b[1] .. bands'[b].at - 1 = (b[1] .. bands[b].at - 1) \cup {u}
    BY <2>2, <2>6
  <2>10. \A s : Wrote(b, s)' <=> Wrote(b, s) \/ s \in Writes(pic, Pass, u)
    BY <2>1, <2>9 DEF Wrote
  <2>11. \A s : \A o \in DOMAIN bands : o # b => (Wrote(o, s)' <=> Wrote(o, s))
    BY <2>1, <2>2 DEF Wrote
  <2>12. ASSUME NEW s \in Samples(pic)
         PROVE  (\E o \in DOMAIN bands' : Wrote(o, s)')
                    <=> (\E o \in DOMAIN bands : Wrote(o, s)) \/ s \in Writes(pic, Pass, u)
    BY <1>5, <2>2, <2>10, <2>11
  <2>13. \A s \in Samples(pic) : plane[s] = IF \E o \in DOMAIN bands : Wrote(o, s)
                                            THEN At(pic, stage + 1, s) ELSE At(pic, stage, s)
    BY <1>0 DEF PlaneInv
  <2>14. ASSUME NEW s \in Samples(pic)
         PROVE  plane'[s] = IF \E o \in DOMAIN bands' : Wrote(o, s)'
                            THEN At(pic, stage + 1, s) ELSE At(pic, stage, s)
    <3>1. CASE s \in Writes(pic, Pass, u)
      BY <2>3, <2>8, <2>12, <3>1
    <3>2. CASE s \notin Writes(pic, Pass, u)
      <4>1. plane'[s] = plane[s]
        BY <2>3, <3>2
      <4> QED
        BY <4>1, <2>12, <2>13, <3>2
    <3> QED
      BY <3>1, <3>2
  <2>15. plane' = [s \in Samples(pic) |-> plane'[s]]
    BY <2>3
  <2> QED
    BY <2>1, <2>14, <2>15 DEF PlaneInv
<1>6. CASE UNCHANGED vars
  BY <1>6, <1>0 DEF vars, PlaneInv, Wrote, Pass
<1> QED
  BY <1>1, <1>2, <1>3, <1>4, <1>5, <1>6 DEF Next

LEMMA SaoReadsAreSamples ==
    ASSUME NEW p, NEW c, NEW k PROVE \A s \in SaoReads(p, c, k) : s \in Samples(p)
  BY DEF SaoReads, Compared

\* What a goroutine takes is from before the pass: nobody has written it yet, or it
\* is in the copy.
LEMMA GotNext == FilterAssumption /\ FilterInv /\ [Next]_vars => GotInv'
<1> SUFFICES ASSUME FilterAssumption, FilterInv, [Next]_vars PROVE GotInv'
  OBVIOUS
<1>0. Picture(pic) /\ TypeInv /\ PlaneInv /\ GotInv /\ SrcInv /\ stage \in Nat \ {0}
  BY DEF FilterInv, FilterAssumption, Picture, TypeInv
<1>1. CASE Start
  BY <1>1 DEF Start, GotInv
<1>2. CASE Copy
  BY <1>2 DEF Copy, GotInv
<1>3. CASE Join
  BY <1>3 DEF Join, GotInv
<1>4. ASSUME NEW b \in DOMAIN bands, Fetch(b) PROVE GotInv'
  <2> DEFINE u == bands[b].at
  <2>1. UNCHANGED <<pic, stage, Pass>> /\ Running /\ bands # <<>>
    BY <1>0, <1>4 DEF Fetch, Pass, TypeInv
  <2>2. /\ DOMAIN bands' = DOMAIN bands /\ bands'[b].at = u
        /\ bands'[b].got = [s \in Reads(pic, Pass, u) |-> From(Pass)[s]]
        /\ \A o \in DOMAIN bands : o # b => bands'[o] = bands[o]
    BY <1>4, <2>1 DEF Fetch, Running, Band
  <2>3. u < b[2]
    BY <1>4 DEF Fetch
  <2>4. Pass \in Banded(pic) /\ ~Done
    BY <2>1 DEF Running
  <2>5. Units(pic, Pass) \in Nat /\ u \in 0 .. Units(pic, Pass) - 1
    <3>1. DOMAIN bands = overRows(Units(pic, Pass)) /\ Units(pic, Pass) \in Nat
      BY <1>0, <2>1, UnitsAre DEF Running
    <3>2. u \in b[1] .. b[2] /\ b[1] \in 0 .. Units(pic, Pass) /\ b[2] \in 0 .. Units(pic, Pass)
      BY <2>1, <3>1, BandsAre DEF Running, Band
    <3> QED
      BY <2>3, <3>1, <3>2
  <2>6. ASSUME NEW s \in Reads(pic, Pass, u) PROVE From(Pass)[s] = At(pic, stage, s)
    <3>1. CASE Pass.op = "deblock"
      <4>1. s \in Samples(pic)
        BY <3>1 DEF Reads, EdgeReads
      <4>2. ASSUME NEW o \in DOMAIN bands, Wrote(o, s) PROVE FALSE
        <5>1. PICK v \in o[1] .. bands[o].at - 1 : s \in Writes(pic, Pass, v)
          BY <4>2 DEF Wrote
        <5>2. v # u /\ v \in 0 .. Units(pic, Pass) - 1
          BY <1>0, <2>3, BehindIs
        <5>3. Writes(pic, Pass, v) \cap Reads(pic, Pass, u) = {}
          BY <1>0, <2>4, <2>5, <5>2, <3>1, UnitsApart
        <5> QED
          BY <5>1, <5>3
      <4>3. plane[s] = At(pic, stage, s)
        BY <1>0, <4>1, <4>2 DEF PlaneInv
      <4> QED
        BY <3>1, <4>3 DEF From
    <3>2. CASE Pass.op # "deblock"
      <4>1. Pass.comp \in pic.comps /\ u \in Ctbs(pic) /\ s \in SaoReads(pic, Pass.comp, u)
        BY <1>0, <2>4, <2>5, <3>2, UnitsAre DEF Reads
      <4>2. s \in Copied(pic, Pass.comp) /\ s \in Samples(pic)
        BY <1>0, <4>1, CopyCovers, SaoReadsAreSamples
      <4>3. stage \in {4, 6}
        <5>1. \A c : Copying(c) \notin Banded(pic)
          BY DEF Copying, Banded, Deblock, Sao
        <5> QED
          BY <1>0, <2>4, <3>2, <5>1, StageIs DEF Deblock
      <4>4. src[<<s[2], s[3]>>] = At(pic, stage, s)
        BY <1>0, <2>4, <4>2, <4>3 DEF SrcInv
      <4>5. s \in DOMAIN plane
        BY <1>0, <4>2 DEF PlaneInv
      <4> QED
        BY <3>2, <4>4, <4>5 DEF From
    <3> QED
      BY <3>1, <3>2
  <2>7. bands'[b].got = [s \in Reads(pic, Pass, u) |-> At(pic, stage, s)]
    BY <2>2, <2>6
  <2> QED
    BY <1>0, <2>1, <2>2, <2>7 DEF GotInv
<1>5. ASSUME NEW b \in DOMAIN bands, Store(b) PROVE GotInv'
  <2>1. UNCHANGED <<pic, stage, Pass>> /\ Running /\ bands # <<>>
    BY <1>0, <1>5 DEF Store, Pass, TypeInv
  <2>2. /\ DOMAIN bands' = DOMAIN bands /\ bands'[b].got = None
        /\ \A o \in DOMAIN bands : o # b => bands'[o] = bands[o]
    BY <1>5, <2>1 DEF Store, Running
  <2> QED
    BY <1>0, <2>1, <2>2 DEF GotInv
<1>6. CASE UNCHANGED vars
  BY <1>6, <1>0 DEF vars, GotInv, Pass
<1> QED
  BY <1>1, <1>2, <1>3, <1>4, <1>5, <1>6 DEF Next

LEMMA SrcNext == FilterAssumption /\ FilterInv /\ [Next]_vars => SrcInv'
<1> SUFFICES ASSUME FilterAssumption, FilterInv, [Next]_vars PROVE SrcInv'
  OBVIOUS
<1>0. Picture(pic) /\ TypeInv /\ PlaneInv /\ SrcInv /\ stage \in Nat \ {0}
  BY DEF FilterInv, FilterAssumption, Picture, TypeInv
<1>1. CASE Copy
  <2>1. /\ UNCHANGED <<pic, plane>> /\ stage' = stage + 1 /\ bands = <<>> /\ ~Done /\ Pass.op = "copy"
        /\ src' = [q \in DOMAIN src |-> IF <<Pass.comp, q[1], q[2]>> \in Copied(pic, Pass.comp)
                                        THEN plane[<<Pass.comp, q[1], q[2]>>] ELSE src[q]]
    BY <1>1 DEF Copy
  <2>2. DOMAIN src = (0 .. pic.cols - 1) \X (0 .. Lines(pic, 0) - 1)
    BY <1>0 DEF SrcInv
  <2>3. PICK c \in pic.comps : Pass = Copying(c) /\ ((stage = 3 /\ c = 0) \/ (stage = 5 /\ c = 1))
    BY <1>0, <2>1, StageIs DEF Deblock, Sao
  <2>4. ASSUME ~Done' PROVE Pass' = Sao(c)
    <3>1. (stage' = 4 /\ c = 0) \/ (stage' = 6 /\ c = 1)
      BY <2>1, <2>3
    <3>2. Pass' = Passes[stage']
      BY DEF Pass
    <3>3. Passes[4] = Sao(0) /\ Passes[6] = Sao(1)
      BY <1>0, PassIs
    <3> QED
      BY <3>1, <3>2, <3>3, Zenon
  <2>5. ASSUME NEW s \in Copied(pic, c) PROVE src'[<<s[2], s[3]>>] = At(pic, stage + 1, s)
    <3>1. s \in Samples(pic) /\ s[1] = c
      BY DEF Copied
    <3>2. s = <<c, s[2], s[3]>> /\ s[2] \in 0 .. pic.cols - 1 /\ s[3] \in 0 .. Lines(pic, c) - 1
      BY <1>0, <3>1, SampleIs
    <3>3. Lines(pic, c) <= Lines(pic, 0) /\ Lines(pic, c) \in Int /\ Lines(pic, 0) \in Int
      BY <1>0 DEF Lines, Sub, Picture
    <3>4. <<s[2], s[3]>> \in DOMAIN src
      BY <2>2, <3>2, <3>3
    <3>5. Pass.comp = c
      BY <2>3 DEF Copying
    <3>6. src'[<<s[2], s[3]>>] = plane[s]
      BY <2>1, <3>2, <3>4, <3>5
    <3>7. plane[s] = At(pic, stage, s)
      BY <1>0, <2>1, <3>1 DEF PlaneInv
    <3>8. At(pic, stage, s) = At(pic, stage + 1, s)
      BY <2>3 DEF At
    <3> QED
      BY <3>6, <3>7, <3>8
  <2>6. ~Done' => \A s \in Copied(pic', Pass'.comp) : src'[<<s[2], s[3]>>] = At(pic', stage', s)
    <3>1. ASSUME ~Done' PROVE Pass'.comp = c
      BY <2>4, <3>1 DEF Sao
    <3> QED
      BY <2>1, <2>5, <3>1
  <2>7. src' = [q \in (0 .. pic'.cols - 1) \X (0 .. Lines(pic', 0) - 1) |-> src'[q]]
    BY <2>1, <2>2
  <2> QED
    BY <2>6, <2>7 DEF SrcInv
<1>2. CASE Join
  <2>1. /\ UNCHANGED <<pic, src>> /\ stage' = stage + 1 /\ bands # <<>>
    BY <1>2 DEF Join
  <2>2. stage' \notin {4, 6}
    <3>1. \A c : Copying(c) \notin Banded(pic)
      BY DEF Copying, Banded, Deblock, Sao
    <3>2. Pass \in Banded(pic) /\ ~Done
      BY <1>0, <2>1 DEF TypeInv, Running
    <3>3. stage = 3 => Pass = Copying(0)
      BY <1>0, <3>2, StageIs
    <3>4. stage = 5 => Pass = Copying(1)
      BY <1>0, <3>2, StageIs
    <3> QED
      BY <1>0, <2>1, <3>1, <3>2, <3>3, <3>4
  <2> QED
    BY <1>0, <2>1, <2>2 DEF SrcInv
<1>3. ASSUME UNCHANGED <<pic, stage, src>> PROVE SrcInv'
  BY <1>0, <1>3 DEF SrcInv, Pass, Done
<1> QED
  BY <1>1, <1>2, <1>3 DEF Next, Start, Fetch, Store, vars

LEMMA FilterNext == FilterAssumption /\ FilterInv /\ [Next]_vars => FilterInv'
  BY TypeNext, PlaneNext, GotNext, SrcNext DEF FilterInv

\* However a picture is cut into bands, in whatever order its goroutines run and
\* whatever the copy held before, deblock and applySAO leave what the encoder's
\* serial filters make of the same reconstruction.
THEOREM PicturesAreFilteredAlike == Spec => []FilteredAsEncoded
<1>1. FilterAssumption /\ FilterInv => FilteredAsEncoded
  <2> SUFFICES ASSUME FilterAssumption, FilterInv, Done PROVE plane = applySAO(pic, deblockRecon(pic))
    BY DEF FilteredAsEncoded
  <2>1. Picture(pic) /\ bands = <<>> /\ stage \in Nat \ {0}
    BY DEF FilterInv, TypeInv, Running, FilterAssumption, Picture
  <2>2. (pic.comps = {0} /\ stage > 4) \/ (pic.comps = {0, 1} /\ stage > 6)
    <3>1. stage > Last(pic)
      BY Zenon DEF Done, Last
    <3> QED
      BY <2>1, <3>1, PassIs
  <2>3. ASSUME NEW s \in Samples(pic) PROVE plane[s] = applySAO(pic, deblockRecon(pic))[s]
    <3>1. plane[s] = At(pic, stage, s)
      BY <2>1 DEF FilterInv, PlaneInv
    <3>2. s[1] \in pic.comps
      BY <2>1, SampleIs
    <3> QED
      BY <2>1, <2>2, <3>1, <3>2 DEF At
  <2>4. applySAO(pic, deblockRecon(pic)) = [s \in Samples(pic) |-> applySAO(pic, deblockRecon(pic))[s]]
    BY DEF applySAO
  <2>5. plane = [s \in Samples(pic) |-> plane[s]]
    BY DEF FilterInv, PlaneInv
  <2> QED
    BY <2>3, <2>4, <2>5
<1> QED
  BY <1>1, FilterInit, FilterNext, FilterAssumption, PTL DEF Spec

=============================================================================
