------------------------------ MODULE FilterBands ------------------------------
(***************************************************************************)
(* The loop filters of a whole picture: deblock and applySAO of            *)
(* hevc/deblock.go and hevc/sao.go, whose passes overRows (hevc/           *)
(* wavefront.go) cuts into bands and hands to goroutines.  A unit of a     *)
(* pass is a row of eight luma lines (deblocking) or a coding tree block   *)
(* (sample adaptive offset).  A sample is its component, the column of     *)
(* coding tree blocks it is in and its line; its value says how it came    *)
(* about, so two ways to filter a picture agree exactly if their values    *)
(* do.  What the filters compute is left out, what they read and write is  *)
(* not.                                                                    *)
(***************************************************************************)
EXTENDS Integers, FiniteSets

CONSTANTS
    Threads,    \* goroutines the picture is allowed
    MinBands,   \* minBandsPerWorker
    Pictures    \* the pictures that may come: [rows, cols, ctb, sub, comps, off, keep, sao]

FilterAssumption ==
    /\ Threads \in Nat /\ MinBands \in Nat \ {0}
    /\ \A p \in Pictures :
          /\ {p.rows, p.cols, p.ctb} \subseteq Nat \ {0}
          /\ p.sub \in {1, 2} /\ p.comps \in {{0}, {0, 1}}
ASSUME FilterAssumption

(* rows and ctb count units of eight luma lines, sub is subHeightC, off    *)
(* holds the <<vertical, row>> where no edge has a boundary strength, keep *)
(* the rows whose coding units are noFilter, and sao[c][k] the type of     *)
(* block k: "off", "band", or an edge class across or down.                *)

VARIABLES
    pic,    \* the picture being filtered
    stage,  \* index into Passes
    bands,  \* the goroutines of the running pass, if any: <<r0, r1>> -> [at, got]
    plane,  \* the samples, by <<component, column, line>>
    src     \* saoSrc, which all components and pictures share

vars == <<pic, stage, bands, plane, src>>

None == [none |-> TRUE]
Reconstructed == [as |-> "reconstructed"]  \* values of samples no filter has written
Stale == [as |-> "stale"]
Passes == <<[op |-> "deblock", vertical |-> TRUE], [op |-> "deblock", vertical |-> FALSE],
            [op |-> "copy", comp |-> 0], [op |-> "sao", comp |-> 0],
            [op |-> "copy", comp |-> 1], [op |-> "sao", comp |-> 1]>>
Pass == Passes[stage]
Done == stage > 2 + 2 * Cardinality(pic.comps)

Least(a, b) == IF a < b THEN a ELSE b
Most(a, b) == IF a < b THEN b ELSE a
Sub(p, c) == IF c = 0 THEN 1 ELSE p.sub
Lines(p, c) == (8 * p.rows) \div Sub(p, c)
Samples(p) == UNION {{c} \X (0 .. p.cols - 1) \X (0 .. Lines(p, c) - 1) : c \in p.comps}
RowOf(p, s) == (s[3] * Sub(p, s[1])) \div 8

-----------------------------------------------------------------------------
\* Deblocking: the lines the edges of row r read and write in a component. A
\* horizontal edge lies above line 8r; chroma has one every eight of its lines.

OnGrid(p, c, r) == (8 * r) % (8 * Sub(p, c)) = 0
Above(p, c, r) == (8 * r) \div Sub(p, c)
Reach(c) == IF c = 0 THEN [read |-> 4, write |-> 3] ELSE [read |-> 2, write |-> 1]
AroundEdge(p, c, r, n) == IF OnGrid(p, c, r) THEN Above(p, c, r) - n .. Above(p, c, r) + n - 1 ELSE {}

EdgeLines(p, c, r, vertical, n) ==
    IF vertical THEN Above(p, c, r) .. Above(p, c, r + 1) - 1
    ELSE IF r = 0 THEN {} ELSE AroundEdge(p, c, r, n)

Filtered(p, r, vertical) == <<vertical, r>> \notin p.off

EdgeReads(p, r, vertical) ==
    {s \in Samples(p) : Filtered(p, r, vertical)
                        /\ s[3] \in EdgeLines(p, s[1], r, vertical, Reach(s[1]).read)}
\* noP and noQ: a side that bypasses the filters keeps its samples.
EdgeWrites(p, r, vertical) ==
    {s \in Samples(p) : /\ Filtered(p, r, vertical)
                        /\ s[3] \in EdgeLines(p, s[1], r, vertical, Reach(s[1]).write)
                        /\ RowOf(p, s) \notin p.keep}

\* What an edge makes of sample s, given the samples it read.
EdgeValue(s, r, vertical, got) ==
    [edge |-> <<vertical, r>>,
     of |-> {got[t] : t \in {u \in DOMAIN got : /\ u[1] = s[1] /\ u[2] = s[2]
                                                /\ vertical => u[3] = s[3]}}]

-----------------------------------------------------------------------------
\* Sample adaptive offset: the samples of block k, and the copy it reads.

CtbLines(p, c) == (8 * p.ctb) \div Sub(p, c)
Ctbs(p) == 0 .. p.cols * ((p.rows + p.ctb - 1) \div p.ctb) - 1
saoEnabled(p, c, k) == p.sao[c][k] # "off"
InCtb(p, c, k) ==
    {s \in Samples(p) : /\ s[1] = c /\ s[2] = k % p.cols
                        /\ s[3] \div CtbLines(p, c) = k \div p.cols}

\* The samples whose values decide about s: itself and, for the edge types,
\* those beside it, which may belong to the next column.
Compared(p, k, s) ==
    LET t == p.sao[s[1]][k] IN
    {u \in Samples(p) : /\ u[1] = s[1]
                        /\ u[2] - s[2] \in IF t = "band" THEN {0} ELSE -1 .. 1
                        /\ u[3] - s[3] \in IF t = "down" THEN {-1, 0, 1} ELSE {0}}

\* The lines at the top and bottom of the picture have no neighbours to compare.
Offset(p, k, s) ==
    /\ RowOf(p, s) \notin p.keep
    /\ p.sao[s[1]][k] = "down" => s[3] \notin {0, Lines(p, s[1]) - 1}

SaoWrites(p, c, k) == IF saoEnabled(p, c, k) THEN {s \in InCtb(p, c, k) : Offset(p, k, s)} ELSE {}
SaoReads(p, c, k) == UNION {Compared(p, k, s) : s \in SaoWrites(p, c, k)}
SaoValue(p, k, s, got) == [sao |-> p.sao[s[1]][k], of |-> {got[t] : t \in Compared(p, k, s)}]

\* The rows copied before: those of blocks that filter, with a line of margin.
SaoRows(p, c) == {k \div p.cols : k \in {k \in Ctbs(p) : saoEnabled(p, c, k)}}
Lo(rows) == CHOOSE r \in rows : \A q \in rows : r <= q
Hi(rows) == CHOOSE r \in rows : \A q \in rows : q <= r

\* Mutant of Copied: no line of margin.
Copied_tight(p, c) ==
    {s \in Samples(p) : s[1] = c /\ s[3] \div CtbLines(p, c) \in SaoRows(p, c)}

Copied(p, c) ==
    IF SaoRows(p, c) = {} THEN {}
    ELSE {s \in Samples(p) :
             /\ s[1] = c
             /\ s[3] \in Most(Lo(SaoRows(p, c)) * CtbLines(p, c) - 1, 0)
                         .. Least((Hi(SaoRows(p, c)) + 1) * CtbLines(p, c) + 1, Lines(p, c)) - 1}

-----------------------------------------------------------------------------
\* Mutant of overRows: a band ends behind the first row of the next one.
overRows_inclusive(rows) ==
    LET n == Least(Threads, rows \div MinBands)
        chunk == (rows + n - 1) \div n
    IN  {<<r0, Least(r0 + chunk + 1, rows)>> : r0 \in {r \in 0 .. rows - 1 : r % chunk = 0}}

\* overRows: the bands of [0, rows), one if the picture is small.
overRows(rows) ==
    LET n == Least(Threads, rows \div MinBands)
        chunk == (rows + n - 1) \div n
    IN  IF n <= 1 THEN {<<0, rows>>}
        ELSE {<<r0, Least(r0 + chunk, rows)>> : r0 \in {r \in 0 .. rows - 1 : r % chunk = 0}}

Units(p, pass) == IF pass.op = "deblock" THEN p.rows ELSE Cardinality(Ctbs(p))

\* Where unit u of a pass reads, and what it writes there.
Reads(p, pass, u) == IF pass.op = "deblock" THEN EdgeReads(p, u, pass.vertical) ELSE SaoReads(p, pass.comp, u)
Writes(p, pass, u) == IF pass.op = "deblock" THEN EdgeWrites(p, u, pass.vertical) ELSE SaoWrites(p, pass.comp, u)
From(pass) == IF pass.op = "deblock" THEN plane ELSE [s \in DOMAIN plane |-> src[s[2], s[3]]]
Value(p, pass, u, s, got) ==
    IF pass.op = "deblock" THEN EdgeValue(s, u, pass.vertical, got) ELSE SaoValue(p, u, s, got)

Init ==
    /\ pic \in Pictures
    /\ stage = 1
    /\ bands = <<>>
    /\ plane = [s \in Samples(pic) |-> Reconstructed]
    /\ src = [s \in (0 .. pic.cols - 1) \X (0 .. Lines(pic, 0) - 1) |-> Stale]

\* The pass begins: a goroutine for every band.
Start ==
    /\ ~Done /\ bands = <<>> /\ Pass.op # "copy"
    /\ bands' = [b \in overRows(Units(pic, Pass)) |-> [at |-> b[1], got |-> None]]
    /\ UNCHANGED <<pic, stage, plane, src>>

\* The copy of saoPlane, before its bands.
Copy ==
    /\ ~Done /\ bands = <<>> /\ Pass.op = "copy"
    /\ src' = [q \in DOMAIN src |-> IF <<Pass.comp, q[1], q[2]>> \in Copied(pic, Pass.comp)
                                    THEN plane[<<Pass.comp, q[1], q[2]>>] ELSE src[q]]
    /\ stage' = stage + 1
    /\ UNCHANGED <<pic, bands, plane>>

\* A goroutine reads what its next unit needs (deblockLumaPlan and the filters'
\* own reads, or the rows of src), then writes what it made of it.
Fetch(b) ==
    /\ bands[b].at < b[2] /\ bands[b].got = None
    /\ bands' = [bands EXCEPT ![b].got = [s \in Reads(pic, Pass, bands[b].at) |-> From(Pass)[s]]]
    /\ UNCHANGED <<pic, stage, plane, src>>

Store(b) ==
    /\ bands[b].got # None
    /\ plane' = [s \in DOMAIN plane |->
                    IF s \in Writes(pic, Pass, bands[b].at)
                    THEN Value(pic, Pass, bands[b].at, s, bands[b].got) ELSE plane[s]]
    /\ bands' = [bands EXCEPT ![b] = [at |-> @.at + 1, got |-> None]]
    /\ UNCHANGED <<pic, stage, src>>

\* wg.Wait returns.
Join ==
    /\ bands # <<>> /\ \A b \in DOMAIN bands : bands[b].at = b[2]
    /\ bands' = <<>>
    /\ stage' = stage + 1
    /\ UNCHANGED <<pic, plane, src>>

Next ==
    \/ Start \/ Copy \/ Join
    \/ \E b \in DOMAIN bands : Fetch(b) \/ Store(b)

Spec == Init /\ [][Next]_vars

-----------------------------------------------------------------------------
(***************************************************************************)
(* The reference: the picture as the encoder filters its reconstruction,   *)
(* one unit after the other and from a whole copy (deblockRecon of         *)
(* hevc/deblockenc.go and applySAO of hevc/saoenc.go), which has to be     *)
(* what a decoder makes of it.                                             *)
(***************************************************************************)
RowsAt(p, s, vertical) == {r \in 0 .. p.rows - 1 : s \in EdgeWrites(p, r, vertical)}
AfterVertical(p, s) ==
    IF RowsAt(p, s, TRUE) = {} THEN Reconstructed
    ELSE [edge |-> <<TRUE, RowOf(p, s)>>, of |-> {Reconstructed}]
deblockRecon(p) ==
    [s \in Samples(p) |->
        IF RowsAt(p, s, FALSE) = {} THEN AfterVertical(p, s)
        ELSE LET r == CHOOSE r \in RowsAt(p, s, FALSE) : TRUE IN
             [edge |-> <<FALSE, r>>,
              of |-> {AfterVertical(p, t) : t \in {t \in EdgeReads(p, r, FALSE) : t[1] = s[1] /\ t[2] = s[2]}}]]
CtbAt(p, s) == (s[3] \div CtbLines(p, s[1])) * p.cols + s[2]
applySAO(p, recon) ==
    [s \in Samples(p) |->
        IF s \in SaoWrites(p, s[1], CtbAt(p, s)) THEN SaoValue(p, CtbAt(p, s), s, recon) ELSE recon[s]]


\* No goroutine reads or writes a sample that another goroutine of the pass may
\* be writing: "every band writes samples no other band touches" (overRows).
\* Blocks of a sample adaptive offset read the copy, which nobody writes.
NoRace ==
    \A b, o \in {b \in DOMAIN bands : bands[b].at < b[2]} :
        b # o =>
            LET w == Writes(pic, Pass, bands[b].at) IN
            /\ w \cap Writes(pic, Pass, bands[o].at) = {}
            /\ Pass.op = "deblock" => w \cap Reads(pic, Pass, bands[o].at) = {}

\* However a picture is cut into bands and whatever was left in the copy, it is
\* filtered as the encoder filtered its reconstruction: every edge once, vertical
\* before horizontal, and every offset from what deblocking left.
FilteredAsEncoded == Done => plane = applySAO(pic, deblockRecon(pic))
=============================================================================
