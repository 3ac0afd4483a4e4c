----------------------------- MODULE EdgeStrength -----------------------------
(***************************************************************************)
(* Which edges of a picture are filtered, and how hard: the marks that     *)
(* coding units leave in blk and in the motion field while they are        *)
(* decoded (markTU, markPU, setMV; interCU and transformUnit of hevc/      *)
(* ctu.go), and the strength that deblocking derives from them when the    *)
(* picture is whole (boundaryStrength of hevc/deblock.go).  Positions      *)
(* count blocks of four samples.                                           *)
(***************************************************************************)
EXTENDS Integers, FiniteSets, Sequences, SequencesExt

CONSTANTS
    Areas   \* sequences of coding units that cover an area, in decoding order

(* A coding unit is [x, y, n, pred, part, split, cbf, motion]: its place   *)
(* and size, "intra", "inter" or "skip", its partition, whether its        *)
(* transform tree splits, the transform blocks with coefficients, and the  *)
(* motion of each part, which has for every list a picture order count and *)
(* a vector or nothing.                                                    *)

VARIABLES
    area,   \* the coding units of the picture
    coded,  \* how many of them are decoded
    blk,    \* what boundary strength derivation reads back
    field   \* mvField and mvPoc, as far as mvValid

vars == <<area, coded, blk, field>>

Nothing == [none |-> TRUE]
Unmarked == [intra |-> FALSE, cbf |-> FALSE, tuV |-> FALSE, tuH |-> FALSE, puV |-> FALSE, puH |-> FALSE]
Blocks(cus) == UNION {(cu.x .. cu.x + cu.n - 1) \X (cu.y .. cu.y + cu.n - 1) : cu \in {cus[i] : i \in DOMAIN cus}}
In(b, x, y, w, h) == b[1] \in x .. x + w - 1 /\ b[2] \in y .. y + h - 1

\* partShape: the parts of a coding unit as <<x, y, w, h>> in quarters of it.
partShape(part) ==
    CASE part = "2Nx2N" -> <<<<0, 0, 4, 4>>>>
      [] part = "2NxN"  -> <<<<0, 0, 4, 2>>, <<0, 2, 4, 2>>>>
      [] part = "Nx2N"  -> <<<<0, 0, 2, 4>>, <<2, 0, 2, 4>>>>
      [] part = "NxN"   -> <<<<0, 0, 2, 2>>, <<2, 0, 2, 2>>, <<0, 2, 2, 2>>, <<2, 2, 2, 2>>>>
      [] part = "2NxnU" -> <<<<0, 0, 4, 1>>, <<0, 1, 4, 3>>>>
      [] part = "2NxnD" -> <<<<0, 0, 4, 3>>, <<0, 3, 4, 1>>>>
      [] part = "nLx2N" -> <<<<0, 0, 1, 4>>, <<1, 0, 3, 4>>>>
      [] part = "nRx2N" -> <<<<0, 0, 3, 4>>, <<3, 0, 1, 4>>>>

\* Mutant of markTU: the flag of a block with coefficients stays at its first row.
markTU_row(b, x, y, w, h, cbf) ==
    [p \in DOMAIN b |->
        IF ~In(p, x, y, w, h) THEN b[p]
        ELSE [b[p] EXCEPT !.cbf = @ \/ (cbf /\ p[2] = y), !.tuH = @ \/ p[2] = y, !.tuV = @ \/ p[1] = x]]

\* The first row and the first column of a transform block carry its edges.
markTU(b, x, y, w, h, cbf) ==
    [p \in DOMAIN b |->
        IF ~In(p, x, y, w, h) THEN b[p]
        ELSE [b[p] EXCEPT !.cbf = @ \/ cbf, !.tuH = @ \/ p[2] = y, !.tuV = @ \/ p[1] = x]]

markPU(b, x, y, w, h, intra) ==
    [p \in DOMAIN b |->
        IF ~In(p, x, y, w, h) THEN b[p]
        ELSE [b[p] EXCEPT !.intra = intra, !.puH = @ \/ p[2] = y, !.puV = @ \/ p[1] = x]]

setMV(f, x, y, w, h, m) == [p \in DOMAIN f |-> IF In(p, x, y, w, h) THEN m ELSE f[p]]

\* predictionUnit for every part, one after the other.
Part(cu, i) == [x |-> cu.x + (partShape(cu.part)[i][1] * cu.n) \div 4, y |-> cu.y + (partShape(cu.part)[i][2] * cu.n) \div 4,
                w |-> (partShape(cu.part)[i][3] * cu.n) \div 4, h |-> (partShape(cu.part)[i][4] * cu.n) \div 4]
Parts(cu) == DOMAIN partShape(cu.part)
PredictBlk(b, cu, i) == markPU(b, Part(cu, i).x, Part(cu, i).y, Part(cu, i).w, Part(cu, i).h, FALSE)
PredictField(f, cu, i) == setMV(f, Part(cu, i).x, Part(cu, i).y, Part(cu, i).w, Part(cu, i).h, cu.motion[i])
Predicted(b, cu) ==
    IF cu.pred = "intra" THEN markPU(b, cu.x, cu.y, cu.n, cu.n, TRUE)
    ELSE FoldLeft(LAMBDA acc, i : PredictBlk(acc, cu, i), b, [i \in Parts(cu) |-> i])
Moved(f, cu) ==
    IF cu.pred = "intra" THEN f
    ELSE FoldLeft(LAMBDA acc, i : PredictField(acc, cu, i), f, [i \in Parts(cu) |-> i])

\* transformTree down to transformUnit: one block or its four quarters. A
\* skipped unit, and one without residual data, has no tree.
Quarter(cu, i) == <<cu.x + (i % 2) * (cu.n \div 2), cu.y + (i \div 2) * (cu.n \div 2)>>
TreeUnit(b, cu, i) == markTU(b, Quarter(cu, i)[1], Quarter(cu, i)[2], cu.n \div 2, cu.n \div 2, i \in cu.cbf)
Transformed(b, cu) ==
    IF cu.pred = "skip" \/ (cu.pred = "inter" /\ cu.cbf = {}) THEN b
    ELSE IF cu.split THEN FoldLeft(LAMBDA acc, i : TreeUnit(acc, cu, i), b, <<0, 1, 2, 3>>)
    ELSE markTU(b, cu.x, cu.y, cu.n, cu.n, cu.cbf # {})

\* codingUnit: the data, then the edges of the coding block itself.
codingUnit(b, cu) == markTU(Transformed(Predicted(b, cu), cu), cu.x, cu.y, cu.n, cu.n, FALSE)

Init ==
    /\ area \in Areas
    /\ coded = 0
    /\ blk = [p \in Blocks(area) |-> Unmarked]
    /\ field = [p \in Blocks(area) |-> Nothing]

DecodeUnit ==
    /\ coded < Len(area)
    /\ coded' = coded + 1
    /\ blk' = codingUnit(blk, area[coded + 1])
    /\ field' = Moved(field, area[coded + 1])
    /\ UNCHANGED area

Next == DecodeUnit
Spec == Init /\ [][Next]_vars

-----------------------------------------------------------------------------
Abs(n) == IF n < 0 THEN -n ELSE n
mvFar(a, b) == Abs(a.x - b.x) >= 4 \/ Abs(a.y - b.y) >= 4

\* The lists a motion uses, packed as differentMotion packs them.
Packed(m) == SelectSeq(m, LAMBDA l : l # Nothing)

\* Mutant of differentMotion: the lists are compared in their order only.
differentMotion_ordered(p, q) ==
    LET a == Packed(p)
        b == Packed(q)
    IN  \/ Len(a) # Len(b)
        \/ \E i \in 1 .. Len(a) : a[i].poc # b[i].poc \/ mvFar(a[i].mv, b[i].mv)

differentMotion(p, q) ==
    LET a == Packed(p)
        b == Packed(q)
        straight == mvFar(a[1].mv, b[1].mv) \/ mvFar(a[2].mv, b[2].mv)
        crossed == mvFar(a[1].mv, b[2].mv) \/ mvFar(a[2].mv, b[1].mv)
    IN  IF Len(a) # Len(b) THEN TRUE
        ELSE IF Len(a) = 1 THEN a[1].poc # b[1].poc \/ mvFar(a[1].mv, b[1].mv)
        ELSE IF Len(a) = 0 THEN FALSE
        ELSE IF a[1].poc = b[1].poc /\ a[2].poc = b[2].poc
        THEN straight /\ (a[1].poc = a[2].poc => crossed)
        ELSE (a[1].poc = b[2].poc /\ a[2].poc = b[1].poc) => crossed

boundaryStrength(p, q, vertical) ==
    LET tu == IF vertical THEN blk[q].tuV ELSE blk[q].tuH
        pu == IF vertical THEN blk[q].puV ELSE blk[q].puH
    IN  IF ~tu /\ ~pu THEN 0
        ELSE IF blk[p].intra \/ blk[q].intra THEN 2
        ELSE IF tu /\ (blk[p].cbf \/ blk[q].cbf) THEN 1
        ELSE IF field[p] = Nothing \/ field[q] = Nothing THEN 1
        ELSE IF differentMotion(field[p], field[q]) THEN 1 ELSE 0

-----------------------------------------------------------------------------
(***************************************************************************)
(* The reference, 8.7.2.3 to 8.7.2.5 of the standard, from the coding      *)
(* units instead of from marks.                                            *)
(***************************************************************************)
CuAt(p) == CHOOSE cu \in {area[i] : i \in DOMAIN area} : In(p, cu.x, cu.y, cu.n, cu.n)
HasTree(cu) == ~(cu.pred = "skip" \/ (cu.pred = "inter" /\ cu.cbf = {}))
TbAt(p) == LET cu == CuAt(p) IN
    IF HasTree(cu) /\ cu.split
    THEN <<cu, CHOOSE i \in 0 .. 3 : In(p, Quarter(cu, i)[1], Quarter(cu, i)[2], cu.n \div 2, cu.n \div 2)>>
    ELSE <<cu, 4>>
Coefficients(tb) == HasTree(tb[1]) /\ (IF tb[2] = 4 THEN tb[1].cbf # {} ELSE tb[2] \in tb[1].cbf)
PbAt(p) == LET cu == CuAt(p) IN
    <<cu, IF cu.pred = "intra" THEN 1
          ELSE CHOOSE i \in Parts(cu) : In(p, Part(cu, i).x, Part(cu, i).y, Part(cu, i).w, Part(cu, i).h)>>

\* Two motions are alike if their vectors can be paired so that each pair has
\* one picture and vectors less than a sample apart.
Alike(m, o) ==
    LET used(x) == {l \in 1 .. 2 : x[l] # Nothing}
        pairings == {f \in [used(m) -> used(o)] : {f[l] : l \in used(m)} = used(o)}
    IN  /\ Cardinality(used(m)) = Cardinality(used(o))
        /\ \E f \in pairings : \A l \in used(m) :
              m[l].poc = o[f[l]].poc /\ ~mvFar(m[l].mv, o[f[l]].mv)

Strength(p, q) ==
    LET edge == TbAt(p) # TbAt(q) \/ PbAt(p) # PbAt(q)
        intra == CuAt(p).pred = "intra" \/ CuAt(q).pred = "intra"
        coeffs == TbAt(p) # TbAt(q) /\ (Coefficients(TbAt(p)) \/ Coefficients(TbAt(q)))
    IN  IF ~edge THEN 0 ELSE IF intra THEN 2 ELSE IF coeffs THEN 1
        ELSE IF Alike(CuAt(p).motion[PbAt(p)[2]], CuAt(q).motion[PbAt(q)[2]]) THEN 0 ELSE 1

\* When the picture is whole, every edge of the eight-sample grid has the strength
\* the standard derives from its transform and prediction blocks. It fails if a
\* mark is lost, left behind or spread too far, and if two motions are compared
\* list by list where the standard compares pictures.
StrengthAsSpecified ==
    coded = Len(area) =>
        \A q \in DOMAIN blk, vertical \in BOOLEAN :
            LET p == IF vertical THEN <<q[1] - 1, q[2]>> ELSE <<q[1], q[2] - 1>> IN
            (p \in DOMAIN blk /\ (IF vertical THEN q[1] ELSE q[2]) % 2 = 0)
                => boundaryStrength(p, q, vertical) = Strength(p, q)
=============================================================================
