------------------------------ MODULE ScanOrder ------------------------------
(***************************************************************************)
(* The orders of 6.5.  Of the coding tree blocks of a picture with tiles:  *)
(* resolveTileGeometry of hevc/headers.go and buildTileScan of hevc/ctu.go.*)
(* Addresses count from zero, in raster scan (rs) or in tile scan (ts).    *)
(* Of the positions in a block: the tables that hevc/scan.go builds once.  *)
(***************************************************************************)
EXTENDS Integers, Sequences, SequencesExt

\* n columns or rows over `total` blocks with uniform spacing, as sizes.
Uniform(n, total) == [i \in 1 .. n |-> (i * total) \div n - ((i - 1) * total) \div n]

\* Where column or row i begins: colBd and rowBd.
Bounds(sizes) ==
    LET bd[i \in 0 .. Len(sizes)] == IF i = 0 THEN 0 ELSE bd[i - 1] + sizes[i] IN bd
Bound(sizes, i) == Bounds(sizes)[i]

\* The column or row, from zero, that a coordinate is in.
TileAt(sizes, x) ==
    CHOOSE i \in 0 .. Len(sizes) - 1 : Bound(sizes, i) <= x /\ x < Bound(sizes, i + 1)

rsToTs(cols, rows, rs) ==
    LET w == Bound(cols, Len(cols))
        x == rs % w
        y == rs \div w
        tx == TileAt(cols, x)
        ty == TileAt(rows, y)
    IN  Bound(rows, ty) * w + Bound(cols, tx) * rows[ty + 1]
        + (y - Bound(rows, ty)) * cols[tx + 1] + x - Bound(cols, tx)

\* The tables of a picture; as tsToRs is filled from rsToTs, it is its inverse.
buildTileScan(cols, rows) ==
    LET w == Bound(cols, Len(cols))
        size == w * Bound(rows, Len(rows))
        toTs == [rs \in 0 .. size - 1 |-> rsToTs(cols, rows, rs)]
        toRs == [ts \in 0 .. size - 1 |-> CHOOSE rs \in 0 .. size - 1 : toTs[rs] = ts]
        id(rs) == TileAt(rows, rs \div w) * Len(cols) + TileAt(cols, rs % w)
    IN  [w |-> w, size |-> size, rsToTs |-> toTs, tsToRs |-> toRs,
         tileID |-> [ts \in 0 .. size - 1 |-> id(toRs[ts])]]

--------------------------------------------------------------------------------
\* For blocks of 2^k the positions <<x, y>> in diagonal, horizontal and vertical order.
Down(n) == [i \in 1 .. n |-> n - i]
buildDiagScan(n) ==
    FlattenSeq([d \in 1 .. 2 * n - 1 |->
        LET ys == SelectSeq(Down(n), LAMBDA y : d - 1 - y \in 0 .. n - 1)
        IN  [i \in 1 .. Len(ys) |-> <<d - 1 - ys[i], ys[i]>>]])
buildHorScan(n) == [i \in 1 .. n * n |-> <<(i - 1) % n, (i - 1) \div n>>]
buildVerScan(n) == [i \in 1 .. n * n |-> <<(i - 1) \div n, (i - 1) % n>>]
scanOrder == [k \in 0 .. 3 |-> <<buildDiagScan(2 ^ k), buildHorScan(2 ^ k), buildVerScan(2 ^ k)>>]
=============================================================================
