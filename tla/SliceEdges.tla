------------------------------ MODULE SliceEdges ------------------------------
(***************************************************************************)
(* Which borders between coding tree blocks the loop filters cross:        *)
(* filterEdge of hevc/deblock.go, as deblocking and as saoNeighbour of     *)
(* hevc/sao.go ask it, over the tables that decoding the slices of a       *)
(* picture leaves behind.                                                  *)
(***************************************************************************)
EXTENDS Integers, Sequences, FiniteSets, ScanOrder

CONSTANTS
    Cuts    \* [cols, rows, starts, across, tiles]: the columns and rows of tiles, where slices
            \* start in tile scan, slice_loop_filter_across_slices_enabled_flag of each of
            \* them, and loop_filter_across_tiles_enabled_flag

VARIABLES
    cut,            \* the picture
    slice,          \* slices decoded so far
    ctbSliceAddr,   \* by raster address, the slice a block belongs to
    sliceLF         \* by slice address, its flag

vars == <<cut, slice, ctbSliceAddr, sliceLF>>
Scan == buildTileScan(cut.cols, cut.rows)
All(c) == 0 .. Bound(c.cols, Len(c.cols)) * Bound(c.rows, Len(c.rows)) - 1

Init ==
    /\ cut \in Cuts
    /\ slice = 0
    /\ ctbSliceAddr = [rs \in All(cut) |-> 0]
    /\ sliceLF = [rs \in All(cut) |-> FALSE]

\* decodeSliceData of the next slice: slice_segment_address is in raster scan.
DecodeSlice ==
    /\ slice < Len(cut.starts)
    /\ slice' = slice + 1
    /\ LET addr == Scan.tsToRs[cut.starts[slice + 1]]
           end == IF slice + 2 <= Len(cut.starts) THEN cut.starts[slice + 2] ELSE Scan.size
       IN  /\ sliceLF' = [sliceLF EXCEPT ![addr] = cut.across[slice + 1]]
           /\ ctbSliceAddr' = [rs \in All(cut) |->
                 IF Scan.rsToTs[rs] \in cut.starts[slice + 1] .. end - 1 THEN addr ELSE ctbSliceAddr[rs]]
    /\ UNCHANGED cut

Next == DecodeSlice
Spec == Init /\ [][Next]_vars

-----------------------------------------------------------------------------
\* Mutant of filterEdge: the slice of the other side decides.
filterEdge_other(p, q) ==
    \/ p = q
    \/ /\ cut.tiles \/ Scan.tileID[Scan.rsToTs[p]] = Scan.tileID[Scan.rsToTs[q]]
       /\ ctbSliceAddr[p] = ctbSliceAddr[q] \/ sliceLF[ctbSliceAddr[p]]

\* filterEdge between the blocks p and q, in raster scan.
filterEdge(p, q) ==
    \/ p = q
    \/ /\ cut.tiles \/ Scan.tileID[Scan.rsToTs[p]] = Scan.tileID[Scan.rsToTs[q]]
       /\ ctbSliceAddr[p] = ctbSliceAddr[q] \/ sliceLF[ctbSliceAddr[q]]

\* saoNeighbour asks it with the sample's own block first.
saoNeighbour(cur, nb) == filterEdge(cur, nb)

Column(rs) == rs % Scan.w
Row(rs) == rs \div Scan.w
Neighbour(a, b) == a # b /\ Column(a) - Column(b) \in -1 .. 1 /\ Row(a) - Row(b) \in -1 .. 1

(***************************************************************************)
(* The reference, 7.4.7.1 and 8.7.3: a slice whose flag is zero closes its *)
(* borders with the slices decoded before it, whichever side of the border *)
(* the sample that is filtered is on.                                      *)
(***************************************************************************)
MayCross(a, b) ==
    LET later == IF Scan.rsToTs[a] < Scan.rsToTs[b] THEN b ELSE a IN
    /\ cut.tiles \/ Scan.tileID[Scan.rsToTs[a]] = Scan.tileID[Scan.rsToTs[b]]
    /\ ctbSliceAddr[a] = ctbSliceAddr[b] \/ sliceLF[ctbSliceAddr[later]]

Whole == slice = Len(cut.starts)

\* Deblocking crosses the left and upper border of a block exactly if the standard
\* lets it, whatever tiles do to the order in which the two blocks are decoded.
DeblockAcross ==
    Whole => \A q \in All(cut) :
        \A p \in {p \in All(cut) : Neighbour(p, q) /\ p < q /\ (Row(p) = Row(q) \/ Column(p) = Column(q))} :
            filterEdge(p, q) = MayCross(p, q)

\* "An edge offset sample is left alone when the neighbour it compares against sits
\* across a tile or slice boundary that filtering may not cross" (saoNeighbour).
SaoAcross ==
    Whole => \A cur, nb \in All(cut) : Neighbour(cur, nb) => saoNeighbour(cur, nb) = MayCross(cur, nb)
=============================================================================
