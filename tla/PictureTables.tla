---------------------------- MODULE PictureTables ----------------------------
(***************************************************************************)
(* What a block decoder keeps from picture to picture: newCTUDecoder of    *)
(* hevc/ctu.go derives the tile scan, the z-scan addresses and the scaling *)
(* matrices from the active parameter sets, and skips that when it takes   *)
(* the sets for those of the picture before.                               *)
(*                                                                         *)
(* Sizes are in minimum transform blocks, four to a side of a coding tree  *)
(* block, and addresses count from zero.  A scaling list stands for its    *)
(* first and last coefficient in scan order.                               *)
(***************************************************************************)
EXTENDS Integers, Sequences, SequencesExt, ScanOrder

CONSTANTS
    Families,  \* sets of parameter sets that one stream draws from
    MaxSets,   \* bound on the parameter sets of a stream
    MaxPics    \* bound on its pictures

VARIABLES
    family,    \* the sets this stream draws from
    sps,       \* Decoder.sps: the sequence parameter set, as parsed
    pps,       \* Decoder.pps: the picture parameter sets by their id
    coded,     \* the accepted sets as they were written: ghost
    nsets,     \* parameter sets so far; the identity of the next one
    active,    \* the sets of the current picture, as parsed and as written
    pics,      \* pictures so far
    ctu        \* the ctuDecoder, which is that of the picture before

vars == <<family, sps, pps, coded, nsets, active, pics, ctu>>

None == [obj |-> 0]
Shift == 2   \* ctbLog2SizeY - minTbLog2

-----------------------------------------------------------------------------
(* Scaling lists, hevc/scaling.go.                                         *)

Sizes == 0 .. 3
Mats == 0 .. 5
Step(s) == IF s = 3 THEN 3 ELSE 1

defaultScalingList ==
    [e \in Sizes \X Mats |->
        [list |-> CASE e[1] = 0 -> <<16, 16>> [] e[1] > 0 /\ e[2] < 3 -> <<16, 115>> [] OTHER -> <<16, 91>>, dc |-> 16]]

\* A matrix of scaling_list_data is coded, [dc, deltas], or predicted, [delta]; one
\* that is left out is predicted with delta zero.
Predicted(m) == "delta" \in DOMAIN m
Within(m) == m.dc \in -7 .. 247 /\ \A i \in DOMAIN m.deltas : m.deltas[i] \in -128 .. 127
Coefficients(m, s) ==
    LET start == IF s > 1 THEN m.dc + 8 ELSE 8
    IN  Tail(FoldLeft(LAMBDA list, d : Append(list, (list[Len(list)] + d + 256) % 256), <<start>>, m.deltas))

CopyMatrix_dcKept(sl, e, ref) == [sl EXCEPT ![e].list = sl[ref].list]
CopyMatrix(sl, e, ref) == [sl EXCEPT ![e].list = sl[ref].list, ![e].dc = IF e[1] > 1 THEN sl[ref].dc ELSE @]

\* One matrix of the loop, over the lists so far; it is refused with the empty list.
ParseMatrix(sl, e, m) ==
    LET s == e[1]
        ref == <<s, e[2] - m.delta * Step(s)>>
    IN  IF sl = <<>> THEN <<>>
        ELSE IF Predicted(m)
        THEN IF m.delta * Step(s) > e[2] THEN <<>>
             ELSE IF m.delta = 0 THEN sl
             ELSE CopyMatrix(sl, e, ref)
        ELSE IF ~Within(m) THEN <<>>
        ELSE [sl EXCEPT ![e].list = Coefficients(m, s), ![e].dc = IF s > 1 THEN m.dc + 8 ELSE @]

InOrder == [i \in 1 .. 18 |-> <<(i - 1) \div 6, (i - 1) % 6>>] \o <<<<3, 0>>, <<3, 3>>>>
parseScalingListData(data) ==
    FoldLeft(LAMBDA sl, e : IF e \in DOMAIN data THEN ParseMatrix(sl, e, data[e]) ELSE sl, defaultScalingList, InOrder)

\* A list across the transform block: its corner, the first and the last coefficient.
factors(sl) ==
    [e \in Sizes \X Mats |->
        [dc |-> IF e[1] > 1 THEN sl[e].dc ELSE sl[e].list[1], first |-> sl[e].list[1], last |-> sl[e].list[2]]]

\* The matrix of a block, from the block decoder's; the flat one is nil.
Flat == [dc |-> 16, first |-> 16, last |-> 16]
scalingFactor(size, cIdx, intra, skip) ==
    LET m == IF size = 3 /\ cIdx > 0 THEN 0 ELSE cIdx
    IN  IF ~active.sps.enabled \/ (skip /\ size > 0) THEN Flat
        ELSE ctu.scaling[<<size, IF intra THEN m ELSE m + 3>>]

-----------------------------------------------------------------------------
(* The scan tables of a picture.                                           *)

InCtbs(n) == (n + 3) \div 4
Geometry(s, p) ==
    [widthInCtbs |-> InCtbs(s.width), heightInCtbs |-> InCtbs(s.height),
     cols |-> Uniform(p.cols, InCtbs(s.width)), rows |-> Uniform(p.rows, InCtbs(s.height))]
geometryOf_notiles(s, p) == [Geometry(s, p) EXCEPT !.cols = <<>>, !.rows = <<>>]
geometryOf(s, p) == Geometry(s, p)

\* make for a buffer that is too small, the buffer itself otherwise.
keep(b, n) == IF Len(b) < n THEN [i \in 1 .. n |-> 0] ELSE b

Bit(x, i) == (x \div 2 ^ i) % 2
zAddress(scan, x, y) ==
    FoldLeft(LAMBDA v, i : v + (Bit(x, i) + 2 * Bit(y, i)) * 4 ^ i,
             scan.rsToTs[scan.w * (y \div 4) + (x \div 4)] * 4 ^ Shift, [i \in 1 .. Shift |-> i - 1])
buildMinTbAddr(b, scan, s) ==
    [i \in DOMAIN b |-> IF i <= s.width * s.height THEN zAddress(scan, (i - 1) % s.width, (i - 1) \div s.width) ELSE b[i]]

newCTUDecoder(s, p) ==
    LET g == geometryOf(s, p)
        stale == g # ctu.scanFor
        scan == IF stale THEN LET full == Geometry(s, p) IN buildTileScan(full.cols, full.rows) ELSE ctu.scan
        buffer == keep(ctu.minTbAddr, s.width * s.height)
        from == IF ~s.enabled THEN 0 ELSE IF p.present THEN p.obj ELSE s.obj
        sl == IF from = p.obj THEN p.sl ELSE s.sl
    IN  [scanFor |-> g, scan |-> scan, minTbWidth |-> s.width,
         minTbAddr |-> IF stale THEN buildMinTbAddr(buffer, scan, s) ELSE buffer,
         scalingFrom |-> from,
         scaling |-> IF from = ctu.scalingFrom THEN ctu.scaling ELSE IF from = 0 THEN <<>> ELSE factors(sl)]

minTbAddrAt(a) == ctu.minTbAddr[a[2] * ctu.minTbWidth + a[1] + 1]
TileOf(a) == ctu.scan.tileID[ctu.scan.rsToTs[ctu.scan.w * (a[2] \div 4) + (a[1] \div 4)]]
available(curr, n) ==
    minTbAddrAt(n) < minTbAddrAt(curr) /\ (active.pps.cols * active.pps.rows = 1 \/ TileOf(curr) = TileOf(n))

-----------------------------------------------------------------------------
Init ==
    /\ family \in Families
    /\ sps = None /\ pps = [i \in 0 .. 1 |-> None]
    /\ coded = [sps |-> None, pps |-> pps]
    /\ nsets = 0 /\ pics = 0 /\ active = None
    /\ ctu = [scanFor |-> <<>>, scan |-> <<>>, minTbWidth |-> 0, minTbAddr |-> <<>>, scalingFrom |-> 0, scaling |-> <<>>]

\* A set the stream carries is stored when its lists are taken, in place of the last.
Object(set, sl) == [obj |-> nsets + 1, sl |-> sl] @@ set
Conforming(set) == \A e \in DOMAIN set.data :
    LET m == set.data[e] IN IF Predicted(m) THEN e[2] - m.delta * Step(e[1]) >= 0 ELSE Within(m)
Written(old, set) == IF Conforming(set) THEN Object(set, <<>>) ELSE old

parseSPS ==
    /\ nsets < MaxSets /\ pics < MaxPics
    /\ \E set \in family.sps :
          LET sl == parseScalingListData(set.data)
          IN  /\ sps' = IF sl = <<>> THEN sps ELSE Object(set, sl)
              /\ coded' = [coded EXCEPT !.sps = Written(@, set)]
    /\ nsets' = nsets + 1
    /\ UNCHANGED <<family, pps, active, pics, ctu>>

parsePPS ==
    /\ nsets < MaxSets /\ pics < MaxPics
    /\ \E id \in 0 .. 1, set \in family.pps :
          LET sl == parseScalingListData(set.data)
          IN  /\ pps' = IF sl = <<>> THEN pps ELSE [pps EXCEPT ![id] = Object(set, sl)]
              /\ coded' = [coded EXCEPT !.pps[id] = Written(@, set)]
    /\ nsets' = nsets + 1
    /\ UNCHANGED <<family, sps, active, pics, ctu>>

\* The first slice of a picture, which starts a sequence if the sequence set is new.
NewPicture ==
    /\ pics < MaxPics /\ sps # None
    /\ \E id \in 0 .. 1 :
          /\ pps[id] # None
          /\ pps[id].cols <= InCtbs(sps.width) /\ pps[id].rows <= InCtbs(sps.height)
          /\ ctu' = newCTUDecoder(sps, pps[id])
          /\ active' = [obj |-> pics + 1, sps |-> sps, pps |-> pps[id], coded |-> [sps |-> coded.sps, pps |-> coded.pps[id]]]
    /\ pics' = pics + 1
    /\ UNCHANGED <<family, sps, pps, coded, nsets>>

Next == parseSPS \/ parsePPS \/ NewPicture
Spec == Init /\ [][Next]_vars

-----------------------------------------------------------------------------
(* What 6.4.1, 7.4.5 and 8.6.4.2 say of a picture with these sets.         *)

\* Decoding order within a tile: raster scan at the highest level of the quadtree
\* at which two blocks are not in the same one.
Before(a, b) ==
    LET up(p, l) == <<p[1] \div 2 ^ l, p[2] \div 2 ^ l>>
        l == CHOOSE l \in 0 .. Shift : up(a, l) # up(b, l) /\ \A k \in l + 1 .. Shift : up(a, k) = up(b, k)
    IN  a # b /\ LET p == up(a, l)  q == up(b, l) IN p[2] < q[2] \/ (p[2] = q[2] /\ p[1] < q[1])
Tile(a, s, p) ==
    LET at(n, size, x) == CHOOSE i \in 0 .. n - 1 : (i * size) \div n <= x \div 4 /\ x \div 4 < ((i + 1) * size) \div n
    IN  <<at(p.cols, InCtbs(s.width), a[1]), at(p.rows, InCtbs(s.height), a[2])>>

\* Whatever pictures and parameter sets came before, a block may use exactly the
\* blocks of its tile that are decoded before it: the tables newCTUDecoder reuses
\* are those of this picture, with its stride, its tiles and its z-scan.
AvailabilityAsSpecified ==
    active # None =>
        LET s == active.coded.sps
            p == active.coded.pps
            blocks == (0 .. s.width - 1) \X (0 .. s.height - 1)
        IN  \A a, b \in blocks : available(a, b) <=> Before(b, a) /\ Tile(a, s, p) = Tile(b, s, p)

\* The list of 7.3.4 and 7.4.5, following the reference of a predicted matrix.
SpecList(data, s) ==
    LET list[m \in Mats] ==
            IF <<s, m>> \notin DOMAIN data \/ (Predicted(data[<<s, m>>]) /\ data[<<s, m>>].delta = 0)
            THEN [dc |-> 16, first |-> 16, last |-> IF s = 0 THEN 16 ELSE IF m < 3 THEN 115 ELSE 91]
            ELSE IF Predicted(data[<<s, m>>]) THEN list[m - data[<<s, m>>].delta * Step(s)]
            ELSE LET c == data[<<s, m>>]
                     start == IF s > 1 THEN c.dc + 8 ELSE 8
                 IN  [dc |-> start, first |-> (start + c.deltas[1] + 256) % 256,
                      last |-> (start + c.deltas[1] + c.deltas[2] + 512) % 256]
    IN  list
SpecFactor(s, lists, size, cIdx, intra, skip) ==
    LET f == lists[IF size = 3 /\ cIdx > 0 THEN 2 ELSE size][IF intra THEN cIdx ELSE cIdx + 3]
    IN  IF ~s.enabled \/ (skip /\ size > 0) THEN Flat
        ELSE [f EXCEPT !.dc = IF size > 1 THEN @ ELSE f.first]

\* Every block of a picture is scaled with the matrix its own parameter sets give
\* its size, component and prediction, although the matrices are derived once for
\* a list and kept as long as no other is active.  Chroma blocks of 32x32, which
\* only 4:4:4 has, take the lists of 16x16.
ScalingAsSpecified ==
    active # None =>
        LET s == active.coded.sps
            p == active.coded.pps
            lists == [size \in Sizes |-> SpecList(IF p.present THEN p.data ELSE s.data, size)]
        IN  \A size \in Sizes, cIdx \in 0 .. 2, intra, skip \in BOOLEAN :
               (size = 3 /\ cIdx > 0 => s.chroma = 3) =>
                   scalingFactor(size, cIdx, intra, skip) = SpecFactor(s, lists, size, cIdx, intra, skip)
=============================================================================
