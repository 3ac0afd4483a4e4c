----------------------------- MODULE CodingTree -----------------------------
(***************************************************************************)
(* The syntax of a coding tree block (7.3.8.4 to 7.3.8.10) as the encoder  *)
(* writes it (hevc/lossyenc.go, hevc/pcmenc.go) and as the decoder reads it*)
(* back (hevc/ctu.go).  A symbol is <<name, context, value>>: the          *)
(* arithmetic coder stays in step only while both sides agree on the name  *)
(* and on the context of every bin.  What the encoder chooses by cost is an*)
(* arbitrary plan, and what an arm of a choice leaves behind is taken back *)
(* by save and load as in the code.  Both sides keep, for every block they *)
(* reconstruct, its mode and which of its reference samples they took as   *)
(* available.  Slices are intra slices with one tile and no quantiser      *)
(* deltas, which is what this encoder writes.                              *)
(***************************************************************************)
EXTENDS Integers, Sequences, FiniteSets, SequencesExt, TLC

\* A stream: the coded size, log2 of the CTB, the chroma format, whether it is PCM,
\* the CTB that is coded (its corner), the modes and depths of the blocks before it
\* and the encoder's choices for it.
CONSTANT Streams

VARIABLES stream,  \* the stream
          enc,     \* [modes, depth, coded, recon, bits]: what the encoder keeps
          work,    \* the calls the encoder has not finished, innermost first
          saved,   \* what it saved of enc: before and kept, tuBase and tuKept
          bits,    \* the symbols the decoder has not read
          dec,     \* [modes, modesC, depth, recon, read]: what the decoder keeps
          todo     \* the calls the decoder has not finished, innermost first

vars == <<stream, enc, work, saved, bits, dec, todo>>

S == stream
Bit(b) == IF b THEN 1 ELSE 0
Quads(x, y, half) == <<<<x, y>>, <<x + half, y>>, <<x, y + half>>, <<x + half, y + half>>>>
Inside(p) == p[1] < S.width /\ p[2] < S.height
InPicture(x, y, size) == x + size <= S.width /\ y + size <= S.height
Blk16(x, y) == <<x \div 16, y \div 16>>
Covered(x, y, size) == ((x \div 16) .. ((x + size - 1) \div 16)) \X ((y \div 16) .. ((y + size - 1) \div 16))

\* Chroma: the shifts of 6.2, blocks per luma block, the mode of Table 8-3.
shiftW == IF S.chroma \in {1, 2} THEN 1 ELSE 0
shiftH == IF S.chroma = 1 THEN 1 ELSE 0
chromaTBs == CASE S.chroma = 0 -> 0 [] S.chroma = 2 -> 2 [] OTHER -> 1
chroma422Map == <<0, 1, 2, 2, 2, 2, 3, 5, 7, 8, 10, 12, 13, 15, 17, 18, 19, 20,
                  21, 22, 23, 23, 24, 24, 25, 25, 26, 27, 27, 28, 28, 29, 29, 30, 31>>
chromaMode(luma) == IF S.chroma = 2 THEN chroma422Map[luma + 1] ELSE luma

--------------------------------------------------------------------------------
\* The most probable modes of 8.4.2: DC, as the encoder and the decoder number it,
\* where there is no neighbour.
Planar == 0
DC == 1
Vertical == 26
Candidates(a, b) ==
    CASE a = b /\ a < 2 -> <<Planar, DC, Vertical>>
      [] a = b -> <<a, 2 + ((a + 29) % 32), 2 + ((a - 1) % 32)>>
      [] a # b /\ a # Planar /\ b # Planar -> <<a, b, Planar>>
      [] a # b /\ Planar \in {a, b} /\ a # DC /\ b # DC -> <<a, b, DC>>
      [] OTHER -> <<a, b, Vertical>>

lossyMPM(modes, x, y) ==
    Candidates(IF x > 0 THEN modes[Blk16(x - 1, y)] ELSE DC,
               IF y > 0 /\ (y \div 16) % 4 # 0 THEN modes[Blk16(x, y - 1)] ELSE DC)

lossyIntraLumaMode(mode, cand) ==
    IF mode \in {cand[i] : i \in 1 .. 3}
    THEN <<<<"prev_intra_luma_pred_flag", <<>>, 1>>, <<"mpm_idx", <<>>, (CHOOSE i \in 1 .. 3 : cand[i] = mode) - 1>>>>
    ELSE <<<<"prev_intra_luma_pred_flag", <<>>, 0>>,
           <<"rem_intra_luma_pred_mode", <<>>, mode - Cardinality({i \in 1 .. 3 : mode > cand[i]})>>>>

\* The decoder's way back from the index among the modes that are not candidates.
Remaining(cand, rem) == FoldLeft(LAMBDA m, c : IF m >= c THEN m + 1 ELSE m, rem, SortSeq(cand, <))

--------------------------------------------------------------------------------
\* A transform block of n samples at (x, y) of plane c, its mode, and the reference
\* samples that were available to it, counted from the bottom left.
Block(c, x, y, n, mode) == <<c, x, y, n, mode>>
Reference(x, y, n, i) == CASE i < 2 * n -> <<x - 1, y + 2 * n - 1 - i>>
                           [] i = 2 * n -> <<x - 1, y - 1>>
                           [] OTHER -> <<x + i - 2 * n - 1, y - 1>>
InPlane(c, p) == /\ p[1] >= 0 /\ p[1] < (IF c = 0 THEN S.width ELSE S.width \div 2 ^ shiftW)
                 /\ p[2] >= 0 /\ p[2] < (IF c = 0 THEN S.height ELSE S.height \div 2 ^ shiftH)

\* The 4x4 units of a rectangle of the luma or the chroma map.
Map(c) == IF c = 0 THEN 1 ELSE 2
Units(x, y, w, h) == {<<i, j>> : i \in (x \div 4) .. ((x + w) \div 4 - 1), j \in (y \div 4) .. ((y + h) \div 4 - 1)}

prepareRef(e, c, x, y, n) ==
    {i \in 0 .. 4 * n : /\ InPlane(c, Reference(x, y, n, i))
                        /\ <<Reference(x, y, n, i)[1] \div 4, Reference(x, y, n, i)[2] \div 4>> \in e.coded[Map(c)]}

\* A block is predicted, then overwrites what the planes held there and is marked.
Overlaps(a, b) == /\ a[1] = b[1]
                  /\ a[2] < b[2] + b[4] /\ b[2] < a[2] + a[4]
                  /\ a[3] < b[3] + b[4] /\ b[3] < a[3] + a[4]
markCoded(e, b) == [e EXCEPT !.coded[Map(b[1])] = @ \cup Units(b[2], b[3], b[4], b[4])]
codeBlock(e, b) ==
    markCoded([e EXCEPT !.recon = {o \in @ : ~Overlaps(o, b)} \cup {Append(b, prepareRef(e, b[1], b[2], b[3], b[4]))}], b)
CodeBlocks(e, s) == FoldLeft(codeBlock, e, s)

\* The chroma blocks under a luma block of n: all of Cb before all of Cr.
ChromaBlocks(x, y, n, mode) ==
    [i \in 1 .. 2 * chromaTBs |->
        Block(1 + (i - 1) \div chromaTBs, x \div 2 ^ shiftW,
              y \div 2 ^ shiftH + ((i - 1) % chromaTBs) * (n \div 2 ^ shiftW), n \div 2 ^ shiftW, chromaMode(mode))]

\* save and load: everything a 32x32 block changes, and the smaller rectangle of tu8.
InRect(c, x, y, size, b) ==
    IF b[1] = 0 THEN c = 0 /\ b[2] \in x .. x + size - 1 /\ b[3] \in y .. y + size - 1
    ELSE c > 0 /\ b[2] * 2 ^ shiftW \in x .. x + size - 1 /\ b[3] * 2 ^ shiftH \in y .. y + size - 1
Rect(c, x, y, size) == IF c = 0 THEN Units(x, y, size, size)
                       ELSE Units(x \div 2 ^ shiftW, y \div 2 ^ shiftH, size \div 2 ^ shiftW, size \div 2 ^ shiftH)
Restore_coded(now, then, c, x, y, size) ==
    [now EXCEPT !.recon = {b \in @ : ~InRect(c, x, y, size, b)} \cup {b \in then.recon : InRect(c, x, y, size, b)}]
Restore(now, then, c, x, y, size) ==
    [now EXCEPT !.recon = {b \in @ : ~InRect(c, x, y, size, b)} \cup {b \in then.recon : InRect(c, x, y, size, b)},
                !.coded[Map(c)] = (@ \ Rect(c, x, y, size)) \cup (then.coded[Map(c)] \cap Rect(c, x, y, size))]
loadTU8(now, then, x, y) == Restore(now, then, 0, x, y, 8)
RestoreModes(now, then, x, y) ==
    [now EXCEPT !.bits = then.bits,
                !.modes = [p \in Covered(x, y, 32) |-> then.modes[p]] @@ @,
                !.depth = [p \in Covered(x, y, 32) |-> then.depth[p]] @@ @]
load(now, then, x, y) ==
    RestoreModes(IF S.chroma = 0 THEN Restore(now, then, 0, x, y, 32)
                 ELSE Restore(Restore(now, then, 0, x, y, 32), then, 1, x, y, 32), then, x, y)

--------------------------------------------------------------------------------
\* What is written. cbf[c][t] is the coded block flag of block t of component c.
chromaAt(n) == chromaTBs > 0 /\ (n > 4 \/ S.chroma = 3)
chromaSecond_unsplit(n, split) == S.chroma = 2 /\ ~split
chromaSecond(n, split) == S.chroma = 2 /\ (~split \/ n = 8)
Either(cbf) == \E t \in 1 .. 2 : cbf[t]
Root(cbfs) == [c \in 1 .. 2 |-> <<\E i \in 1 .. 4 : Either(cbfs[i][c]), FALSE>>]

splitCtx(e, x, y, d) == Bit(x > 0 /\ e.depth[Blk16(x - 1, y)] > d) + Bit(y > 0 /\ e.depth[Blk16(x, y - 1)] > d)
chromaPredMode == IF chromaTBs > 0 THEN <<<<"intra_chroma_pred_mode", <<>>, 0>>>> ELSE <<>>
chromaCBF(depth, cbf, up, second) ==
    IF chromaTBs = 0 THEN <<>>
    ELSE FlattenSeq([c \in 1 .. 2 |->
            IF depth # 0 /\ ~up[c][1] THEN <<>>
            ELSE [t \in 1 .. 1 + Bit(second) |-> <<"cbf_chroma", <<depth>>, Bit(cbf[c][t])>>]])
residual(log2, c, mode) == <<<<"residual", <<log2, c, mode>>, 0>>>>
codedResidual(cbf, log2, mode, depth) ==
    <<<<"cbf_luma", <<Bit(depth = 0)>>, Bit(cbf)>>>> \o IF cbf THEN residual(log2, 0, mode) ELSE <<>>
chromaResidual(log2, mode, cbf) ==
    FlattenSeq([i \in 1 .. 2 * chromaTBs |->
        IF cbf[1 + (i - 1) \div chromaTBs][1 + ((i - 1) % chromaTBs)]
        THEN residual(log2 - shiftW, 1 + (i - 1) \div chromaTBs, chromaMode(mode)) ELSE <<>>])
splitTransform(ctx, split) == <<<<"split_transform_flag", <<ctx>>, Bit(split)>>>>

\* A 32x32 unit u: one transform block, or four.
tu32Tree(u, mode, root) ==
    splitTransform(0, u.split) \o chromaCBF(0, root, root, chromaSecond(32, u.split)) \o
    IF ~u.split THEN codedResidual(u.y, 5, mode, 0) \o chromaResidual(5, mode, u.c)
    ELSE FlattenSeq([i \in 1 .. 4 |->
            splitTransform(1, FALSE) \o chromaCBF(1, u.quadC[i], root, chromaSecond(16, FALSE)) \o
            codedResidual(u.quad[i], 4, mode, 1) \o chromaResidual(4, mode, u.quadC[i])])

\* The chroma flags of an 8x8 quadrant, which 4:4:4 gathers from its 4x4 blocks.
cbfC8(u) == IF u.split /\ chromaAt(4) THEN Root(u.c) ELSE u.c8
tu8Code(u, mode, up) ==
    splitTransform(2, u.split) \o chromaCBF(1, cbfC8(u), up, chromaSecond(8, u.split)) \o
    IF ~u.split THEN codedResidual(u.y8, 3, mode, 1) \o chromaResidual(3, mode, u.c8)
    ELSE FlattenSeq([j \in 1 .. 4 |->
            (IF chromaAt(4) THEN chromaCBF(2, u.c[j], cbfC8(u), FALSE) ELSE <<>>) \o
            codedResidual(u.y[j], 2, mode, 2) \o
            (IF chromaAt(4) THEN chromaResidual(2, mode, u.c[j]) ELSE <<>>)])
         \o IF chromaAt(4) THEN <<>> ELSE chromaResidual(3, mode, u.c8)

\* tu8 tries both splits, then codes the chroma of the one it keeps.
Luma(p, n, mode) == Block(0, p[1], p[2], n, mode)
Quarters(x, y, mode) == [j \in 1 .. 4 |-> Luma(Quads(x, y, 4)[j], 4, mode)]
TU8Chroma(x, y, mode, split) ==
    IF split /\ chromaAt(4) THEN FlattenSeq([j \in 1 .. 4 |-> ChromaBlocks(Quads(x, y, 4)[j][1], Quads(x, y, 4)[j][2], 4, mode)])
    ELSE ChromaBlocks(x, y, 8, mode)
WholeTU8(before, kept, x, y, mode) == codeBlock(loadTU8(kept, before, x, y), Luma(<<x, y>>, 8, mode))
ChooseTU8(before, kept, x, y, mode, split) ==
    IF split THEN loadTU8(WholeTU8(before, kept, x, y, mode), kept, x, y) ELSE WholeTU8(before, kept, x, y, mode)
tu8(e, x, y, mode, split) ==
    CodeBlocks(ChooseTU8(e, CodeBlocks(e, Quarters(x, y, mode)), x, y, mode, split), TU8Chroma(x, y, mode, split))

\* The symbols of a unit, and what it leaves for the units to come.
Coded(e, x, y, size, d, mode, symbols) ==
    [e EXCEPT !.bits = @ \o symbols,
              !.modes = [p \in Covered(x, y, size) |-> mode] @@ @,
              !.depth = [p \in Covered(x, y, size) |-> d] @@ @]
LeafSymbols(u, mode, cand, root) ==
    <<<<"part_mode", <<>>, 1>>>> \o lossyIntraLumaMode(mode, cand) \o chromaPredMode \o splitTransform(1, TRUE) \o
    chromaCBF(0, root, root, chromaSecond(16, TRUE)) \o FlattenSeq([i \in 1 .. 4 |-> tu8Code(u.tus[i], mode, root)])
CU32Symbols(u, cand) ==
    lossyIntraLumaMode(u.mode, cand) \o chromaPredMode \o tu32Tree(u, u.mode, IF u.split THEN Root(u.quadC) ELSE u.c)
TU(e, x, y, n, mode) == CodeBlocks(codeBlock(e, Luma(<<x, y>>, n, mode)), ChromaBlocks(x, y, n, mode))

\* Whether a 32x32 unit of one transform block left nothing to gain.
flat(u) == ~u.split /\ ~u.y /\ ~Either(u.c[1]) /\ ~Either(u.c[2])
SplitFlag(e, x, y, d, v) == [e EXCEPT !.bits = Append(@, <<"split_cu_flag", <<splitCtx(e, x, y, d)>>, v>>)]

\* A block of a PCM slice: its samples bypass prediction and the arithmetic coder.
pcmSlice(e) == [e EXCEPT !.bits = <<<<"part_mode", <<>>, 1>>, <<"pcm_flag", <<>>, 1>>, <<"pcm_sample", <<>>, 0>>>>]

--------------------------------------------------------------------------------
\* The z-scan availability of 6.4.1 within one slice and one tile, by the order of
\* the 4x4 blocks (buildMinTbAddr).
minTbAddr(x, y) ==
    (IF S.pcm THEN 0 ELSE ((y \div 64) * ((S.width + 63) \div 64) + x \div 64) * 256)
    + FoldLeft(LAMBDA v, i : v + 4 ^ i * ((((x \div 4) \div 2 ^ i) % 2) + 2 * (((y \div 4) \div 2 ^ i) % 2)), 0, <<0, 1, 2, 3>>)
available(x, y, p) == /\ p[1] >= 0 /\ p[2] >= 0 /\ p[1] < S.width /\ p[2] < S.height
                      /\ minTbAddr(p[1], p[2]) < minTbAddr(x, y)
SubW(c) == IF c = 0 THEN 1 ELSE 2 ^ shiftW
SubH(c) == IF c = 0 THEN 1 ELSE 2 ^ shiftH
gatherRef(c, x, y, n) ==
    {i \in 0 .. 4 * n : /\ InPlane(c, Reference(x, y, n, i))
                        /\ available(x * SubW(c), y * SubH(c), <<Reference(x, y, n, i)[1] * SubW(c), Reference(x, y, n, i)[2] * SubH(c)>>)}
reconstruct(b) == Append(b, gatherRef(b[1], b[2], b[3], b[4]))

MinCb == 4
CtbLog2 == IF S.pcm THEN 4 ELSE 6
MaxTb == IF S.pcm THEN 4 ELSE 5
MaxTrHierIntra == 2
None == <<<<FALSE, FALSE>>, <<FALSE, FALSE>>>>
\* A call of the encoder, with the choices u made for it, and one of the decoder.
Do(f, x, y, d, u) == [f |-> f, x |-> x, y |-> y, d |-> d, u |-> u]
Call(f, x, y, log2, depth) ==
    [f |-> f, x |-> x, y |-> y, log2 |-> log2, depth |-> depth, blk |-> 0, base |-> <<x, y>>, split |-> FALSE, cbf |-> None]

\* What the innermost call reads next: the names and the contexts of its symbols.
Value(i) == i <= Len(bits) /\ bits[i][3] = 1
SplitCoded(t) == t.log2 > MinCb /\ InPicture(t.x, t.y, 2 ^ t.log2)
SplitContext(t) == Bit(available(t.x, t.y, <<t.x - 1, t.y>>) /\ dec.depth[Blk16(t.x - 1, t.y)] > t.depth)
                   + Bit(available(t.x, t.y, <<t.x, t.y - 1>>) /\ dec.depth[Blk16(t.x, t.y - 1)] > t.depth)
Second(t) == S.chroma = 2 /\ (~t.split \/ t.log2 = 3)
ChromaCoded(t) == S.chroma # 0 /\ (t.log2 > 2 \/ S.chroma = 3)
Flags(t, c) == IF t.depth = 0 \/ t.cbf[c][1] THEN 1 + Bit(Second(t)) ELSE 0
\* The chroma blocks of a transform unit, behind the fourth of four 4x4 luma blocks.
UnitChroma(t) ==
    CASE S.chroma = 0 -> <<>>
      [] S.chroma # 0 /\ (t.log2 > 2 \/ S.chroma = 3) -> <<t.x \div SubW(1), t.y \div SubH(1), IF S.chroma = 3 THEN t.log2 ELSE t.log2 - 1>>
      [] S.chroma # 0 /\ t.log2 = 2 /\ S.chroma # 3 /\ t.blk = 3 -> <<t.base[1] \div SubW(1), t.base[2] \div SubH(1), 2>>
      [] OTHER -> <<>>
ChromaTBs(t, mode, at) ==
    IF at = <<>> THEN <<>>
    ELSE FlattenSeq([c \in 1 .. 2 |-> [k \in 1 .. (IF S.chroma = 2 THEN 2 ELSE 1) |->
            <<c, k, Block(c, at[1], at[2] + (k - 1) * 2 ^ at[3], 2 ^ at[3], mode), at[3]>>]])
UnitBlocks(t) == ChromaTBs(t, dec.modesC[Blk16(t.base[1], t.base[2])], UnitChroma(t))
Residuals(t, blocks) ==
    FlattenSeq([i \in 1 .. Len(blocks) |->
        IF t.cbf[blocks[i][1]][blocks[i][2]] THEN <<<<"residual", <<blocks[i][4], blocks[i][1], blocks[i][3][5]>>>>>> ELSE <<>>])
Kinds(t) ==
    CASE t.f = "codingQuadtree" -> IF SplitCoded(t) THEN <<<<"split_cu_flag", <<SplitContext(t)>>>>>> ELSE <<>>
      [] t.f = "codingUnit" -> (IF t.log2 = MinCb THEN <<<<"part_mode", <<>>>>>> ELSE <<>>)
                               \o (IF S.pcm /\ t.log2 = 4 THEN <<<<"pcm_flag", <<>>>>>> ELSE <<>>)
      [] t.f = "pcmSample" -> <<<<"pcm_sample", <<>>>>>>
      [] t.f = "intraModes" -> <<<<"prev_intra_luma_pred_flag", <<>>>>, <<IF Value(1) THEN "mpm_idx" ELSE "rem_intra_luma_pred_mode", <<>>>>>>
                               \o (IF S.chroma # 0 THEN <<<<"intra_chroma_pred_mode", <<>>>>>> ELSE <<>>)
      [] t.f = "transformTree" -> IF t.log2 <= MaxTb /\ t.log2 > 2 /\ t.depth < MaxTrHierIntra
                                  THEN <<<<"split_transform_flag", <<5 - t.log2>>>>>> ELSE <<>>
      [] t.f = "chromaFlags" -> IF ChromaCoded(t) THEN [i \in 1 .. Flags(t, 1) + Flags(t, 2) |-> <<"cbf_chroma", <<t.depth>>>>] ELSE <<>>
      [] t.f = "transformUnit" -> <<<<"cbf_luma", <<Bit(t.depth = 0)>>>>>>
                                  \o (IF Value(1) THEN <<<<"residual", <<t.log2, 0, dec.modes[Blk16(t.x, t.y)]>>>>>> ELSE <<>>)
                                  \o Residuals(t, UnitBlocks(t))

--------------------------------------------------------------------------------
Blocks16 == (0 .. (S.width + 15) \div 16 - 1) \X (0 .. (S.height + 15) \div 16 - 1)
Before(p) == LET size == 2 ^ CtbLog2 IN
    \/ (p[2] * 16) \div size < S.at[2] \div size
    \/ (p[2] * 16) \div size = S.at[2] \div size /\ (p[1] * 16) \div size < S.at[1] \div size
Prior(map, x) == [p \in Blocks16 |-> IF Before(p) THEN (IF p[2] * 16 < S.at[2] THEN map[1] ELSE map[2]) ELSE x]
Init ==
    /\ stream \in Streams
    /\ enc = [modes |-> Prior(S.modes, 0), depth |-> Prior(S.depths, 0), recon |-> {}, bits |-> <<>>,
              coded |-> [m \in 1 .. 2 |-> UNION {Rect(m - 1, p[1] * 16, p[2] * 16, 16) : p \in {p \in Blocks16 : Before(p)}}]]
    /\ bits = <<>> /\ todo = <<>>
    /\ dec = [modes |-> enc.modes, modesC |-> enc.modes, depth |-> enc.depth, recon |-> {}, read |-> FALSE]
    /\ work = <<Do("tree", S.at[1], S.at[2], 0, S.units)>>
    /\ saved = [before |-> enc, kept |-> enc, tuBase |-> enc, tuKept |-> enc]

--------------------------------------------------------------------------------
\* The encoder. A call is replaced by the calls it makes.
Perform(t, f, calls) ==
    /\ work # <<>> /\ t.f = f
    /\ work' = calls \o Tail(work)
    /\ UNCHANGED <<stream, bits, dec, todo>>
KeepSaved == UNCHANGED saved
Inner(calls) == SelectSeq(calls, LAMBDA c : Inside(<<c.x, c.y>>))
LeafCalls(x, y, d, u, n) ==
    [i \in 1 .. n |-> Do("leaf", Quads(x, y, 16)[i][1], Quads(x, y, 16)[i][2], d, u.leaves[i])]

EncodeTree ==
    LET t == Head(work)
    IN  /\ Perform(t, "tree", IF S.pcm THEN <<>> ELSE
               Inner([i \in 1 .. 4 |-> Do("tree32", Quads(t.x, t.y, 32)[i][1], Quads(t.x, t.y, 32)[i][2], 1, t.u[i])]))
        /\ enc' = IF S.pcm THEN pcmSlice(enc) ELSE IF InPicture(t.x, t.y, 64) THEN SplitFlag(enc, t.x, t.y, 0, 1) ELSE enc
        /\ KeepSaved

EncodeTree32 ==
    LET t == Head(work)
    IN  /\ Perform(t, "tree32", IF InPicture(t.x, t.y, 32) THEN <<[t EXCEPT !.f = "cuSize"]>> ELSE Inner(LeafCalls(t.x, t.y, 2, t.u, 4)))
        /\ UNCHANGED enc /\ KeepSaved

\* cuSize: first one unit of 32 with one transform block, then with four, then the
\* cheaper of these is put back and written.
CuSize ==
    LET t == Head(work)
    IN  /\ Perform(t, "cuSize", <<[t EXCEPT !.f = "split32"], [t EXCEPT !.f = "cu32"], [t EXCEPT !.f = "second"]>>)
        /\ enc' = TU(SplitFlag(enc, t.x, t.y, t.d, 0), t.x, t.y, 32, t.u.mode)
        /\ saved' = [saved EXCEPT !.before = enc, !.tuBase = SplitFlag(enc, t.x, t.y, t.d, 0)]
Split32 ==
    LET t == Head(work)
    IN  /\ Perform(t, "split32", <<>>)
        /\ enc' = FoldLeft(LAMBDA e, p : TU(e, p[1], p[2], 16, t.u.mode), load(enc, saved.tuBase, t.x, t.y), Quads(t.x, t.y, 16))
        /\ saved' = [saved EXCEPT !.tuKept = enc]
CU32 ==
    LET t == Head(work)
        e == IF t.u.split THEN enc ELSE load(enc, saved.tuKept, t.x, t.y)
    IN  /\ Perform(t, "cu32", <<>>)
        /\ enc' = Coded(e, t.x, t.y, 32, t.d, t.u.mode, CU32Symbols(t.u, lossyMPM(enc.modes, t.x, t.y)))
        /\ KeepSaved

\* Then four units of 16, from what the first began with, until they have lost. The
\* first of them takes the mode that was searched for once.
SecondArm ==
    LET t == Head(work)
        n == IF t.u.size = "split" THEN 4 ELSE t.u.tried
        u == [t.u EXCEPT !.leaves[1].mode = t.u.mode]
    IN  /\ Perform(t, "second", IF flat(t.u) THEN <<>> ELSE LeafCalls(t.x, t.y, t.d + 1, u, n) \o <<[t EXCEPT !.f = "decide"]>>)
        /\ enc' = IF flat(t.u) THEN enc ELSE SplitFlag(load(enc, saved.before, t.x, t.y), t.x, t.y, t.d, 1)
        /\ saved' = [saved EXCEPT !.kept = enc]
Decide ==
    LET t == Head(work)
    IN  /\ Perform(t, "decide", <<>>)
        /\ enc' = IF t.u.size = "split" THEN enc ELSE load(enc, saved.kept, t.x, t.y)
        /\ KeepSaved

\* A 16x16 unit: its four quadrants are predicted, then all of it is written.
Leaf ==
    LET t == Head(work)
    IN  /\ Perform(t, "leaf", [i \in 1 .. 4 |-> Do("tu8", Quads(t.x, t.y, 8)[i][1], Quads(t.x, t.y, 8)[i][2], i, t.u)]
                              \o <<[t EXCEPT !.f = "leafCode"]>>)
        /\ UNCHANGED enc /\ KeepSaved
TU8 ==
    LET t == Head(work)
    IN  /\ Perform(t, "tu8", <<>>)
        /\ enc' = tu8(enc, t.x, t.y, t.u.mode, t.u.tus[t.d].split)
        /\ KeepSaved
LeafCode ==
    LET t == Head(work)
    IN  /\ Perform(t, "leafCode", <<>>)
        /\ enc' = Coded(enc, t.x, t.y, 16, t.d, t.u.mode,
                        LeafSymbols(t.u, t.u.mode, lossyMPM(enc.modes, t.x, t.y), Root([i \in 1 .. 4 |-> cbfC8(t.u.tus[i])])))
        /\ KeepSaved
Encode == EncodeTree \/ EncodeTree32 \/ CuSize \/ Split32 \/ CU32 \/ SecondArm \/ Decide \/ Leaf \/ TU8 \/ LeafCode

\* The coded block reaches the decoder.
Deliver ==
    /\ work = <<>> /\ todo = <<>> /\ ~dec.read
    /\ bits' = enc.bits
    /\ todo' = <<Call("codingQuadtree", S.at[1], S.at[2], CtbLog2, 0)>>
    /\ dec' = [dec EXCEPT !.read = TRUE]
    /\ UNCHANGED <<stream, enc, work, saved>>

--------------------------------------------------------------------------------
\* A call reads its symbols and is replaced by the calls it makes.
Step(t, f, calls) ==
    /\ todo # <<>> /\ t.f = f
    /\ bits' = SubSeq(bits, Len(Kinds(t)) + 1, Len(bits))
    /\ todo' = calls \o Tail(todo)
    /\ UNCHANGED <<stream, enc, work, saved>>
Fill(map, t, v) == [p \in Covered(t.x, t.y, 2 ^ t.log2) |-> v] @@ map

CodingQuadtree ==
    LET t == Head(todo)
        split == IF SplitCoded(t) THEN Value(1) ELSE t.log2 > MinCb
        quads == Quads(t.x, t.y, 2 ^ (t.log2 - 1))
        calls == [i \in 1 .. 4 |-> Call("codingQuadtree", quads[i][1], quads[i][2], t.log2 - 1, t.depth + 1)]
    IN  /\ Step(t, "codingQuadtree", IF split THEN SelectSeq(calls, LAMBDA c : Inside(<<c.x, c.y>>)) ELSE <<[t EXCEPT !.f = "codingUnit"]>>)
        /\ UNCHANGED dec

CodingUnit ==
    LET t == Head(todo)
        pcm == S.pcm /\ t.log2 = 4 /\ Value(1) /\ Value(2)
    IN  /\ Step(t, "codingUnit", <<[t EXCEPT !.f = IF pcm THEN "pcmSample" ELSE "intraModes"]>>)
        /\ dec' = [dec EXCEPT !.depth = Fill(@, t, t.depth)]

PcmSample ==
    LET t == Head(todo)
    IN  /\ Step(t, "pcmSample", <<>>)
        /\ dec' = [dec EXCEPT !.modes = Fill(@, t, DC)]

IntraModes ==
    LET t == Head(todo)
        modeAt(p, usable) == IF available(t.x, t.y, p) /\ usable THEN dec.modes[Blk16(p[1], p[2])] ELSE DC
        cand == Candidates(modeAt(<<t.x - 1, t.y>>, TRUE), modeAt(<<t.x, t.y - 1>>, t.y % (2 ^ CtbLog2) # 0))
        mode == IF Value(1) THEN cand[bits[2][3] + 1] ELSE Remaining(cand, bits[2][3])
    IN  /\ Step(t, "intraModes", <<Call("transformTree", t.x, t.y, t.log2, 0)>>)
        /\ dec' = [dec EXCEPT !.modes = Fill(@, t, mode), !.modesC = Fill(@, t, chromaMode(mode))]

TransformTree ==
    LET t == Head(todo)
    IN  /\ Step(t, "transformTree", <<[t EXCEPT !.f = "chromaFlags", !.split = IF Kinds(t) = <<>> THEN t.log2 > MaxTb ELSE Value(1)]>>)
        /\ UNCHANGED dec

ChromaFlags ==
    LET t == Head(todo)
        flag(c, k) == k <= Flags(t, c) /\ Value((IF c = 2 THEN Flags(t, 1) ELSE 0) + k)
        cbf == IF ChromaCoded(t) THEN [c \in 1 .. 2 |-> <<flag(c, 1), flag(c, 2)>>] ELSE t.cbf
        child(i) == [Call("transformTree", Quads(t.x, t.y, 2 ^ (t.log2 - 1))[i][1], Quads(t.x, t.y, 2 ^ (t.log2 - 1))[i][2], t.log2 - 1, t.depth + 1)
                     EXCEPT !.blk = i - 1, !.base = <<t.x, t.y>>, !.cbf = cbf]
    IN  /\ Step(t, "chromaFlags", IF t.split THEN [i \in 1 .. 4 |-> child(i)] ELSE <<[t EXCEPT !.f = "transformUnit", !.cbf = cbf]>>)
        /\ UNCHANGED dec

TransformUnit ==
    LET t == Head(todo)
        chroma == UnitBlocks(t)
    IN  /\ Step(t, "transformUnit", <<>>)
        /\ dec' = [dec EXCEPT !.recon = @ \cup {reconstruct(Luma(<<t.x, t.y>>, 2 ^ t.log2, dec.modes[Blk16(t.x, t.y)]))}
                                          \cup {reconstruct(chroma[i][3]) : i \in 1 .. Len(chroma)}]

Decode == CodingQuadtree \/ CodingUnit \/ PcmSample \/ IntraModes \/ TransformTree \/ ChromaFlags \/ TransformUnit
Next == Encode \/ Deliver \/ Decode
Spec == Init /\ [][Next]_vars

--------------------------------------------------------------------------------
\* The decoder asks for every bin the encoder wrote, in its order and with its
\* context, whatever the encoder chose and took back: contexts that depend on depths
\* and modes of neighbours, flags that a parent gates, chroma behind the last block.
InStep == todo # <<>> => /\ Len(bits) >= Len(Kinds(Head(todo)))
                         /\ \A i \in 1 .. Len(Kinds(Head(todo))) :
                                bits[i][1] = Kinds(Head(todo))[i][1] /\ bits[i][2] = Kinds(Head(todo))[i][2]

\* A coding tree block read to its end is the one the encoder kept: the same modes
\* and depths for the blocks to come, and every block predicted with the same mode
\* from the same reference samples, although the encoder decides what is available
\* by what it has reconstructed and the decoder by the order of the blocks.
SamePrediction ==
    dec.read /\ todo = <<>> =>
        /\ bits = <<>> /\ dec.recon = enc.recon
        /\ S.pcm \/ (dec.modes = enc.modes /\ dec.depth = enc.depth)
=============================================================================
