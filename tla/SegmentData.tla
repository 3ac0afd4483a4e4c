----------------------------- MODULE SegmentData -----------------------------
(***************************************************************************)
(* The serial loop of decodeSliceData (hevc/decoder.go): which contexts,   *)
(* which predicted quantisation parameter and which substream every coding *)
(* tree block is parsed with, when slices are made of dependent segments,  *)
(* tiles and wavefronts restart the arithmetic decoder, and segments are   *)
(* lost or come twice on the way.                                          *)
(*                                                                         *)
(* What a block is parsed with is named by where it comes from: a slice    *)
(* header that initialised it, or the block after which it was left.  The  *)
(* reference is the text of 9.3.1, 8.6.1 and 7.3.8.1 that the comments of  *)
(* the code refer to, applied to the segments as they were coded.          *)
(***************************************************************************)
EXTENDS ScanOrder, FiniteSets

CONSTANTS
    Shapes,     \* pictures: [cols : Seq(Nat), rows : Seq(Nat), wpp : BOOLEAN]
    MaxFaults   \* bound: segments lost or delivered again

Sizes(q) == q \in Seq(Nat \ {0}) /\ q # <<>>
ShapeAssumption == \A s \in Shapes : Sizes(s.cols) /\ Sizes(s.rows) /\ s.wpp \in BOOLEAN
ASSUME ShapesGiven == ShapeAssumption

\* In a picture with wavefronts a row of blocks is in one tile.  The theorem needs
\* it: with columns of tiles, which no Main profile combines with wavefronts, the
\* loop below is not 9.3.1.
OneColumn == \A s \in Shapes : s.wpp => Len(s.cols) = 1

VARIABLES
    pic,        \* the scan tables of the picture, and whether it has wavefronts
    segments,   \* its segments: [start, end, dep], in tile scan
    arriving,   \* where the next segment to arrive starts
    faults,     \* how many were lost or came again
    d,          \* the ctuDecoder, and of the Decoder what lasts between segments
    seg,        \* the segment being decoded, and how far it is
    read        \* what every decoded block was parsed with

dataVars == <<pic, segments, arriving, faults, d, seg, read>>

Unset == [from |-> "nothing"]
Slice(addr) == [from |-> "slice", addr |-> addr]    \* initialised for this slice
After(ts) == [from |-> "block", ts |-> ts]          \* as this block left it
Idle == [on |-> FALSE]

\* The tables of a picture of shape s.
Picture(s) ==
    LET b == buildTileScan(s.cols, s.rows)
    IN  [wpp |-> s.wpp, w |-> b.w, size |-> b.size,
         rsToTs |-> b.rsToTs, tsToRs |-> b.tsToRs, tileID |-> b.tileID]

Blocks == 0 .. pic.size - 1

-----------------------------------------------------------------------------
(* The segments an encoder may make of a picture. *)

\* Every block but the first may begin a segment, dependent or not.
Begins(p) == [1 .. p.size - 1 -> {"no", "dependent", "slice"}]

Starts(p, b) == {0} \cup {ts \in 1 .. p.size - 1 : b[ts] # "no"}
EndOf(p, b, ts) == CHOOSE e \in ts .. p.size - 1 : /\ \A u \in ts + 1 .. e : u \notin Starts(p, b)
                                                   /\ e = p.size - 1 \/ e + 1 \in Starts(p, b)
Segments(p, b) == {[start |-> ts, end |-> EndOf(p, b, ts), dep |-> ts > 0 /\ b[ts] = "dependent"] :
                       ts \in Starts(p, b)}

\* Blocks ts .. te are in one tile, or are whole tiles.
TileAligned(p, ts, te) ==
    \/ p.tileID[ts] = p.tileID[te]
    \/ /\ ts = 0 \/ p.tileID[ts - 1] # p.tileID[ts]
       /\ te = p.size - 1 \/ p.tileID[te + 1] # p.tileID[te]

\* With wavefronts, what begins within a row ends within it.
RowAligned(p, ts, te) ==
    LET rs == p.tsToRs[ts]
    IN  p.wpp => \/ rs % p.w = 0
                 \/ p.tileID[p.rsToTs[rs - 1]] # p.tileID[ts]
                 \/ rs \div p.w = p.tsToRs[te] \div p.w

\* Where the slice that begins with segment s ends.
SliceEnd(segs, s) ==
    CHOOSE e \in {x.end : x \in segs} :
        /\ e >= s.end
        /\ \A x \in segs : x.start > s.start /\ x.start <= e => x.dep
        /\ \A x \in segs : x.start = e + 1 => ~x.dep

Conforming(p, segs) ==
    \A s \in segs :
        /\ TileAligned(p, s.start, s.end) /\ RowAligned(p, s.start, s.end)
        /\ ~s.dep => /\ TileAligned(p, s.start, SliceEnd(segs, s))
                     /\ RowAligned(p, s.start, SliceEnd(segs, s))

-----------------------------------------------------------------------------
(* The decoder. *)

\* Mutant of SyncContexts: the block above-right of another slice will do.
SyncContexts_slice(ts, rs) ==
    LET top == rs - pic.w + 1
    IN  /\ pic.w >= 2 /\ rs >= pic.w
        /\ pic.tileID[ts] = pic.tileID[pic.rsToTs[top]]
        /\ d.saved # Unset

\* A row of a wavefront starts with what the second block of the row above
\* left, if that is available.
SyncContexts(ts, rs) ==
    LET top == rs - pic.w + 1
    IN  /\ pic.w >= 2 /\ rs >= pic.w /\ top >= d.sliceAddrRs
        /\ pic.tileID[ts] = pic.tileID[pic.rsToTs[top]]
        /\ d.saved # Unset

\* The start of startSubstream for the first substream of a segment.
Carry(s) == s.dep /\ d.depSaved # Unset /\ s.start > 0 /\ pic.tileID[s.start] = pic.tileID[s.start - 1]

\* decodeSlice and the start of decodeSliceData: only the first segment makes
\* a picture, a dependent one takes the header of the last that was not, and
\* one that starts behind what is decoded leaves a gap.
StartSegment(s) ==
    LET hdr == IF s.dep THEN d.prevSlic ELSE Slice(pic.tsToRs[s.start])
        opened == [d EXCEPT !.prevSlic = hdr, !.open = @ \/ s.start = 0]
        addressed == [opened EXCEPT
                         !.sliceAddrRs = IF s.dep THEN d.depSliceAddrRs ELSE pic.tsToRs[s.start],
                         !.depSliceAddrRs = IF s.dep THEN @ ELSE pic.tsToRs[s.start]]
        marked == [addressed EXCEPT !.corrupt = @ \/ s.start # d.nextCTU]
        init == [marked EXCEPT !.ctx = IF Carry(s) THEN d.depSaved ELSE hdr,
                               !.qp = IF Carry(s) THEN @ ELSE hdr]
    IN  /\ ~seg.on
        /\ IF hdr = Unset \/ ~opened.open
           THEN d' = (IF hdr = Unset THEN d ELSE opened) /\ UNCHANGED seg
           ELSE IF s.start < d.nextCTU THEN d' = marked /\ UNCHANGED seg
           ELSE d' = init /\ seg' = [on |-> TRUE, start |-> s.start, end |-> s.end,
                                     hdr |-> hdr, ts |-> s.start, sub |-> 0]
        /\ UNCHANGED <<pic, segments, read>>

\* What block ts is parsed with.
Parsing(ts) ==
    LET rs == pic.tsToRs[ts]
        row == pic.wpp /\ rs % pic.w = 0
    IN  [ctx |-> IF row /\ SyncContexts(ts, rs) THEN d.saved
                 ELSE IF row /\ (ts > seg.start \/ (pic.w < 2 /\ rs > 0)) THEN seg.hdr
                 ELSE d.ctx,
         qp  |-> IF row THEN seg.hdr ELSE d.qp,
         sub |-> seg.sub]

\* The decoder behind block ts: its contexts are kept for the row below.
Behind(ts) ==
    [d EXCEPT !.ctx = After(ts), !.qp = After(ts), !.nextCTU = ts + 1,
              !.saved = IF pic.wpp /\ pic.tsToRs[ts] % pic.w = 1 THEN After(ts) ELSE @]

EndOfTile(ts) == ts + 1 < pic.size /\ pic.tileID[ts + 1] # pic.tileID[ts]
EndOfRow(ts) == pic.wpp /\ pic.tsToRs[ts] % pic.w = pic.w - 1

\* The last block of the segment: end_of_slice_segment_flag is set.
EndSegment ==
    /\ seg.on /\ seg.ts = seg.end
    /\ read' = [read EXCEPT ![seg.ts] = Parsing(seg.ts)]
    /\ d' = [Behind(seg.ts) EXCEPT !.depSaved = After(seg.ts)]
    /\ seg' = Idle
    /\ UNCHANGED <<pic, segments, arriving, faults>>

\* Mutant of NextSubstream: a tile keeps the contexts of the one before it.
NextSubstream_tile ==
    /\ seg.on /\ seg.ts < seg.end /\ (EndOfTile(seg.ts) \/ EndOfRow(seg.ts))
    /\ read' = [read EXCEPT ![seg.ts] = Parsing(seg.ts)]
    /\ d' = [Behind(seg.ts) EXCEPT !.qp = seg.hdr]
    /\ seg' = [seg EXCEPT !.ts = @ + 1, !.sub = @ + 1]
    /\ UNCHANGED <<pic, segments, arriving, faults>>

\* The last block of a tile or of a row that is a substream of its own.
NextSubstream ==
    /\ seg.on /\ seg.ts < seg.end /\ (EndOfTile(seg.ts) \/ EndOfRow(seg.ts))
    /\ read' = [read EXCEPT ![seg.ts] = Parsing(seg.ts)]
    /\ d' = [Behind(seg.ts) EXCEPT
                !.qp = seg.hdr,
                !.ctx = IF EndOfTile(seg.ts) THEN seg.hdr ELSE @,
                !.saved = IF EndOfTile(seg.ts) THEN Unset ELSE @]
    /\ seg' = [seg EXCEPT !.ts = @ + 1, !.sub = @ + 1]
    /\ UNCHANGED <<pic, segments, arriving, faults>>

NextBlock ==
    /\ seg.on /\ seg.ts < seg.end /\ ~EndOfTile(seg.ts) /\ ~EndOfRow(seg.ts)
    /\ read' = [read EXCEPT ![seg.ts] = Parsing(seg.ts)]
    /\ d' = Behind(seg.ts)
    /\ seg' = [seg EXCEPT !.ts = @ + 1]
    /\ UNCHANGED <<pic, segments, arriving, faults>>

-----------------------------------------------------------------------------
DataInit ==
    /\ \E s \in Shapes :
          /\ pic = Picture(s)
          /\ \E b \in {x \in Begins(pic) : Conforming(pic, Segments(pic, x))} :
                segments = Segments(pic, b)
    /\ arriving = 0
    /\ faults = 0
    /\ d = [open |-> FALSE, prevSlic |-> Unset, sliceAddrRs |-> 0, depSliceAddrRs |-> 0,
            nextCTU |-> 0, ctx |-> Unset, qp |-> Unset, saved |-> Unset, depSaved |-> Unset,
            corrupt |-> FALSE]
    /\ seg = Idle
    /\ read = [ts \in Blocks |-> Unset]

Deliver ==
    \E s \in segments :
        /\ s.start = arriving
        /\ StartSegment(s)
        /\ arriving' = s.end + 1
        /\ UNCHANGED faults

Again ==
    /\ faults < MaxFaults
    /\ \E s \in segments :
          /\ s.start > 0 /\ s.end + 1 = arriving
          /\ StartSegment(s)
    /\ faults' = faults + 1
    /\ UNCHANGED arriving

Lose ==
    /\ ~seg.on /\ faults < MaxFaults
    /\ \E s \in segments : s.start = arriving /\ arriving' = s.end + 1
    /\ faults' = faults + 1
    /\ UNCHANGED <<pic, segments, d, seg, read>>

DataNext == Deliver \/ Again \/ Lose \/ EndSegment \/ NextSubstream \/ NextBlock

DataSpec == DataInit /\ [][DataNext]_dataVars

-----------------------------------------------------------------------------
(* The reference: what the blocks were coded with. *)

SegmentOf(ts) == CHOOSE s \in segments : s.start <= ts /\ ts <= s.end
SliceStart(ts) ==
    CHOOSE a \in {s.start : s \in {x \in segments : ~x.dep}} :
        /\ a <= ts
        /\ \A s \in segments : a < s.start /\ s.start <= ts => s.dep

FirstInTile(ts) == ts = 0 \/ pic.tileID[ts] # pic.tileID[ts - 1]
FirstInRow(ts) ==
    LET rs == pic.tsToRs[ts]
    IN  pic.wpp /\ (rs % pic.w = 0 \/ pic.tileID[pic.rsToTs[rs - 1]] # pic.tileID[ts])

\* The block above-right, if 6.4.1 has it available.
AboveRight(ts) ==
    LET rs == pic.tsToRs[ts]
        top == rs - pic.w + 1
    IN  IF rs < pic.w \/ rs % pic.w = pic.w - 1 THEN Unset
        ELSE LET t == pic.rsToTs[top]
             IN  IF t < ts /\ pic.tileID[t] = pic.tileID[ts] /\ SliceStart(t) = SliceStart(ts)
                 THEN After(t) ELSE Unset

CodedWith(ts) ==
    LET s == SegmentOf(ts)
        slice == Slice(pic.tsToRs[SliceStart(ts)])
    IN  [ctx |-> CASE FirstInTile(ts) -> slice
                   [] ~FirstInTile(ts) /\ FirstInRow(ts) ->
                          IF AboveRight(ts) # Unset THEN AboveRight(ts) ELSE slice
                   [] OTHER -> IF ts = s.start /\ ~s.dep THEN slice ELSE After(ts - 1),
         qp  |-> IF ts = SliceStart(ts) \/ FirstInTile(ts) \/ FirstInRow(ts) THEN slice
                 ELSE After(ts - 1),
         sub |-> Cardinality({t \in s.start + 1 .. ts : FirstInTile(t) \/ FirstInRow(t)})]

\* A picture that is not marked is parsed as it was coded: every block with the
\* contexts, the predicted quantisation parameter and the substream that the
\* encoder used, although segments are lost or repeated; and once it passes for
\* complete, nothing of it is missing.
\* decoder.go:75 says the same of what the decoder does not implement: it is
\* "refused rather than decoded into a picture that merely looks plausible".
ParsedAsCoded ==
    ~d.corrupt =>
        /\ \A ts \in Blocks : read[ts] # Unset => read[ts] = CodedWith(ts)
        /\ d.nextCTU = pic.size => \A ts \in Blocks : read[ts] # Unset
=============================================================================
