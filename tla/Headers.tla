-------------------------------- MODULE Headers --------------------------------
(***************************************************************************)
(* Three parameter sets and a slice segment header on their way into the   *)
(* decoder (hevc/headers.go, hevc/slice.go): parseVPS, parseSPS, parsePPS  *)
(* and parseSliceHeader read them element by element, each with what the   *)
(* one before has left, and resolveTileGeometry joins two of them.  They   *)
(* come from this repository's encoder or from another, whole, cut short   *)
(* or with one bit inverted.                                               *)
(*                                                                         *)
(* Every read that fails and every value out of range ends in a refusal,   *)
(* so the model stops at the first; ErrInvalid and ErrUnsupported are one. *)
(***************************************************************************)
EXTENDS SliceSyntax, TLC

CONSTANTS Streams,      \* of [units, type, frail, options or expect]: the RBSPs by kind, the type of the slice's unit
          Damages(_)    \* of [set, cut, flip]: what may happen to a stream

VARIABLES stream, damage,   \* what was sent, and what happened to it
          kind, todo, k,    \* which set is parsed, the sections ahead, the elements read of the first
          pos, v,           \* the position and the values read
          parsed,           \* the values of the sets accepted so far
          sets, rps,        \* the short-term sets of the sequence, and that of the slice
          tiles, refused
vars == <<stream, damage, kind, todo, k, pos, v, parsed, sets, rps, tiles, refused>>

Nothing == <<"skipped", 0>> :> 0
Kinds == <<"vps", "sps", "pps", "slice">>
Sections == [vps |-> <<"vps", "ptl", "vpsTail">>, sps |-> <<"sps", "ptl", "spsPicture", "spsBlocks", "spsTools", "spsTail">>,
             pps |-> <<"pps", "ppsTail">>,
             slice |-> <<"sliceStart", "slicePicture", "sliceReferences", "sliceInter", "sliceFilters", "sliceEnd">>]
\* The decoder does without a video parameter set.
First(units) == IF "vps" \in DOMAIN units THEN "vps" ELSE "sps"
None == [set |-> "none", cut |-> 0, flip |-> 0]
Received(set) ==
    LET s == stream.units[set]
    IN  CASE damage.set # set -> s
          [] damage.cut > 0 -> SubSeq(s, 1, Len(s) - 8 * damage.cut)
          [] OTHER -> [s EXCEPT ![damage.flip] = 1 - @]

S == parsed.sps
P == parsed.pps
Dependent(w) == On(w, "dependentSliceSegment")
Independent(w, table) == IF Dependent(w) THEN <<>> ELSE table
NumSets(w) == IF kind = "sps" THEN Val(w, "numStRPS", 0) ELSE Len(sets)
Section(s, w) ==
    CASE s = "vps" -> Vps(w) [] s = "ptl" -> ProfileTierLevel(w) [] s = "vpsTail" -> VpsTail(w)
      [] s = "sps" -> Sps(w) [] s = "spsPicture" -> SpsPicture(w) [] s = "spsBlocks" -> SpsBlocks(w)
      [] s = "spsTools" -> SpsTools(w) [] s = "spsTail" -> SpsTail(w)
      [] s = "pps" -> Pps(w) [] s = "ppsTail" -> PpsTail(w)
      [] s = "rps" -> ShortTermRPS(w, Len(sets), NumSets(w), sets)
      [] s = "sliceStart" -> SliceStart(w, stream.type, S, P)
      [] s = "slicePicture" -> Independent(w, SlicePicture(w, stream.type, S, P, sets))
      [] s = "sliceReferences" -> Independent(w, SliceReferences(w, stream.type, S))
      [] s = "sliceInter" -> Independent(w, If(~IsType(w, SliceI), SliceInter(w, S, P, rps)))
      [] s = "sliceFilters" -> Independent(w, SliceFilters(w, S, P))
      [] OTHER -> SliceEnd(w, P)
Accepts(w) ==
    CASE kind = "vps" -> VpsAccepts(w)
      [] kind = "sps" -> SpsAccepts(w) /\ ShortTermAccepts(w, Len(sets))
      [] kind = "pps" -> PpsAccepts(w)
      [] OTHER -> SliceAccepts(w, S, P, sets, rps) /\ ShortTermAccepts(w, Len(sets))

--------------------------------------------------------------------------------
\* The sections a finished one puts in front of the rest.
InSlice(w) == ~IsIDR(stream.type) /\ ~Dependent(w) /\ ~On(w, "stRPSFromSPS")
Inserted(s, w) ==
    CASE s = "spsTools" -> [i \in 1 .. Val(w, "numStRPS", 0) |-> "rps"]
      [] s = "slicePicture" /\ InSlice(w) -> <<"rps">>
      [] OTHER -> <<>>
Left(w) == SelectSeq(Inserted(Head(todo), w) \o Tail(todo), LAMBDA s : Section(s, w) # <<>>)
NoSet == [S0 |-> <<>>, S1 |-> <<>>]
SliceSet(w) ==
    CASE Head(todo) = "rps" -> parseShortTermRPS(w, Len(sets), sets)
      [] Head(todo) = "slicePicture" /\ On(w, "stRPSFromSPS") -> sets[Val(w, "stRPSIdx", 0) + 1]
      [] OTHER -> rps
EndSection(w) ==
    /\ todo' = Left(w) /\ k' = 0
    /\ sets' = IF kind = "sps" /\ Head(todo) = "rps" THEN Append(sets, parseShortTermRPS(w, Len(sets), sets)) ELSE sets
    /\ rps' = IF kind = "slice" THEN SliceSet(w) ELSE rps

Got(e) ==
    LET s == Received(kind)
    IN  CASE e.coding = "u" -> GetU(s, pos, e.n) [] e.coding = "ue" -> GetUE(s, pos)
          [] e.coding = "se" -> GetSE(s, pos) [] OTHER -> GetSkip(s, pos, e.n)
With(w, e, value) == (e.key :> value) @@ w
Refuse == refused' = TRUE /\ UNCHANGED <<stream, damage, kind, todo, k, pos, v, parsed, sets, rps, tiles>>
Take(e, r, w) ==
    IF r.err \/ ~Accepts(w) THEN Refuse
    ELSE /\ v' = w /\ pos' = pos + r.taken
         /\ IF k + 1 = Len(Section(Head(todo), w)) THEN EndSection(w)
            ELSE k' = k + 1 /\ UNCHANGED <<todo, sets, rps>>
         /\ UNCHANGED <<stream, damage, kind, parsed, tiles, refused>>
Element(e) == LET r == Got(e) IN Take(e, r, With(v, e, r.value))
Parse == ~refused /\ todo # <<>> /\ Element(Section(Head(todo), v)[k + 1])

\* checkTrailing; an extension nobody knows may follow.
Unparsed == IF kind = "vps" THEN On(v, "extension") ELSE Val(v, "extension4bits", 0) # 0
Trailing == ~Unparsed /\ moreRBSPData(Received(kind), pos)
Following(s) == Kinds[(CHOOSE i \in 1 .. 3 : Kinds[i] = s) + 1]
Accept ==
    /\ parsed' = [parsed EXCEPT ![kind] = v]
    /\ kind' = Following(kind) /\ todo' = Sections[Following(kind)] /\ k' = 0 /\ pos' = 0 /\ v' = Nothing
    /\ UNCHANGED <<stream, damage, sets, rps, tiles, refused>>
EndSet ==
    /\ ~refused /\ kind \in {"vps", "sps", "pps"} /\ todo = <<>>
    /\ IF Trailing THEN Refuse ELSE Accept

\* resolveTileGeometry
InCtbs(size) == ceilDiv(Val(S, size, 0), CtbSize(S))
Spread(total, n) == [i \in 1 .. n |-> ((i * total) \div n) - (((i - 1) * total) \div n)]
Listed(name, total, n) ==
    LET sum[i \in 0 .. n - 1] == IF i = 0 THEN 0 ELSE sum[i - 1] + Val(P, name, i) + 1
    IN  [i \in 1 .. n |-> IF i < n THEN Val(P, name, i) + 1 ELSE total - sum[n - 1]]
Divided(total, number, name) ==
    IF ~On(P, "tilesEnabled") THEN <<total>>
    ELSE IF On(P, "uniformSpacing") THEN Spread(total, Val(P, number, 0) + 1) ELSE Listed(name, total, Val(P, number, 0) + 1)
Columns == Divided(InCtbs("picWidth"), "numTileColumnsMinus1", "columnWidthMinus1")
Rows == Divided(InCtbs("picHeight"), "numTileRowsMinus1", "rowHeightMinus1")
TooMany == Val(P, "numTileColumnsMinus1", 0) >= InCtbs("picWidth") \/ Val(P, "numTileRowsMinus1", 0) >= InCtbs("picHeight")
\* Mutant of Fits: the last column may be empty.
Fits_loose == ~On(P, "tilesEnabled") \/ (~TooMany /\ Columns[Len(Columns)] >= 0 /\ Rows[Len(Rows)] > 0)
Fits == ~On(P, "tilesEnabled") \/ (~TooMany /\ Columns[Len(Columns)] > 0 /\ Rows[Len(Rows)] > 0)
EndSlice ==
    /\ ~refused /\ kind = "slice" /\ todo = <<>>
    /\ IF ~Fits THEN Refuse
       ELSE /\ parsed' = [parsed EXCEPT !.slice = v] /\ pos' = Aligned(pos)
            /\ tiles' = [columns |-> Columns, rows |-> Rows]
            /\ kind' = "done"
            /\ UNCHANGED <<stream, damage, todo, k, v, sets, rps, refused>>

Init ==
    /\ stream \in Streams /\ damage = None
    /\ kind = First(stream.units) /\ todo = Sections[First(stream.units)] /\ k = 0 /\ pos = 0 /\ v = Nothing
    /\ parsed = [vps |-> Nothing, sps |-> Nothing, pps |-> Nothing, slice |-> Nothing]
    /\ sets = <<>> /\ rps = NoSet /\ tiles = [columns |-> <<>>, rows |-> <<>>] /\ refused = FALSE
MayDamage == stream.frail /\ damage = None /\ pos = 0 /\ ~refused
Damage(d) ==
    /\ d.set = kind
    /\ damage' = d
    /\ UNCHANGED <<stream, kind, todo, k, pos, v, parsed, sets, rps, tiles, refused>>
Next == Parse \/ EndSet \/ EndSlice \/ (MayDamage /\ \E d \in Damages(stream) : Damage(d))
Spec == Init /\ [][Next]_vars

--------------------------------------------------------------------------------
Done(set) == parsed[set] # Nothing
Is(set, name, value) == Val(parsed[set], name, 0) = value
Bool(b) == IF b THEN 1 ELSE 0
\* What the encoder codes the blocks of a picture with (intraEncoder.reset, writePCMPlane).
SpsAsCoded(o) ==
    /\ croppedWidth(S) = o.width /\ croppedHeight(S) = o.height
    /\ Is("sps", "chromaFormatIDC", o.chroma) /\ ChromaArrayType(S) = o.chroma
    /\ Is("sps", "bitDepthLumaMinus8", o.depth - 8) /\ Is("sps", "bitDepthChromaMinus8", o.depth - 8)
    /\ minCbLog2SizeY(S) = 4 /\ ctbLog2SizeY(S) = IF o.lossless THEN 4 ELSE 6
    /\ minTbLog2SizeY(S) = 2
    /\ ~o.lossless => maxTbLog2SizeY(S) = 5 /\ Is("sps", "maxTrHierIntra", 2)
    /\ Is("sps", "pcmEnabled", Bool(o.lossless)) /\ Is("sps", "saoEnabled", Bool(~o.lossless /\ (o.saoLuma \/ o.saoChroma)))
    /\ o.lossless => /\ Is("sps", "pcmBitDepthLumaMinus1", o.depth - 1) /\ Is("sps", "pcmBitDepthChromaMinus1", o.depth - 1)
                     /\ Is("sps", "log2MinPcmMinus3", 1) /\ Is("sps", "log2DiffMaxMinPcm", 0) /\ Is("sps", "pcmLoopFilterDisabled", 1)
    /\ \A tool \in {"scalingListEnabled", "ampEnabled", "strongIntraSmoothing", "extension", "numStRPS"} : Is("sps", tool, 0)
PpsAsCoded(o) ==
    /\ Is("pps", "entropyCodingSync", Bool(~o.lossless /\ o.wavefront))
    /\ Is("pps", "deblockingDisabled", 0) /\ Is("pps", "betaOffsetDiv2", 0) /\ Is("pps", "tcOffsetDiv2", 0)
    /\ \A tool \in {"tilesEnabled", "signDataHidingEnabled", "transformSkipEnabled", "cuQPDeltaEnabled", "transquantBypass",
                    "constrainedIntraPred", "cbQPOffset", "crQPOffset", "scalingListPresent", "extension"} : Is("pps", tool, 0)
EntryPoint(o, i) == Val(parsed.slice, "entryPoint", i) + 1
SliceAsCoded(o) ==
    /\ 26 + Val(P, "initQPMinus26", 0) + Val(parsed.slice, "qpDelta", 0) = IF o.lossless THEN 26 ELSE o.qp
    /\ IsType(parsed.slice, SliceI) /\ ~Dependent(parsed.slice)
    /\ ~o.lossless => Is("slice", "saoLuma", Bool(o.saoLuma)) /\ Is("slice", "saoChroma", Bool(o.saoChroma))
    /\ [i \in 1 .. Val(parsed.slice, "numEntryPoints", 0) |-> EntryPoint(o, i)] = IF o.lossless \/ ~o.wavefront THEN <<>> ELSE o.sizes
    /\ pos = Len(stream.units.slice)
AsExpected(set) == \A key \in DOMAIN stream.expect[set] : Val(parsed[set], key[1], key[2]) = stream.expect[set][key]
AsCoded ==
    IF "options" \in DOMAIN stream
    THEN (Done("sps") => SpsAsCoded(stream.options)) /\ (Done("pps") => PpsAsCoded(stream.options))
         /\ (Done("slice") => SliceAsCoded(stream.options))
    ELSE \A set \in DOMAIN stream.expect : Done(set) => AsExpected(set)

\* Headers the decoder accepts say what they were written for: those of Encoder.Encode
\* the picture, block sizes, filters and QP its blocks are coded with and the byte they
\* begin at, those of another encoder what it put in.  It accepts all that come whole;
\* headers cut short are refused unless nothing but the stop bit is missing.
HeadersAsWritten ==
    damage.flip = 0 => (damage = None => ~refused) /\ AsCoded

\* 7.4.8: a set predicted from another is the other's deltas and zero, all moved by
\* deltaRps, without those that are not kept, the closest to the picture first.
Total(side) == LET sum[i \in 0 .. Len(side)] == IF i = 0 THEN 0 ELSE sum[i - 1] + side[i] IN sum[Len(side)]
Increasing(side, sign) ==
    /\ \A i \in DOMAIN side : sign * side[i].d > 0
    /\ \A i \in 1 .. Len(side) - 1 : sign * side[i].d < sign * side[i + 1].d
Members(set) == {set.S0[i] : i \in DOMAIN set.S0} \cup {set.S1[i] : i \in DOMAIN set.S1}
Moved(w, idx, ref) ==
    LET all == ref.S0 \o ref.S1 \o <<[d |-> 0]>>
        n == Len(all)
    IN  {[d |-> all[j].d + deltaRps(w, idx), used |-> Used(w, idx, n)[j]] :
            j \in {j \in 1 .. n : UseDelta(w, idx, n)[j] /\ all[j].d + deltaRps(w, idx) # 0}}
AsSpecified(w, idx, set) ==
    /\ Increasing(set.S0, -1) /\ Increasing(set.S1, 1)
    /\ InterPred(w, idx) => Members(set) = Moved(w, idx, sets[idx - DeltaIdx(w, idx) + 1])
ReferencesAsSpecified ==
    /\ Done("sps") => \A i \in DOMAIN sets : AsSpecified(S, i - 1, sets[i])
    /\ Done("slice") /\ InSlice(parsed.slice) => AsSpecified(parsed.slice, Len(sets), rps)
\* Whatever was damaged, headers that are accepted fit each other where the rest of the
\* decoder relies on it: the tiles of one set cut the picture of another into columns
\* and rows that are not empty, the short-term sets are ordered and, where predicted,
\* what 7.4.8 derives, and the slice begins within the picture.
AcceptedIsUsable ==
    /\ ReferencesAsSpecified
    /\ Done("slice") =>
          /\ Total(tiles.columns) = InCtbs("picWidth") /\ Total(tiles.rows) = InCtbs("picHeight")
          /\ \A side \in {tiles.columns, tiles.rows} : \A i \in DOMAIN side : side[i] > 0
          /\ Val(parsed.slice, "sliceSegmentAddress", 0) < Total(tiles.columns) * Total(tiles.rows)
================================================================================
