------------------------------ MODULE SliceSyntax ------------------------------
(***************************************************************************)
(* What parseSliceHeader (hevc/slice.go) reads and parseShortTermRPS       *)
(* (hevc/headers.go) with it, as tables like those of HeaderSyntax: s and  *)
(* p are the values of the sequence and the picture parameter set.         *)
(* A short-term set is [S0, S1], sequences of [d, used] as RefPicSet has   *)
(* them; set number idx has its elements at 128 * idx.                     *)
(***************************************************************************)
EXTENDS HeaderSyntax

numDeltaPocs(rps) == Len(rps.S0) + Len(rps.S1)
InterPred(v, idx) == Val(v, "interPred", 128 * idx) = 1
DeltaIdx(v, idx) == Val(v, "deltaIdxMinus1", 128 * idx) + 1
\* Set number idx of num, that of a slice header number num, after the sets prev.
ShortTermRPS(v, idx, num, prev) ==
    LET x == 128 * idx
        at(name) == El(name, x, "ue", 0)
        flag(name, j) == El(name, x + j, "u", 1)
        delta(name, j) == El(name, x + j, "ue", 0)
        n == numDeltaPocs(prev[idx - DeltaIdx(v, idx) + 1])
    IN  If(idx > 0, flag("interPred", 0))
        \o IF InterPred(v, idx)
           THEN If(idx = num, at("deltaIdxMinus1"))
                \o If(DeltaIdx(v, idx) <= idx,
                      flag("deltaSign", 0) \o at("absDeltaMinus1")
                      \o Each(n + 1, LAMBDA j : flag("used", j) \o If(Val(v, "used", x + j) = 0, flag("useDelta", j))))
           ELSE at("numNeg") \o at("numPos")
                \o Each(Val(v, "numNeg", x), LAMBDA j : delta("deltaNeg", j) \o flag("usedNeg", j))
                \o Each(Val(v, "numPos", x), LAMBDA j : delta("deltaPos", j) \o flag("usedPos", j))
ShortTermAccepts(v, idx) ==
    LET x == 128 * idx IN
    /\ InterPred(v, idx) => DeltaIdx(v, idx) <= idx /\ Val(v, "absDeltaMinus1", x) < 32768
    /\ Val(v, "numNeg", x) <= 16 /\ Val(v, "numPos", x) <= 16
    /\ \A j \in 1 .. 16 : Val(v, "deltaNeg", x + j) < 32768 /\ Val(v, "deltaPos", x + j) < 32768

\* Each delta counts from the one before it.
Explicit(v, x, sign, num, delta, used) ==
    LET sum[j \in 0 .. Val(v, num, x)] == IF j = 0 THEN 0 ELSE sum[j - 1] + Val(v, delta, x + j) + 1
    IN  [j \in 1 .. Val(v, num, x) |-> [d |-> sign * sum[j], used |-> Val(v, used, x + j) = 1]]
\* Mutant of Predicted: the deltas stay in the order they had.
Predicted_inOrder(ref, deltaRps, used, useDelta) ==
    LET moved(side, first) == [j \in DOMAIN side |-> [d |-> side[j].d + deltaRps, j |-> first + j]]
        all == moved(ref.S0, 0) \o moved(ref.S1, Len(ref.S0)) \o <<[d |-> deltaRps, j |-> numDeltaPocs(ref) + 1]>>
        kept(s) == [i \in DOMAIN s |-> [d |-> s[i].d, used |-> used[s[i].j]]]
    IN  [S0 |-> kept(SelectSeq(all, LAMBDA e : e.d < 0 /\ useDelta[e.j])),
         S1 |-> kept(SelectSeq(all, LAMBDA e : e.d > 0 /\ useDelta[e.j]))]

\* The deltas of another set, moved by deltaRps, and deltaRps itself: what moves to
\* the other side of the current picture comes first there, in reverse.
Predicted(ref, deltaRps, used, useDelta) ==
    LET moved(side, first) == [j \in DOMAIN side |-> [d |-> side[j].d + deltaRps, j |-> first + j]]
        before == moved(ref.S0, 0)
        after == moved(ref.S1, Len(ref.S0))
        self == <<[d |-> deltaRps, j |-> numDeltaPocs(ref) + 1]>>
        kept(s) == [i \in DOMAIN s |-> [d |-> s[i].d, used |-> used[s[i].j]]]
    IN  [S0 |-> kept(SelectSeq(Reverse(after) \o self \o before, LAMBDA e : e.d < 0 /\ useDelta[e.j])),
         S1 |-> kept(SelectSeq(Reverse(before) \o self \o after, LAMBDA e : e.d > 0 /\ useDelta[e.j]))]
deltaRps(v, idx) ==
    (IF Val(v, "deltaSign", 128 * idx) = 1 THEN -1 ELSE 1) * (Val(v, "absDeltaMinus1", 128 * idx) + 1)
Used(v, idx, n) == [j \in 1 .. n |-> Val(v, "used", 128 * idx + j) = 1]
UseDelta(v, idx, n) == [j \in 1 .. n |-> Val(v, "used", 128 * idx + j) = 1 \/ Val(v, "useDelta", 128 * idx + j) = 1]
parseShortTermRPS(v, idx, prev) ==
    IF InterPred(v, idx)
    THEN LET ref == prev[idx - DeltaIdx(v, idx) + 1]
             n == numDeltaPocs(ref) + 1
         IN  Predicted(ref, deltaRps(v, idx), Used(v, idx, n), UseDelta(v, idx, n))
    ELSE [S0 |-> Explicit(v, 128 * idx, -1, "numNeg", "deltaNeg", "usedNeg"),
          S1 |-> Explicit(v, 128 * idx, 1, "numPos", "deltaPos", "usedPos")]

--------------------------------------------------------------------------------
\* The slice segment header.
IsIRAP(type) == type \in 16 .. 23
IsIDR(type) == type \in {19, 20}
SliceB == 0
SliceP == 1
SliceI == 2
ChromaArrayType(s) == IF On(s, "separateColourPlane") THEN 0 ELSE Val(s, "chromaFormatIDC", 0)
CtbSize(s) == Power(ctbLog2SizeY(s))
numCtbs(s) == ceilDiv(Val(s, "picWidth", 0), CtbSize(s)) * ceilDiv(Val(s, "picHeight", 0), CtbSize(s))
IsType(v, t) == Val(v, "sliceType", 0) = t

SliceStart(v, type, s, p) ==
    F("firstSliceSegmentInPic") \o If(IsIRAP(type), F("noOutputOfPriorPics")) \o E("slicePpsID")
    \o If(Has(v, "slicePpsID") /\ ~On(v, "firstSliceSegmentInPic"),
          If(On(p, "dependentSliceSegmentsEnabled"), F("dependentSliceSegment"))
          \o Bits("sliceSegmentAddress", ceilLog2(numCtbs(s))))
SlicePicture(v, type, s, p, sets) ==
    Skip(Val(p, "numExtraSliceHeaderBits", 0)) \o E("sliceType")
    \o If(On(p, "outputFlagPresent"), F("picOutputFlag")) \o If(On(s, "separateColourPlane"), Bits("colourPlaneID", 2))
    \o If(~IsIDR(type),
          Bits("picOrderCntLsb", Val(s, "log2MaxPocLsbMinus4", 0) + 4) \o F("stRPSFromSPS")
          \o If(On(v, "stRPSFromSPS") /\ Len(sets) > 1, Bits("stRPSIdx", ceilLog2(Len(sets)))))

\* parseLongTermRPS
LongTermRPS(v, s) ==
    LET m == Val(s, "numLongTerm", 0)
        numSps == Val(v, "numLongTermSps", 0)
    IN  If(m > 0, E("numLongTermSps")) \o E("numLongTermPics")
        \o Each(numSps + Val(v, "numLongTermPics", 0), LAMBDA i :
              (IF i <= numSps THEN If(m > 1, El("ltIdxSps", i, "u", ceilLog2(m)))
               ELSE El("pocLsbLt", i, "u", Val(s, "log2MaxPocLsbMinus4", 0) + 4) \o El("usedLt", i, "u", 1))
              \o El("deltaPocMsbPresent", i, "u", 1)
              \o If(Val(v, "deltaPocMsbPresent", i) = 1, El("deltaPocMsbCycle", i, "ue", 0)))
SliceReferences(v, type, s) ==
    If(~IsIDR(type), If(On(s, "longTermRefPicsPresent"), LongTermRPS(v, s)) \o If(On(s, "temporalMvpEnabled"), F("temporalMvp")))
    \o If(On(s, "saoEnabled"), F("saoLuma") \o If(ChromaArrayType(s) # 0, F("saoChroma")))

UsedLt(v, s, i) ==
    IF i <= Val(v, "numLongTermSps", 0) THEN Val(s, "usedByCurrPicLt", Val(v, "ltIdxSps", i) + 1) = 1 ELSE Val(v, "usedLt", i) = 1
numPocTotalCurr(v, s, rps) ==
    LET used(side) == Len(SelectSeq(side, LAMBDA e : e.used))
    IN  used(rps.S0) + used(rps.S1)
        + Cardinality({i \in 1 .. Val(v, "numLongTermSps", 0) + Val(v, "numLongTermPics", 0) : UsedLt(v, s, i)})
Active(v, p, l) ==
    1 + (IF <<"numRefIdxActiveMinus1", l>> \in DOMAIN v THEN Val(v, "numRefIdxActiveMinus1", l) ELSE Val(p, "numRefIdxMinus1", l))
Lists(v) == IF IsType(v, SliceB) THEN {0, 1} ELSE {0}
ForLists(v, Item(_)) == Item(0) \o If(IsType(v, SliceB), Item(1))

\* parseRefPicListModification
RefPicListModification(v, p, total) ==
    ForLists(v, LAMBDA l : El("listModification", l, "u", 1)
        \o If(Val(v, "listModification", l) = 1,
              Each(Active(v, p, l), LAMBDA i : El("listEntry", 32 * l + i, "u", ceilLog2(total)))))
\* parsePredWeightTable
PredWeightTable(v, s, p) ==
    LET chroma == ChromaArrayType(s) # 0
        flags(name, l) == Each(Active(v, p, l), LAMBDA i : El(name, 32 * l + i, "u", 1))
        luma(x) == If(Val(v, "lumaFlag", x) = 1, El("lumaWeight", x, "se", 0) \o El("lumaOffset", x, "se", 0))
        both(x) == If(Val(v, "chromaFlag", x) = 1,
                      Each(2, LAMBDA j : El("chromaWeight", 64 * j + x, "se", 0) \o El("chromaOffset", 64 * j + x, "se", 0)))
    IN  E("lumaLog2Denom") \o If(chroma, G("deltaChromaLog2Denom"))
        \o ForLists(v, LAMBDA l :
              flags("lumaFlag", l) \o If(chroma, flags("chromaFlag", l))
              \o Each(Active(v, p, l), LAMBDA i : luma(32 * l + i) \o both(32 * l + i)))
CollocatedFromL0(v) == ~Has(v, "collocatedFromL0") \/ On(v, "collocatedFromL0")
Weighted(v, p) ==
    \/ On(p, "weightedPred") /\ IsType(v, SliceP)
    \/ On(p, "weightedBipred") /\ IsType(v, SliceB)
SliceInter(v, s, p, rps) ==
    LET total == numPocTotalCurr(v, s, rps) IN
    F("numRefIdxOverride")
    \o If(On(v, "numRefIdxOverride"), ForLists(v, LAMBDA l : El("numRefIdxActiveMinus1", l, "ue", 0)))
    \o If(On(p, "listsModificationPresent") /\ total > 1, RefPicListModification(v, p, total))
    \o If(IsType(v, SliceB), F("mvdL1Zero"))
    \o If(On(p, "cabacInitPresent"), F("cabacInit"))
    \o If(On(v, "temporalMvp"),
          If(IsType(v, SliceB), F("collocatedFromL0"))
          \o If(Active(v, p, IF CollocatedFromL0(v) THEN 0 ELSE 1) > 1, E("collocatedRefIdx")))
    \o If(Weighted(v, p), PredWeightTable(v, s, p))
    \o E("fiveMinusMaxNumMergeCand")

DeblockingDisabled(v, p) ==
    IF Has(v, "sliceDeblockingDisabled") THEN On(v, "sliceDeblockingDisabled") ELSE On(p, "deblockingDisabled")
SliceFilters(v, s, p) ==
    G("qpDelta")
    \o If(On(p, "sliceChromaQPOffsets"), G("sliceCbQPOffset") \o G("sliceCrQPOffset"))
    \o If(On(p, "chromaQPOffsetList"), F("cuChromaQPOffset"))
    \o If(On(p, "deblockingOverride"), F("deblockingOverrides"))
    \o If(On(v, "deblockingOverrides"),
          F("sliceDeblockingDisabled")
          \o If(~On(v, "sliceDeblockingDisabled"), G("sliceBetaOffsetDiv2") \o G("sliceTcOffsetDiv2")))
    \o If(On(p, "loopFilterAcrossSlices") /\ (On(v, "saoLuma") \/ On(v, "saoChroma") \/ ~DeblockingDisabled(v, p)),
          F("loopFilterAcross"))
EntryPoints(v) ==
    E("numEntryPoints")
    \o If(Val(v, "numEntryPoints", 0) > 0,
          E("offsetLenMinus1")
          \o Each(Val(v, "numEntryPoints", 0), LAMBDA i : El("entryPoint", i, "u", Val(v, "offsetLenMinus1", 0) + 1)))
SliceEnd(v, p) ==
    If(On(p, "tilesEnabled") \/ On(p, "entropyCodingSync"), EntryPoints(v))
    \o If(On(p, "sliceHeaderExtension"), E("extensionLength") \o Skip(8 * Val(v, "extensionLength", 0)))
    \o F("stop")
SliceAccepts(v, s, p, sets, rps) ==
    LET total == numPocTotalCurr(v, s, rps)
        lt == Val(s, "numLongTerm", 0)
    IN
    /\ Within(v, "slicePpsID", {Val(p, "ppsId", 0)})
    /\ Within(v, "sliceSegmentAddress", 0 .. numCtbs(s) - 1)
    /\ Within(v, "sliceType", {SliceB, SliceP, SliceI})
    /\ On(v, "stRPSFromSPS") => Val(v, "stRPSIdx", 0) < Len(sets)
    /\ Has(v, "numLongTermPics") => /\ Val(v, "numLongTermSps", 0) <= lt
                                    /\ Val(v, "numLongTermSps", 0) + Val(v, "numLongTermPics", 0) <= 32
    /\ Every(v, "ltIdxSps", 0 .. lt - 1)
    /\ Has(v, "numRefIdxOverride") => \A l \in {0, 1} : Active(v, p, l) <= 16
    /\ Every(v, "listEntry", 0 .. total - 1)
    /\ Within(v, "collocatedRefIdx", 0 .. Active(v, p, IF CollocatedFromL0(v) THEN 0 ELSE 1) - 1)
    /\ Within(v, "lumaLog2Denom", 0 .. 7)
    /\ Has(v, "deltaChromaLog2Denom") => Val(v, "lumaLog2Denom", 0) + Val(v, "deltaChromaLog2Denom", 0) \in 0 .. 7
    /\ Within(v, "fiveMinusMaxNumMergeCand", 0 .. 4)
    /\ Has(v, "qpDelta") => Val(p, "initQPMinus26", 0) + 26 + Val(v, "qpDelta", 0) \in -6 * Val(s, "bitDepthLumaMinus8", 0) .. 51
    /\ Within(v, "sliceCbQPOffset", -12 .. 12) /\ Within(v, "sliceCrQPOffset", -12 .. 12)
    /\ Within(v, "sliceBetaOffsetDiv2", -6 .. 6) /\ Within(v, "sliceTcOffsetDiv2", -6 .. 6)
    /\ Within(v, "numEntryPoints", 0 .. numCtbs(s)) /\ Within(v, "offsetLenMinus1", 0 .. 31)
    /\ Within(v, "stop", {1})
================================================================================
