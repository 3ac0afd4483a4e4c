----------------------------- MODULE HeaderSyntax -----------------------------
(***************************************************************************)
(* The syntax that parseVPS, parseSPS and parsePPS (hevc/headers.go) and   *)
(* parseSliceHeader (hevc/slice.go) read, as tables: what comes next is a  *)
(* function of what was read before.  An element is [key, coding, n]; its  *)
(* key is a name and an index, 0 for what comes once.  A table is made of  *)
(* the elements a section of the code reads in a row, given the values v   *)
(* read so far, and Refused are the conditions the section is left with.   *)
(* Elements nobody uses are skipped over in one go where their length does *)
(* not depend on what they say.                                            *)
(***************************************************************************)
EXTENDS BitStrings, FiniteSets, SequencesExt

Val(v, name, i) == IF <<name, i>> \in DOMAIN v THEN v[<<name, i>>] ELSE 0
El(name, i, coding, n) == <<[key |-> <<name, i>>, coding |-> coding, n |-> n]>>
Bits(name, n) == El(name, 0, "u", n)
F(name) == Bits(name, 1)
E(name) == El(name, 0, "ue", 0)
G(name) == El(name, 0, "se", 0)
Skip(n) == El("skipped", 0, "skip", n)
If(c, s) == IF c THEN s ELSE <<>>
Each(n, Item(_)) == FlattenSeq([i \in 1 .. n |-> Item(i)])
On(v, name) == Val(v, name, 0) = 1

ceilLog2(n) == IF n <= 1 THEN 0 ELSE Ceiling(n - 1)
ceilDiv(a, b) == (a + b - 1) \div b

--------------------------------------------------------------------------------
\* parseProfileTierLevel and what the video parameter set has on its own.
ProfileTierLevel(v) ==
    LET n == Val(v, "maxSubLayersMinus1", 0) IN
    Bits("profileSpace", 2) \o F("tierFlag") \o Bits("profileIDC", 5) \o Skip(32 + 48) \o Bits("levelIDC", 8)
    \o If(n > 0,
          Each(n, LAMBDA i : El("profilePresent", i, "u", 1) \o El("levelPresent", i, "u", 1)) \o Skip(2 * (8 - n))
          \o Each(n, LAMBDA i : If(Val(v, "profilePresent", i) = 1, Skip(88)) \o If(Val(v, "levelPresent", i) = 1, Skip(8))))

\* The three limits of every temporal sub-layer, or of the highest alone.
SubLayers(v) ==
    LET n == Val(v, "maxSubLayersMinus1", 0)
        first == IF On(v, "subLayerOrdering") THEN 0 ELSE n
    IN  F("subLayerOrdering")
        \o Each(n - first + 1, LAMBDA i : El("maxDecPicBuffering", first + i, "ue", 0) \o El("maxNumReorderPics", first + i, "ue", 0)
                                          \o El("maxLatencyIncrease", first + i, "ue", 0))

\* parseHRD number h, a sub-layer at a time.
Hrd(v, h, common, sublayers) ==
    LET at(name) == El(name, h, "u", 1)
        on(name) == common /\ Val(v, name, h) = 1
        sub == on("subPicPresent")
        layer(i) ==
            LET x == 8 * h + i
                is(name) == Val(v, name, x) = 1
                fixed == is("fixedGeneral") \/ is("fixedWithin")
                low == ~fixed /\ is("lowDelay")
                count == IF low THEN 1 ELSE Val(v, "cpbCnt", x) + 1
                buffer(k) == El("cpb", 0, "ue", 0) \o El("cpb", 0, "ue", 0)
                             \o If(sub, El("cpb", 0, "ue", 0) \o El("cpb", 0, "ue", 0)) \o Skip(1)
            IN  El("fixedGeneral", x, "u", 1) \o If(~is("fixedGeneral"), El("fixedWithin", x, "u", 1))
                \o (IF fixed THEN El("duration", x, "ue", 0) ELSE El("lowDelay", x, "u", 1))
                \o If(~low, El("cpbCnt", x, "ue", 0))
                \o If(on("nalHRD"), Each(count, buffer)) \o If(on("vclHRD"), Each(count, buffer))
    IN  If(common, at("nalHRD") \o at("vclHRD")
                   \o If(on("nalHRD") \/ on("vclHRD"),
                         at("subPicPresent") \o If(sub, Skip(8 + 5 + 1 + 5)) \o Skip(4 + 4) \o If(sub, Skip(4)) \o Skip(15)))
        \o Each(sublayers, layer)

Vps(v) ==
    Bits("vpsId", 4) \o Skip(2) \o Bits("maxLayersMinus1", 6) \o Bits("maxSubLayersMinus1", 3) \o F("temporalIDNesting")
    \o Bits("allOnes", 16)
VpsTail(v) ==
    SubLayers(v) \o Bits("maxLayerID", 6) \o E("numLayerSetsMinus1")
    \o Each(Val(v, "numLayerSetsMinus1", 0), LAMBDA i : Skip(Val(v, "maxLayerID", 0) + 1))
    \o F("timingInfo")
    \o If(On(v, "timingInfo"),
          Skip(64) \o F("pocProportional") \o If(On(v, "pocProportional"), E("numTicksPoc")) \o E("numHRD")
          \o Each(Val(v, "numHRD", 0), LAMBDA i :
                El("hrdLayerSet", i, "ue", 0) \o If(i > 1, El("commonInfPresent", i, "u", 1))
                \o Hrd(v, i, i = 1 \/ Val(v, "commonInfPresent", i) = 1, Val(v, "maxSubLayersMinus1", 0) + 1)))
    \o F("extension")

--------------------------------------------------------------------------------
\* The sequence parameter set.
Sps(v) == Bits("vpsID", 4) \o Bits("maxSubLayersMinus1", 3) \o F("temporalIDNesting")
SpsPicture(v) ==
    E("spsId") \o E("chromaFormatIDC") \o If(Val(v, "chromaFormatIDC", 0) = 3, F("separateColourPlane"))
    \o E("picWidth") \o E("picHeight")
    \o F("confWin") \o If(On(v, "confWin"), E("confWinLeft") \o E("confWinRight") \o E("confWinTop") \o E("confWinBottom"))
    \o E("bitDepthLumaMinus8") \o E("bitDepthChromaMinus8") \o E("log2MaxPocLsbMinus4") \o SubLayers(v)
SpsBlocks(v) ==
    E("log2MinCbMinus3") \o E("log2DiffMaxMinCb") \o E("log2MinTbMinus2") \o E("log2DiffMaxMinTb")
    \o E("maxTrHierInter") \o E("maxTrHierIntra")

\* parseScalingListData: three of each size, of the 32x32 luma alone.
ScalingListData(v) ==
    Each(4, LAMBDA s :
        LET matrix(m) ==
                LET x == 6 * (s - 1) + m IN
                El("listPredMode", x, "u", 1)
                \o IF Val(v, "listPredMode", x) = 0 THEN El("listDelta", x, "ue", 0)
                   ELSE If(s > 2, El("listDc", x, "se", 0))
                        \o Each(IF s = 1 THEN 16 ELSE 64, LAMBDA i : El("listCoef", 0, "se", 0))
        IN  Each(6, LAMBDA m : If(s < 4 \/ m % 3 = 1, matrix(m))))

SpsTools(v) ==
    F("scalingListEnabled") \o If(On(v, "scalingListEnabled"), F("scalingListPresent"))
    \o If(On(v, "scalingListPresent"), ScalingListData(v))
    \o F("ampEnabled") \o F("saoEnabled") \o F("pcmEnabled")
    \o If(On(v, "pcmEnabled"), Bits("pcmBitDepthLumaMinus1", 4) \o Bits("pcmBitDepthChromaMinus1", 4)
                               \o E("log2MinPcmMinus3") \o E("log2DiffMaxMinPcm") \o F("pcmLoopFilterDisabled"))
    \o E("numStRPS")

\* parseVUI
Vui(v) ==
    F("aspectRatio") \o If(On(v, "aspectRatio"), Bits("aspectIdc", 8) \o If(Val(v, "aspectIdc", 0) = 255, Skip(32)))
    \o F("overscan") \o If(On(v, "overscan"), Skip(1))
    \o F("videoSignal")
    \o If(On(v, "videoSignal"), Skip(3) \o F("fullRange") \o F("colourDescription")
          \o If(On(v, "colourDescription"), Bits("colourPrimaries", 8) \o Bits("transferChar", 8) \o Bits("matrixCoeffs", 8)))
    \o F("chromaLoc") \o If(On(v, "chromaLoc"), E("vui") \o E("vui"))
    \o Skip(3)
    \o F("displayWindow") \o If(On(v, "displayWindow"), E("vui") \o E("vui") \o E("vui") \o E("vui"))
    \o F("timingInfo")
    \o If(On(v, "timingInfo"), Skip(64) \o F("pocProportional") \o If(On(v, "pocProportional"), E("vui")) \o F("hrdPresent")
          \o If(On(v, "hrdPresent"), Hrd(v, 1, TRUE, Val(v, "maxSubLayersMinus1", 0) + 1)))
    \o F("restriction") \o If(On(v, "restriction"), Skip(3) \o E("vui") \o E("vui") \o E("vui") \o E("vui") \o E("vui"))

Extensions == F("rangeExtension") \o F("multilayerExtension") \o F("extension3D") \o F("sccExtension") \o Bits("extension4bits", 4)
SpsTail(v) ==
    F("longTermRefPicsPresent")
    \o If(On(v, "longTermRefPicsPresent"), E("numLongTerm")
          \o Each(Val(v, "numLongTerm", 0), LAMBDA i :
                El("ltRefPicPocLsb", i, "u", Val(v, "log2MaxPocLsbMinus4", 0) + 4) \o El("usedByCurrPicLt", i, "u", 1)))
    \o F("temporalMvpEnabled") \o F("strongIntraSmoothing")
    \o F("vuiPresent") \o If(On(v, "vuiPresent"), Vui(v))
    \o F("extension")
    \o If(On(v, "extension"), Extensions
          \o If(On(v, "rangeExtension"),
                F("transformSkipRotation") \o F("transformSkipContext") \o F("implicitRdpcm") \o F("explicitRdpcm")
                \o F("extendedPrecision") \o F("intraSmoothingDisabled") \o F("highPrecisionOffsets")
                \o F("persistentRiceAdaptation") \o F("cabacBypassAlignment")))

--------------------------------------------------------------------------------
\* The picture parameter set.
Pps(v) ==
    E("ppsId") \o E("spsID") \o F("dependentSliceSegmentsEnabled") \o F("outputFlagPresent") \o Bits("numExtraSliceHeaderBits", 3)
    \o F("signDataHidingEnabled") \o F("cabacInitPresent") \o El("numRefIdxMinus1", 0, "ue", 0) \o El("numRefIdxMinus1", 1, "ue", 0)
    \o G("initQPMinus26") \o F("constrainedIntraPred") \o F("transformSkipEnabled")
    \o F("cuQPDeltaEnabled") \o If(On(v, "cuQPDeltaEnabled"), E("diffCuQPDeltaDepth"))
    \o G("cbQPOffset") \o G("crQPOffset") \o F("sliceChromaQPOffsets") \o F("weightedPred") \o F("weightedBipred")
    \o F("transquantBypass") \o F("tilesEnabled") \o F("entropyCodingSync")
PpsTail(v) ==
    If(On(v, "tilesEnabled"),
       E("numTileColumnsMinus1") \o E("numTileRowsMinus1") \o F("uniformSpacing")
       \o If(~On(v, "uniformSpacing"),
             Each(Val(v, "numTileColumnsMinus1", 0), LAMBDA i : El("columnWidthMinus1", i, "ue", 0))
             \o Each(Val(v, "numTileRowsMinus1", 0), LAMBDA i : El("rowHeightMinus1", i, "ue", 0)))
       \o F("loopFilterAcrossTiles"))
    \o F("loopFilterAcrossSlices")
    \o F("deblockingControl")
    \o If(On(v, "deblockingControl"), F("deblockingOverride") \o F("deblockingDisabled")
          \o If(~On(v, "deblockingDisabled"), G("betaOffsetDiv2") \o G("tcOffsetDiv2")))
    \o F("scalingListPresent") \o If(On(v, "scalingListPresent"), ScalingListData(v))
    \o F("listsModificationPresent") \o E("log2ParallelMergeLevelMinus2") \o F("sliceHeaderExtension")
    \o F("extension")
    \o If(On(v, "extension"), Extensions
          \o If(On(v, "rangeExtension"),
                If(On(v, "transformSkipEnabled"), E("log2MaxTransformSkipMinus2")) \o F("crossComponentPrediction")
                \o F("chromaQPOffsetList")
                \o If(On(v, "chromaQPOffsetList"), E("diffCuChromaQPOffsetDepth") \o E("chromaQPOffsetListLenMinus1")
                      \o Each(Val(v, "chromaQPOffsetListLenMinus1", 0) + 1, LAMBDA i :
                            El("cbQPOffsetList", i, "se", 0) \o El("crQPOffsetList", i, "se", 0)))
                \o E("log2SaoOffsetScaleLuma") \o E("log2SaoOffsetScaleChroma")))

--------------------------------------------------------------------------------
\* What the parsers refuse, as conditions on what has been read.
Has(v, name) == <<name, 0>> \in DOMAIN v
Within(v, name, limits) == Has(v, name) => Val(v, name, 0) \in limits
Every(v, name, limits) == \A key \in DOMAIN v : key[1] = name => v[key] \in limits
Cropped(v, size, unit, before, behind) == Val(v, size, 0) - unit * (Val(v, before, 0) + Val(v, behind, 0))
subWidthC(v) == IF Val(v, "chromaFormatIDC", 0) \in {1, 2} THEN 2 ELSE 1
subHeightC(v) == IF Val(v, "chromaFormatIDC", 0) = 1 THEN 2 ELSE 1
croppedWidth(v) == Cropped(v, "picWidth", subWidthC(v), "confWinLeft", "confWinRight")
croppedHeight(v) == Cropped(v, "picHeight", subHeightC(v), "confWinTop", "confWinBottom")
minCbLog2SizeY(v) == Val(v, "log2MinCbMinus3", 0) + 3
ctbLog2SizeY(v) == minCbLog2SizeY(v) + Val(v, "log2DiffMaxMinCb", 0)
minTbLog2SizeY(v) == Val(v, "log2MinTbMinus2", 0) + 2
maxTbLog2SizeY(v) == minTbLog2SizeY(v) + Val(v, "log2DiffMaxMinTb", 0)
Smaller(a, b) == IF a < b THEN a ELSE b
ScalingListsWithin(v) ==
    \A x \in 1 .. 24 :
        LET m == (x - 1) % 6 IN
        /\ Val(v, "listDelta", x) <= IF x > 18 THEN m \div 3 ELSE m
        /\ Val(v, "listDc", x) \in -7 .. 247

VpsAccepts(v) ==
    /\ Within(v, "maxSubLayersMinus1", 0 .. 6)
    /\ Within(v, "allOnes", {65535})
    /\ Within(v, "numLayerSetsMinus1", 0 .. 1023)
    /\ Within(v, "numHRD", 0 .. 1024)
    /\ Every(v, "cpbCnt", 0 .. 31)
SubLayersAccepted(v) ==
    \A i \in 1 .. 7 : /\ Val(v, "maxDecPicBuffering", i) < 16
                      /\ <<"maxNumReorderPics", i>> \in DOMAIN v => Val(v, "maxNumReorderPics", i) <= Val(v, "maxDecPicBuffering", i)
SpsAccepts(v) ==
    /\ Within(v, "maxSubLayersMinus1", 0 .. 6) /\ Within(v, "spsId", 0 .. 15)
    /\ Within(v, "chromaFormatIDC", 0 .. 3)
    /\ Within(v, "picWidth", 1 .. 16384) /\ Within(v, "picHeight", 1 .. 16384)
    /\ Has(v, "confWinBottom") => croppedWidth(v) > 0 /\ croppedHeight(v) > 0
    /\ Within(v, "bitDepthLumaMinus8", 0 .. 8) /\ Within(v, "bitDepthChromaMinus8", 0 .. 8)
    /\ Within(v, "log2MaxPocLsbMinus4", 0 .. 12)
    /\ SubLayersAccepted(v)
    /\ Within(v, "log2MinCbMinus3", 0 .. 3) /\ Within(v, "log2DiffMaxMinCb", 0 .. 3)
    /\ Has(v, "log2DiffMaxMinCb") =>
          /\ ctbLog2SizeY(v) \in 4 .. 6
          /\ Val(v, "picWidth", 0) % Power(minCbLog2SizeY(v)) = 0
          /\ Val(v, "picHeight", 0) % Power(minCbLog2SizeY(v)) = 0
    /\ Within(v, "log2MinTbMinus2", 0 .. 3) /\ Within(v, "log2DiffMaxMinTb", 0 .. 3)
    /\ Has(v, "log2DiffMaxMinTb") => minTbLog2SizeY(v) < minCbLog2SizeY(v) /\ maxTbLog2SizeY(v) <= Smaller(ctbLog2SizeY(v), 5)
    /\ ScalingListsWithin(v) /\ Within(v, "listCoef", -128 .. 127)
    /\ Within(v, "pcmBitDepthLumaMinus1", 0 .. Val(v, "bitDepthLumaMinus8", 0) + 7)
    /\ Within(v, "pcmBitDepthChromaMinus1", 0 .. Val(v, "bitDepthChromaMinus8", 0) + 7)
    /\ Within(v, "log2MinPcmMinus3", 0 .. 2) /\ Within(v, "log2DiffMaxMinPcm", 0 .. 2)
    /\ Within(v, "numStRPS", 0 .. 64) /\ Within(v, "numLongTerm", 0 .. 32)
    /\ Every(v, "cpbCnt", 0 .. 31)
    /\ \A tool \in {"implicitRdpcm", "explicitRdpcm", "cabacBypassAlignment", "multilayerExtension", "extension3D", "sccExtension"} :
            Within(v, tool, {0})
PpsAccepts(v) ==
    /\ Within(v, "ppsId", 0 .. 63) /\ Within(v, "spsID", 0 .. 15)
    /\ Val(v, "numRefIdxMinus1", 0) \in 0 .. 15 /\ Val(v, "numRefIdxMinus1", 1) \in 0 .. 15
    /\ Within(v, "cbQPOffset", -12 .. 12) /\ Within(v, "crQPOffset", -12 .. 12)
    /\ Within(v, "numTileColumnsMinus1", 0 .. 21) /\ Within(v, "numTileRowsMinus1", 0 .. 19)
    /\ Within(v, "betaOffsetDiv2", -6 .. 6) /\ Within(v, "tcOffsetDiv2", -6 .. 6)
    /\ ScalingListsWithin(v) /\ Within(v, "listCoef", -128 .. 127)
    /\ Within(v, "chromaQPOffsetListLenMinus1", 0 .. 5)
    /\ \A tool \in {"crossComponentPrediction", "multilayerExtension", "extension3D", "sccExtension"} : Within(v, tool, {0})
================================================================================
