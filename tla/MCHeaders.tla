------------------------------- MODULE MCHeaders -------------------------------
\* Streams for Headers: those of this repository's encoder over its options, and
\* those of another encoder, written element by element after 7.3 with what they say.
EXTENDS BitStrings, SequencesExt, TLC
Enc == INSTANCE EncoderHeaders

Options(w, h, chromas, depths, losslesses, qps, saos, rows) ==
    {[width |-> w, height |-> h, chroma |-> c, depth |-> d, lossless |-> l, qp |-> q,
      saoLuma |-> s[1], saoChroma |-> s[2] /\ c # 0, wavefront |-> r # "serial", sizes |-> IF r = "serial" THEN <<>> ELSE r] :
        c \in chromas, d \in depths, l \in losslesses, q \in qps, s \in saos, r \in rows}
AllSao == {<<a, b>> : a, b \in BOOLEAN}
Ours(o) == [units |-> Enc!Written(o), type |-> 20, options |-> o]
EncoderStreams ==
    {Ours(o) : o \in Options(16, 32, 0 .. 3, {8, 10, 12}, BOOLEAN, {26}, {<<FALSE, FALSE>>}, {"serial"})
                     \cup Options(130, 70, 0 .. 3, {8, 9}, {FALSE}, {1, 51}, AllSao, {"serial"})
                     \cup Options(80, 66, 0 .. 3, {8}, {FALSE}, {30}, {<<FALSE, FALSE>>, <<TRUE, TRUE>>}, {<<1>>, <<256>>})
                     \cup Options(80, 130, {1}, {8}, {FALSE}, {30}, {<<TRUE, FALSE>>}, {<<3, 70000>>, <<1, 1>>})
                     \cup Options(2, 2, {1, 3}, {8, 12}, BOOLEAN, {40}, {<<FALSE, TRUE>>}, {"serial"})}

--------------------------------------------------------------------------------
\* An element with a name, and bits without one.
Said(name, i, bits, value) == [bits |-> bits, say |-> <<name, i>> :> value]
X(bits) == [bits |-> bits, say |-> <<"skipped", 0>> :> 0]
u(name, value, n) == Said(name, 0, U(value, n), value)
f(name, value) == u(name, value, 1)
ue(name, value) == Said(name, 0, UE(value), value)
se(name, value) == Said(name, 0, SE(value), value)
uI(name, i, value, n) == Said(name, i, U(value, n), value)
ueI(name, i, value) == Said(name, i, UE(value), value)
seI(name, i, value) == Said(name, i, SE(value), value)
BitsOf(els) == rbspTrailingBits(FoldLeft(LAMBDA s, e : s \o e.bits, <<>>, els))
SaysOf(els) == FoldLeft(LAMBDA s, e : e.say @@ s, <<"skipped", 0>> :> 0, els)
Theirs(type, vps, sps, pps, slice) ==
    [units |-> [vps |-> BitsOf(vps), sps |-> BitsOf(sps), pps |-> BitsOf(pps), slice |-> BitsOf(slice)], type |-> type,
     expect |-> [vps |-> SaysOf(vps), sps |-> SaysOf(sps), pps |-> SaysOf(pps), slice |-> SaysOf(slice)]]

OneLayer == <<u("profileIDC", 1, 8), X(Zeros(32 + 48)), u("levelIDC", 93, 8)>>
\* Streams with two short-term sets of the sequence, the second predicted from the
\* first, and a slice that takes one of them or predicts its own.
ExplicitSet(x, neg, pos) ==
    <<ueI("numNeg", x, Len(neg)), ueI("numPos", x, Len(pos))>>
    \o FlattenSeq([i \in DOMAIN neg |-> <<ueI("deltaNeg", x + i, neg[i] - 1), uI("usedNeg", x + i, 1, 1)>>])
    \o FlattenSeq([i \in DOMAIN pos |-> <<ueI("deltaPos", x + i, pos[i] - 1), uI("usedPos", x + i, i % 2, 1)>>])
Sign(d) == IF d < 0 THEN 1 ELSE 0
Abs(d) == IF d < 0 THEN -d ELSE d
Choice(x, j, c) == IF c = "used" THEN <<uI("used", x + j, 1, 1)>>
                   ELSE <<uI("used", x + j, 0, 1), uI("useDelta", x + j, IF c = "kept" THEN 1 ELSE 0, 1)>>
Predict(x, back, d, choices) ==
    <<uI("interPred", x, 1, 1)>> \o (IF back = 0 THEN <<>> ELSE <<ueI("deltaIdxMinus1", x, back - 1)>>)
    \o <<uI("deltaSign", x, Sign(d), 1), ueI("absDeltaMinus1", x, Abs(d) - 1)>>
    \o FlattenSeq([j \in DOMAIN choices |-> Choice(x, j, choices[j])])
SetsSps(rpss) ==
    <<X(U(0, 4)), X(U(0, 3)), X(<<1>>)>> \o OneLayer
    \o <<ue("spsId", 0), ue("chromaFormatIDC", 1), ue("picWidth", 64), ue("picHeight", 64), f("confWin", 0), X(UE(0)), X(UE(0)), X(UE(0)),
         X(<<1>>), X(UE(4)), X(UE(2)), X(UE(0)), X(UE(0)), X(UE(3)), X(UE(0)), X(UE(3)), X(UE(0)), X(UE(0)), X(<<0, 0, 0, 0>>)>>
    \o rpss \o <<X(<<0, 0, 0, 0>>), f("extension", 0)>>
SetsPps == <<X(UE(0)), X(UE(0)), X(<<0, 0>>), X(U(0, 3)), X(<<0, 0>>), X(UE(0)), X(UE(0)), X(SE(0)), X(<<0, 0, 0>>), X(SE(0)), X(SE(0)),
             X(<<0, 0, 0, 0, 0, 0>>), X(<<1, 0, 0, 0>>), X(UE(0)), X(<<0, 0>>)>>
SetsSlice(own) ==
    <<X(<<1>>), X(UE(0)), ue("sliceType", 1), u("picOrderCntLsb", 5, 4)>> \o own
    \o <<X(<<0>>), X(UE(0)), se("qpDelta", -7), f("loopFilterAcross", 1)>>
SetStream(sps, slice) ==
    [units |-> [sps |-> BitsOf(sps), pps |-> BitsOf(SetsPps), slice |-> BitsOf(slice)], type |-> 1,
     expect |-> [sps |-> SaysOf(sps), slice |-> SaysOf(slice)]]
Refs == {<<<<1>>, <<1>>>>, <<<<1, 2>>, <<2>>>>, <<<<>>, <<1, 1>>>>, <<<<2>>, <<>>>>}
KeepChoices(n) == [1 .. n -> {"used", "kept", "dropped"}]
OwnSets(d, n) ==
    {<<f("stRPSFromSPS", 1), u("stRPSIdx", 1, 1)>>,
     <<f("stRPSFromSPS", 0)>> \o Predict(256, 2, -d, [j \in 1 .. n |-> IF j = n THEN "kept" ELSE "used"])}
SetStreams ==
    UNION {{SetStream(
                   SetsSps(<<ue("numStRPS", 2)>> \o ExplicitSet(0, r[1], r[2]) \o Predict(128, 0, d, c)),
                   SetsSlice(own)) :
              d \in {-2, 1}, c \in KeepChoices(Len(r[1]) + Len(r[2]) + 1), own \in OwnSets(1, Len(r[1]) + Len(r[2]) + 1)} : r \in Refs}
--------------------------------------------------------------------------------
\* A stream with every tool the parsers know: sub-layers, timing and buffering
\* parameters, long-term pictures, tiles, weights, list modifications, extensions.
TwoLayers == <<u("profileIDC", 4, 8), X(Zeros(32 + 48)), u("levelIDC", 120, 8), uI("profilePresent", 1, 1, 1), uI("levelPresent", 1, 1, 1),
               X(Zeros(14)), X(Zeros(88)), X(U(93, 8))>>
Cpb == X(UE(7) \o UE(9))
FullVps ==
    <<u("vpsId", 3, 4), X(<<1, 1>>), X(U(0, 6)), u("maxSubLayersMinus1", 1, 3), X(<<0>>), X(U(65535, 16))>> \o TwoLayers
    \o <<f("subLayerOrdering", 1), ueI("maxDecPicBuffering", 1, 2), X(UE(1)), X(UE(0)), ueI("maxDecPicBuffering", 2, 4), ueI("maxNumReorderPics", 2, 3),
         X(UE(5)), u("maxLayerID", 1, 6), ue("numLayerSetsMinus1", 1), X(<<1, 0>>), f("timingInfo", 1), X(Zeros(64)), f("pocProportional", 1), X(UE(0)),
         ue("numHRD", 2),
         X(UE(0)), uI("nalHRD", 1, 1, 1), uI("vclHRD", 1, 0, 1), uI("subPicPresent", 1, 1, 1), X(Zeros(19)), X(Zeros(8)), X(Zeros(4)), X(Zeros(15)),
         X(<<1>>), X(UE(0)), ueI("cpbCnt", 9, 1), Cpb, Cpb, X(<<0>>), Cpb, Cpb, X(<<1>>),
         X(<<0, 0, 1>>), Cpb, Cpb, X(<<0>>),
         X(UE(1)), uI("commonInfPresent", 2, 1, 1), X(<<0, 0>>), X(<<0, 1>>), X(UE(2)), ueI("cpbCnt", 17, 0), X(<<1>>), X(UE(2)), ueI("cpbCnt", 18, 3),
         f("extension", 0)>>
FullVui ==
    <<f("aspectRatio", 1), u("aspectIdc", 255, 8), X(U(16, 16)), X(U(11, 16)), X(<<1, 1>>), f("videoSignal", 1), X(U(5, 3)), f("fullRange", 1),
      f("colourDescription", 1), u("colourPrimaries", 9, 8), u("transferChar", 16, 8), u("matrixCoeffs", 9, 8), f("chromaLoc", 1), X(UE(2)), X(UE(2)),
      X(<<0, 0, 1>>), f("displayWindow", 1), X(UE(1)), X(UE(0)), X(UE(2)), X(UE(0)), f("timingInfo", 1), X(Zeros(64)), f("pocProportional", 0),
      f("hrdPresent", 1), X(<<0, 1>>), X(<<0>>), X(Zeros(8)), X(Zeros(15)), X(<<1>>), X(UE(3)), X(UE(0)), Cpb, X(<<0>>),
      X(<<0, 1>>), X(UE(0)), X(UE(0)), Cpb, X(<<1>>), f("restriction", 1), X(<<1, 0, 1>>), X(UE(0)), X(UE(2)), X(UE(1)), X(UE(15)), X(UE(15))>>
FullSps(lists) ==
    <<X(U(3, 4)), u("maxSubLayersMinus1", 1, 3), X(<<0>>)>> \o TwoLayers
    \o <<ue("spsId", 2), ue("chromaFormatIDC", 2), ue("picWidth", 96), ue("picHeight", 64), f("confWin", 1), ue("confWinLeft", 1), ue("confWinRight", 1),
         ue("confWinTop", 0), ue("confWinBottom", 4), ue("bitDepthLumaMinus8", 2), ue("bitDepthChromaMinus8", 1), ue("log2MaxPocLsbMinus4", 0),
         f("subLayerOrdering", 0), ueI("maxDecPicBuffering", 2, 4), ueI("maxNumReorderPics", 2, 2), X(UE(0)),
         ue("log2MinCbMinus3", 0), ue("log2DiffMaxMinCb", 1), ue("log2MinTbMinus2", 0), ue("log2DiffMaxMinTb", 2), ue("maxTrHierInter", 1), ue("maxTrHierIntra", 2)>>
    \o lists
    \o <<f("ampEnabled", 1), f("saoEnabled", 1), f("pcmEnabled", 1), u("pcmBitDepthLumaMinus1", 6, 4), u("pcmBitDepthChromaMinus1", 7, 4),
         ue("log2MinPcmMinus3", 0), ue("log2DiffMaxMinPcm", 2), f("pcmLoopFilterDisabled", 0), ue("numStRPS", 2)>>
    \o ExplicitSet(0, <<1>>, <<2>>) \o Predict(128, 0, -1, <<"used", "kept", "dropped">>)
    \o <<f("longTermRefPicsPresent", 1), ue("numLongTerm", 2), uI("ltRefPicPocLsb", 1, 5, 4), uI("usedByCurrPicLt", 1, 1, 1),
         uI("ltRefPicPocLsb", 2, 9, 4), uI("usedByCurrPicLt", 2, 0, 1), f("temporalMvpEnabled", 1), f("strongIntraSmoothing", 1), f("vuiPresent", 1)>>
    \o FullVui
    \o <<f("extension", 1), f("rangeExtension", 1), X(<<0, 0, 0>>), X(Zeros(4)), f("transformSkipRotation", 1), f("transformSkipContext", 0), X(<<0, 0>>),
         f("extendedPrecision", 0), f("intraSmoothingDisabled", 0), f("highPrecisionOffsets", 1), f("persistentRiceAdaptation", 1), X(<<0>>)>>
NoLists == <<f("scalingListEnabled", 0)>>
\* One matrix coded with its DC, one of 4x4, the others defaults or copies.
SomeLists ==
    <<f("scalingListEnabled", 1), f("scalingListPresent", 1), uI("listPredMode", 1, 0, 1), ueI("listDelta", 1, 0), uI("listPredMode", 2, 1, 1)>>
    \o [i \in 1 .. 16 |-> X(SE(1))]
    \o FlattenSeq([i \in 1 .. 10 |-> <<X(<<0>>), ueI("listDelta", i + 2, IF i = 1 THEN 1 ELSE 0)>>])
    \o <<uI("listPredMode", 13, 1, 1), seI("listDc", 13, 5)>> \o [i \in 1 .. 64 |-> X(SE(IF i > 60 THEN -1 ELSE 0))]
    \o FlattenSeq([i \in 1 .. 5 |-> <<X(<<0>>), ueI("listDelta", i + 13, 1)>>])
    \o <<X(<<0>>), ueI("listDelta", 19, 0), X(<<0>>), ueI("listDelta", 22, 1)>>
FullPps(uniform) ==
    <<ue("ppsId", 1), ue("spsID", 2), f("dependentSliceSegmentsEnabled", 1), f("outputFlagPresent", 1), u("numExtraSliceHeaderBits", 2, 3),
      f("signDataHidingEnabled", 1), f("cabacInitPresent", 1), ueI("numRefIdxMinus1", 0, 1), ueI("numRefIdxMinus1", 1, 0), se("initQPMinus26", -2),
      f("constrainedIntraPred", 1), f("transformSkipEnabled", 1), f("cuQPDeltaEnabled", 1), ue("diffCuQPDeltaDepth", 1), se("cbQPOffset", 3), se("crQPOffset", -4),
      f("sliceChromaQPOffsets", 1), f("weightedPred", 1), f("weightedBipred", 1), f("transquantBypass", 0), f("tilesEnabled", 1), f("entropyCodingSync", 1),
      ue("numTileColumnsMinus1", 2), ue("numTileRowsMinus1", 1), f("uniformSpacing", uniform)>>
    \o (IF uniform = 1 THEN <<>>
        ELSE <<ueI("columnWidthMinus1", 1, 0), ueI("columnWidthMinus1", 2, 3), ueI("rowHeightMinus1", 1, 0)>>)
    \o <<f("loopFilterAcrossTiles", 0), f("loopFilterAcrossSlices", 1), f("deblockingControl", 1), f("deblockingOverride", 1), f("deblockingDisabled", 0),
         se("betaOffsetDiv2", 2), se("tcOffsetDiv2", -1), f("scalingListPresent", 0), f("listsModificationPresent", 1), ue("log2ParallelMergeLevelMinus2", 1),
         f("sliceHeaderExtension", 1), f("extension", 1), f("rangeExtension", 1), X(<<0, 0, 0>>), X(Zeros(4)), ue("log2MaxTransformSkipMinus2", 1),
         f("crossComponentPrediction", 0), f("chromaQPOffsetList", 1), ue("diffCuChromaQPOffsetDepth", 0), ue("chromaQPOffsetListLenMinus1", 1),
         seI("cbQPOffsetList", 1, 1), seI("crQPOffsetList", 1, -1), seI("cbQPOffsetList", 2, 2), seI("crQPOffsetList", 2, -2),
         ue("log2SaoOffsetScaleLuma", 1), ue("log2SaoOffsetScaleChroma", 0)>>
InterSlice(type) ==
    <<f("firstSliceSegmentInPic", 0), ue("slicePpsID", 1), f("dependentSliceSegment", 0), u("sliceSegmentAddress", 7, 5), X(<<1, 0>>), ue("sliceType", type),
      f("picOutputFlag", 0), u("picOrderCntLsb", 9, 4), f("stRPSFromSPS", 0)>>
    \o Predict(256, 2, 2, <<"used", "used", "kept">>)
    \o <<ue("numLongTermSps", 1), ue("numLongTermPics", 1), uI("ltIdxSps", 1, 1, 1), uI("deltaPocMsbPresent", 1, 0, 1), uI("pocLsbLt", 2, 3, 4),
         uI("usedLt", 2, 1, 1), uI("deltaPocMsbPresent", 2, 1, 1), ueI("deltaPocMsbCycle", 2, 2), f("temporalMvp", 1), f("saoLuma", 1), f("saoChroma", 0)>>
    \o (IF type = 0
        THEN <<f("numRefIdxOverride", 1), ueI("numRefIdxActiveMinus1", 0, 1), ueI("numRefIdxActiveMinus1", 1, 1), uI("listModification", 0, 1, 1),
               uI("listEntry", 1, 2, 2), uI("listEntry", 2, 0, 2), uI("listModification", 1, 0, 1), f("mvdL1Zero", 1), f("cabacInit", 0),
               f("collocatedFromL0", 0), ue("collocatedRefIdx", 1)>>
        ELSE <<f("numRefIdxOverride", 0), uI("listModification", 0, 0, 1), f("cabacInit", 1), ue("collocatedRefIdx", 0)>>)
    \o <<ue("lumaLog2Denom", 6), se("deltaChromaLog2Denom", -1), uI("lumaFlag", 1, 1, 1), uI("lumaFlag", 2, 0, 1), uI("chromaFlag", 1, 0, 1),
         uI("chromaFlag", 2, 1, 1), seI("lumaWeight", 1, -3), seI("lumaOffset", 1, 5), seI("chromaWeight", 66, 1), seI("chromaOffset", 66, -2),
         seI("chromaWeight", 130, 0), seI("chromaOffset", 130, 1)>>
    \o (IF type = 0 THEN <<uI("lumaFlag", 33, 0, 1), uI("lumaFlag", 34, 0, 1), uI("chromaFlag", 33, 0, 1), uI("chromaFlag", 34, 0, 1)>> ELSE <<>>)
    \o <<ue("fiveMinusMaxNumMergeCand", 2), se("qpDelta", 3), se("sliceCbQPOffset", 1), se("sliceCrQPOffset", 0), f("cuChromaQPOffset", 1),
         f("deblockingOverrides", 1), f("sliceDeblockingDisabled", 0), se("sliceBetaOffsetDiv2", -1), se("sliceTcOffsetDiv2", 0), f("loopFilterAcross", 1),
         ue("numEntryPoints", 2), ue("offsetLenMinus1", 9), uI("entryPoint", 1, 4, 10), uI("entryPoint", 2, 599, 10), ue("extensionLength", 1), X(U(77, 8))>>
DependentSlice ==
    <<f("firstSliceSegmentInPic", 0), f("noOutputOfPriorPics", 0), ue("slicePpsID", 1), f("dependentSliceSegment", 1), u("sliceSegmentAddress", 12, 5),
      ue("numEntryPoints", 0), ue("extensionLength", 0)>>
FullStream == Theirs(1, FullVps, FullSps(NoLists), FullPps(0), InterSlice(0))
OtherStreams == {FullStream, Theirs(1, FullVps, FullSps(SomeLists), FullPps(1), InterSlice(1)), Theirs(21, FullVps, FullSps(NoLists), FullPps(1), DependentSlice)}

--------------------------------------------------------------------------------
Damaged == {Ours(o) : o \in Options(80, 130, {1}, {8}, {FALSE}, {30}, {<<TRUE, FALSE>>}, {<<3, 70000>>})} \cup {FullStream}
MCStreams == {s @@ [frail |-> FALSE] : s \in EncoderStreams \cup SetStreams \cup OtherStreams} \cup {s @@ [frail |-> TRUE] : s \in Damaged}
DamageTo(stream) ==
    UNION {LET n == Len(stream.units[set]) IN
           {[set |-> set, cut |-> c, flip |-> 0] : c \in 1 .. (n \div 8) - 1}
           \cup {[set |-> set, cut |-> 0, flip |-> i] : i \in 1 .. n} : set \in {"vps", "sps", "pps", "slice"}}
================================================================================
