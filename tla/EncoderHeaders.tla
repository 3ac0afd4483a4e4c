----------------------------- MODULE EncoderHeaders -----------------------------
(***************************************************************************)
(* The headers Encoder.Encode writes (hevc/encoder.go, headersenc.go): the *)
(* three parameter sets and the header of the slice, from                  *)
(* o = [width, height, chroma, depth, lossless, qp, saoLuma, saoChroma,    *)
(*      wavefront, sizes]: the options, and what coding the picture adds   *)
(* to them: which offsets it found, whether the rows are substreams of     *)
(* their own and the sizes of all but the last of those.                   *)
(* Both paths fill in an encoderHeaders; the blocks behind the headers are *)
(* coded from fields of the intraEncoder, which the headers do not use.    *)
(***************************************************************************)
EXTENDS BitStrings

codedSize(n) == ((n + 15) \div 16) * 16
sub(o) == CASE o.chroma = 1 -> [w |-> 2, h |-> 2] [] o.chroma = 2 -> [w |-> 2, h |-> 1] [] OTHER -> [w |-> 1, h |-> 1]
Levels == <<<<36864, 30>>, <<122880, 60>>, <<245760, 63>>, <<552960, 90>>, <<983040, 93>>, <<2228224, 120>>, <<8912896, 150>>, <<35651584, 180>>>>
pcmLevelIDC(samples) ==
    LET fits == {i \in DOMAIN Levels : samples <= Levels[i][1]}
    IN  IF fits = {} THEN 186 ELSE Levels[CHOOSE i \in fits : \A j \in fits : i <= j][2]

saoOn(o) == o.saoLuma \/ o.saoChroma
\* encoderHeaders of the lossless path, which leaves ctbLog2 and more at zero, and of nals.
encoderHeaders(o) ==
    LET w == codedSize(o.width)
        h == codedSize(o.height)
    IN  [width |-> w, height |-> h, cropRight |-> w - o.width, cropBottom |-> h - o.height,
         chroma |-> o.chroma, sub |-> sub(o), depth |-> o.depth, level |-> pcmLevelIDC(w * h), pcm |-> o.lossless,
         ctbLog2 |-> IF o.lossless THEN 0 ELSE 6, maxTrHierIntra |-> IF o.lossless THEN 0 ELSE 2,
         wavefront |-> ~o.lossless /\ o.wavefront, sao |-> ~o.lossless /\ saoOn(o),
         deblockingDisabled |-> FALSE, signDataHiding |-> FALSE]

profileIDC(h) == IF h.chroma # 1 \/ h.depth > 10 THEN 4 ELSE IF h.depth > 8 THEN 2 ELSE 1
Compatible(h) ==
    LET flags == CASE profileIDC(h) = 1 -> {1, 2} [] OTHER -> {profileIDC(h)}
    IN  [i \in 1 .. 32 |-> IF i - 1 \in flags THEN 1 ELSE 0]
RangeLimits(h) ==
    Flag(h.depth <= 12) \o Flag(h.depth <= 10) \o Flag(h.depth <= 8)
    \o Flag(h.chroma <= 2) \o Flag(h.chroma <= 1) \o Flag(h.chroma = 0) \o <<1, 0, 1>>
profileTier(h) ==
    U(0, 3) \o U(profileIDC(h), 5) \o Compatible(h) \o <<1, 0, 1, 1>>
    \o (IF profileIDC(h) = 4 THEN RangeLimits(h) \o U(0, 35) ELSE U(0, 44))
    \o U(h.level, 8)

vps(h) ==
    rbspTrailingBits(
        U(0, 4) \o <<1, 1>> \o U(0, 6) \o U(0, 3) \o <<1>> \o U(65535, 16) \o profileTier(h)
        \o <<1>> \o UE(1) \o UE(0) \o UE(0) \o U(0, 6) \o UE(0) \o <<0, 0>>)

LargestTb(ctb) == IF ctb > 5 THEN 5 ELSE ctb
ctbLog2(h) == IF h.ctbLog2 = 0 THEN 4 ELSE h.ctbLog2
\* Mutant of ConformanceWindow: the offsets count luma samples.
ConformanceWindow_luma(h) ==
    IF h.cropRight = 0 /\ h.cropBottom = 0 THEN <<0>>
    ELSE <<1>> \o UE(0) \o UE(h.cropRight) \o UE(0) \o UE(h.cropBottom)
ConformanceWindow(h) ==
    IF h.cropRight = 0 /\ h.cropBottom = 0 THEN <<0>>
    ELSE <<1>> \o UE(0) \o UE(h.cropRight \div h.sub.w) \o UE(0) \o UE(h.cropBottom \div h.sub.h)
Pcm(h) == Flag(h.pcm) \o IF h.pcm THEN U(h.depth - 1, 4) \o U(h.depth - 1, 4) \o UE(1) \o UE(0) \o <<1>> ELSE <<>>
sps(h) ==
    rbspTrailingBits(
        U(0, 4) \o U(0, 3) \o <<1>> \o profileTier(h) \o UE(0)
        \o UE(h.chroma) \o (IF h.chroma = 3 THEN <<0>> ELSE <<>>) \o UE(h.width) \o UE(h.height) \o ConformanceWindow(h)
        \o UE(h.depth - 8) \o UE(h.depth - 8) \o UE(4) \o <<1>> \o UE(1) \o UE(0) \o UE(0)
        \o UE(1) \o UE(ctbLog2(h) - 4) \o UE(0) \o UE(LargestTb(ctbLog2(h)) - 2) \o UE(0) \o UE(h.maxTrHierIntra)
        \o <<0, 0>> \o Flag(h.sao) \o Pcm(h) \o UE(0) \o U(0, 5))
pps(h) ==
    rbspTrailingBits(
        UE(0) \o UE(0) \o <<0, 0>> \o U(0, 3) \o Flag(h.signDataHiding) \o <<0>> \o UE(0) \o UE(0) \o SE(0) \o <<0, 0, 0>>
        \o SE(0) \o SE(0) \o <<0, 0, 0, 0, 0>> \o Flag(h.wavefront)
        \o <<1, 1, 0>> \o Flag(h.deblockingDisabled) \o (IF h.deblockingDisabled THEN <<>> ELSE SE(0) \o SE(0))
        \o <<0, 0>> \o UE(0) \o <<0, 0>>)

--------------------------------------------------------------------------------
\* The segment header of sliceRBSP, and that of pcmSlice.
Largest(sizes) == CHOOSE s \in {sizes[i] : i \in DOMAIN sizes} : \A i \in DOMAIN sizes : sizes[i] <= s
EntryPointBits(sizes) ==
    LET bits == Ceiling(Largest(sizes))
        each[i \in 0 .. Len(sizes)] == IF i = 0 THEN <<>> ELSE each[i - 1] \o U(sizes[i] - 1, bits)
    IN  UE(Len(sizes)) \o IF sizes = <<>> THEN <<>> ELSE UE(bits - 1) \o each[Len(sizes)]
sliceRBSP(o) ==
    rbspTrailingBits(
        <<1, 0>> \o UE(0) \o UE(2)
        \o (IF saoOn(o) THEN Flag(o.saoLuma) \o (IF o.chroma # 0 THEN Flag(o.saoChroma) ELSE <<>>) ELSE <<>>)
        \o SE(o.qp - 26) \o <<1>>
        \o (IF o.wavefront THEN EntryPointBits(o.sizes) ELSE <<>>))
pcmSlice == rbspTrailingBits(<<1, 0>> \o UE(0) \o UE(2) \o SE(0) \o <<1>>)

Written(o) ==
    LET h == encoderHeaders(o)
    IN  [vps |-> vps(h), sps |-> sps(h), pps |-> pps(h), slice |-> IF o.lossless THEN pcmSlice ELSE sliceRBSP(o)]
================================================================================
