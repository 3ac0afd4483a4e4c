------------------------------ MODULE NalFraming ------------------------------
(***************************************************************************)
(* NAL units between the encoder and the decoder: escapeRBSP, MarshalAnnexB*)
(* and marshalHVCC against SplitAnnexB, SplitHVCC and unescape             *)
(* (hevc/nal.go), and the entry points of a slice that escapedSizes        *)
(* (hevc/lossyenc.go) measures against the substream starts that           *)
(* substreamStarts (hevc/decoder.go) finds.                                *)
(*                                                                         *)
(* A unit is what sliceRBSP puts together: a segment header and the        *)
(* substreams, each a sequence of bytes.  Offsets count from zero, as they *)
(* do in the code.  The one state variable is what was written so far.     *)
(***************************************************************************)
EXTENDS Integers, Sequences

CONSTANTS
    Units,      \* the units to write first: [hdr : Seq(Byte), subs : Seq(Seq(Byte))]
    Followers,  \* those to write behind another
    MaxUnits    \* bound: how many

Byte == 0 .. 255

\* Headers and substreams end on a set bit, which byte alignment puts behind them:
\* "so the run of zeros never carries into the data" (escapedSizes).
EndsOnASetBit(s) == s \in Seq(Byte) /\ s # <<>> /\ s[Len(s)] # 0
UnitAssumption ==
    \A u \in Units \cup Followers :
        /\ EndsOnASetBit(u.hdr)
        /\ u.subs \in Seq(Seq(Byte)) /\ u.subs # <<>>
        /\ \A i \in 1 .. Len(u.subs) : EndsOnASetBit(u.subs[i])
ASSUME UnitsGiven == UnitAssumption

VARIABLE written

NalHeader == <<0, 1>>       \* the two header bytes of a TRAIL_N unit

-----------------------------------------------------------------------------
\* Bytes that would look like a start code get a three in front.
Escaped(acc, b) ==
    LET stop == acc.zeros = 2 /\ b <= 3
    IN  [out |-> acc.out \o (IF stop THEN <<3, b>> ELSE <<b>>),
         zeros |-> IF b # 0 THEN 0 ELSE IF stop THEN 1 ELSE acc.zeros + 1]

\* Mutant of Escaped: the byte put in between does not end the run of zeros.
Escaped_run(acc, b) ==
    [out |-> acc.out \o (IF acc.zeros = 2 /\ b <= 3 THEN <<3, b>> ELSE <<b>>),
     zeros |-> IF b # 0 THEN 0 ELSE acc.zeros + 1]

\* What there is after each byte, and behind the last one.
Escaping(rbsp) ==
    LET acc[i \in 0 .. Len(rbsp)] ==
            IF i = 0 THEN [out |-> <<>>, zeros |-> 0] ELSE Escaped(acc[i - 1], rbsp[i])
    IN  acc
escapeRBSP(rbsp) == Escaping(rbsp)[Len(rbsp)].out

\* An emulation prevention byte.  Two of them are at least three bytes apart,
\* so the scan of unescape misses none.
Prevents(data, i) == i > 2 /\ data[i - 2] = 0 /\ data[i - 1] = 0 /\ data[i] = 3

Unescaped(nal, data, i) ==
    IF Prevents(data, i) THEN [rbsp |-> nal.rbsp, epb |-> Append(nal.epb, i - 1)]
    ELSE [rbsp |-> Append(nal.rbsp, data[i]), epb |-> nal.epb]
Unescaping(data) ==
    LET nal[i \in 0 .. Len(data)] ==
            IF i = 0 THEN [rbsp |-> <<>>, epb |-> <<>>] ELSE Unescaped(nal[i - 1], data, i)
    IN  nal
unescape(data) == Unescaping(data)[Len(data)]

-----------------------------------------------------------------------------
\* A unit whose header is refused is left out.
ParseNAL(data) ==
    IF Len(data) >= 2 /\ data[1] < 128 /\ data[2] % 8 # 0
    THEN <<unescape(SubSeq(data, 3, Len(data)))>> ELSE <<>>

MarshalNAL(rbsp) == NalHeader \o escapeRBSP(rbsp)

\* The first k of some sequences, one behind the other.
Joined(seqs) ==
    LET all[k \in 0 .. Len(seqs)] == IF k = 0 THEN <<>> ELSE all[k - 1] \o seqs[k] IN all
Flat(seqs) == Joined(seqs)[Len(seqs)]

MarshalAnnexB(rbsps) == Flat([k \in 1 .. Len(rbsps) |-> <<0, 0, 0, 1>> \o MarshalNAL(rbsps[k])])

\* Zeros in front of a start code are not part of the unit before it.
Stripped(data) ==
    LET ends == {0} \cup {i \in 1 .. Len(data) : data[i] # 0}
    IN  SubSeq(data, 1, CHOOSE i \in ends : \A j \in ends : j <= i)

\* Start codes of three bytes; one of four is a zero and one of these.
StartCodes(data, off) ==
    {i \in off .. Len(data) - 2 : data[i] = 0 /\ data[i + 1] = 0 /\ data[i + 2] = 1}
startCode(data, off) ==
    CHOOSE i \in StartCodes(data, off) : \A j \in StartCodes(data, off) : i <= j

\* The units from each byte on.
AnnexBUnits(data) ==
    LET units[i \in 1 .. Len(data) + 1] ==
            IF i > Len(data) THEN <<>>
            ELSE IF StartCodes(data, i) = {} THEN ParseNAL(SubSeq(data, i, Len(data)))
            ELSE ParseNAL(Stripped(SubSeq(data, i, startCode(data, i) - 1))) \o units[startCode(data, i) + 3]
    IN  units
SplitAnnexB(data) ==
    IF StartCodes(data, 1) = {} THEN <<>> ELSE AnnexBUnits(data)[startCode(data, 1) + 3]

\* The length in front of a unit is one element here, whatever its size.
marshalHVCC(rbsps) ==
    Flat([k \in 1 .. Len(rbsps) |-> <<Len(MarshalNAL(rbsps[k]))>> \o MarshalNAL(rbsps[k])])

HVCCUnits(data) ==
    LET units[i \in 1 .. Len(data) + 1] ==
            IF i > Len(data) \/ data[i] = 0 \/ i + data[i] > Len(data) THEN <<>>
            ELSE ParseNAL(SubSeq(data, i + 1, i + data[i])) \o units[i + data[i] + 1]
    IN  units
SplitHVCC(data) == HVCCUnits(data)[1]

-----------------------------------------------------------------------------
\* From a position in the payload to one in the RBSP, and back: the loops over
\* epb end at the first prevention byte that is not in front.
RBSPOffset(epb, off) ==
    off - CHOOSE k \in 0 .. Len(epb) : /\ \A j \in 1 .. k : epb[j] < off
                                       /\ k < Len(epb) => epb[k + 1] >= off
NALOffset(epb, off) ==
    off + CHOOSE k \in 0 .. Len(epb) : /\ \A j \in 1 .. k : epb[j] <= off + j - 1
                                       /\ k < Len(epb) => epb[k + 1] > off + k

Rbsp(u) == u.hdr \o Flat(u.subs)

\* Mutant of escapedSizes: the bytes that get escaped are not counted.
escapedSizes_plain(subs) == [i \in 1 .. Len(subs) - 1 |-> Len(subs[i])]

\* The sizes of all substreams but the last, as the payload has them: what is
\* put in before a byte belongs to the substream of that byte.
escapedSizes(subs) ==
    LET upto(i) == Len(Escaping(Flat(subs))[Len(Joined(subs)[i])].out)
    IN  [i \in 1 .. Len(subs) - 1 |-> upto(i) - upto(i - 1)]

\* The entry points of parseSliceHeader: each counts from the first substream.
Sums(sizes) ==
    LET sum[i \in 0 .. Len(sizes)] == IF i = 0 THEN 0 ELSE sum[i - 1] + sizes[i] IN sum
EntryPoints(sizes) == [i \in 1 .. Len(sizes) |-> Sums(sizes)[i]]

\* Mutant of substreamStarts: the header's own prevention bytes are forgotten.
substreamStarts_base(nal, dataOffset, entry) ==
    <<dataOffset>> \o [i \in 1 .. Len(entry) |-> RBSPOffset(nal.epb, dataOffset + entry[i])]

substreamStarts(nal, dataOffset, entry) ==
    <<dataOffset>> \o [i \in 1 .. Len(entry) |->
                          RBSPOffset(nal.epb, NALOffset(nal.epb, dataOffset) + entry[i])]

-----------------------------------------------------------------------------
NalInit == written = <<>>

Write(u) == written' = Append(written, u)

NalNext == /\ Len(written) < MaxUnits
           /\ \E u \in (IF written = <<>> THEN Units ELSE Followers) : Write(u)

NalSpec == NalInit /\ [][NalNext]_written

-----------------------------------------------------------------------------
Rbsps == [k \in 1 .. Len(written) |-> Rbsp(written[k])]
Received(nals) == [k \in 1 .. Len(nals) |-> nals[k].rbsp]

\* Whatever the bytes of the units are, both framings give them back: no unit
\* is cut at what looks like a start code, and none is joined with the next.
FramingRoundTrip ==
    /\ Received(SplitAnnexB(MarshalAnnexB(Rbsps))) = Rbsps
    /\ Received(SplitHVCC(marshalHVCC(Rbsps))) = Rbsps

\* The decoder starts every substream at the byte the encoder began it with,
\* although the entry points count bytes of the payload, in which both the
\* header and the data may be escaped.  nal.go:220: "NALOffset is the inverse
\* of RBSPOffset."
SubstreamsFound ==
    \A k \in 1 .. Len(written) :
        LET u   == written[k]
            nal == unescape(escapeRBSP(Rbsp(u)))
        IN  /\ substreamStarts(nal, Len(u.hdr), EntryPoints(escapedSizes(u.subs)))
                 = [i \in 1 .. Len(u.subs) |-> Len(u.hdr) + Len(Joined(u.subs)[i - 1])]
            /\ \A o \in 0 .. Len(nal.rbsp) : RBSPOffset(nal.epb, NALOffset(nal.epb, o)) = o

\* Units arrive whole, and their substreams where the entry points say.
UnitsAsWritten == FramingRoundTrip /\ SubstreamsFound
=============================================================================
