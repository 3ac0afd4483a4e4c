----------------------------- MODULE MCDecoder -----------------------------
\* Constants of Decoder for TLC: short streams, each of which needs another
\* part of the buffer.
EXTENDS Decoder

SpsUnit(size, reorder, latency, maxDec) ==
    [kind |-> "sps", id |-> 1, fault |-> "none", upto |-> 0,
     sps |-> [size |-> size, reorder |-> reorder, latency |-> latency,
              maxDecPicBuffering |-> maxDec, maxLsb |-> 16]]
Pps == [kind |-> "pps", id |-> 1, spsId |-> 1, fault |-> "none", upto |-> 0]
Eos == [kind |-> "eos", fault |-> "none", upto |-> 0]

\* The only slice of access unit au, predicting from nothing.
I(au, typ, lsb) ==
    [kind |-> "slice", typ |-> typ, tid |-> 0, au |-> au, first |-> TRUE, dep |-> FALSE,
     addr |-> 0, len |-> 1, lsb |-> lsb, s0 |-> <<>>, s1 |-> <<>>, lt |-> <<>>, numSps |-> 0,
     active |-> <<0, 0>>, mod |-> <<<<>>, <<>>>>, out |-> TRUE, noOut |-> FALSE, pps |-> 1,
     meant |-> {}, fault |-> "none", upto |-> 0]

Use(d)  == [d |-> d, used |-> TRUE]
Keep(d) == [d |-> d, used |-> FALSE]
P(au, typ, lsb, s0, meant) ==
    [I(au, typ, lsb) EXCEPT !.s0 = s0, !.active = <<1, 0>>, !.meant = meant]
B(au, typ, lsb, s0, s1, meant) ==
    [P(au, typ, lsb, s0, meant) EXCEPT !.s1 = s1, !.active = <<1, 1>>]
\* The second of the two slices a picture of size 2 is made of.
Second(nal) == [nal EXCEPT !.first = FALSE, !.addr = 1]
Dependent(nal) == [Second(nal) EXCEPT !.dep = TRUE]

\* Hierarchical prediction, 0 4 2 1 3.
Pyramid == <<SpsUnit(1, 2, 0, 3), Pps, I(1, "IDR", 0),
    P(2, "TRAIL_R", 4, <<Use(-4)>>, {1}),
    B(3, "TRAIL_R", 2, <<Use(-2)>>, <<Use(2)>>, {1, 2}),
    B(4, "TRAIL_N", 1, <<Use(-1)>>, <<Use(1), Keep(3)>>, {1, 3}),
    B(5, "TRAIL_N", 3, <<Use(-1)>>, <<Use(1)>>, {2, 3})>>

\* A random access point in mid-stream with leading pictures.
OpenGop == <<SpsUnit(1, 1, 0, 3), Pps, I(1, "IDR", 0),
    [I(2, "CRA", 4) EXCEPT !.s0 = <<Keep(-4)>>],
    B(3, "RASL_N", 2, <<Use(-2)>>, <<Use(2)>>, {1, 2}),
    [P(4, "RADL_N", 3, <<>>, {2}) EXCEPT !.s1 = <<Use(1)>>],
    P(5, "TRAIL_R", 5, <<Use(-1)>>, {2})>>

\* Two slices to a picture, one of them dependent; a sequence of another size
\* that waives the output of the one before.
Resize == <<SpsUnit(2, 1, 0, 2), Pps, I(1, "IDR", 0), Dependent(I(1, "IDR", 0)),
    P(2, "TRAIL_R", 1, <<Use(-1)>>, {1}), Second(P(2, "TRAIL_R", 1, <<Use(-1)>>, {1})),
    SpsUnit(1, 0, 0, 1), [I(3, "IDR", 0) EXCEPT !.noOut = TRUE],
    P(4, "TRAIL_R", 1, <<Use(-1)>>, {3})>>

\* The count wraps, by a step of half its range; the first picture stays as a
\* long-term reference, named once by its least significant bits, once in full.
LongTermRef == <<SpsUnit(1, 0, 0, 2), Pps, I(1, "IDR", 0),
    P(2, "TRAIL_R", 8, <<Use(-8)>>, {1}),
    [P(3, "TRAIL_R", 0, <<Use(-8)>>, {1, 2}) EXCEPT !.active = <<2, 0>>,
        !.lt = <<[lsb |-> 0, msbPresent |-> FALSE, cycle |-> 0, used |-> TRUE]>>],
    [P(4, "TRAIL_R", 8, <<Use(-8)>>, {1}) EXCEPT !.mod = <<<<1>>, <<>>>>,
        !.lt = <<[lsb |-> 0, msbPresent |-> TRUE, cycle |-> 1, used |-> TRUE]>>]>>

\* Output is bounded by latency, one picture is not output at all, and the
\* stream is made of three sequences.
Latency == <<SpsUnit(1, 2, 1, 3), Pps, I(1, "IDR", 0),
    [P(2, "TRAIL_R", 1, <<Use(-1)>>, {1}) EXCEPT !.out = FALSE],
    P(3, "TRAIL_R", 2, <<Use(-1)>>, {2}), I(4, "IDR", 0),
    P(5, "TRAIL_N", 1, <<Use(-1)>>, {4}), Eos, I(6, "CRA", 3)>>

\* Two slices to a picture, each with references of its own.
Slices == <<SpsUnit(2, 0, 0, 2), Pps, I(1, "IDR", 0), Second(I(1, "IDR", 0)),
    P(2, "TRAIL_R", 1, <<Use(-1)>>, {1}), Second(P(2, "TRAIL_R", 1, <<Use(-1)>>, {1})),
    [B(3, "TRAIL_R", 2, <<Use(-1), Use(-2)>>, <<>>, {1, 2}) EXCEPT !.active = <<2, 1>>],
    Second(P(3, "TRAIL_R", 2, <<Use(-1), Use(-2)>>, {2}))>>

\* The sequence parameter set is replaced while the picture that uses it is
\* decoded, by one for pictures too large for the limit.
Oversize == <<SpsUnit(1, 0, 0, 1), Pps, I(1, "IDR", 0), SpsUnit(2, 0, 0, 1), I(2, "IDR", 0),
    SpsUnit(3, 0, 0, 1), Second(I(2, "IDR", 0)), I(3, "IDR", 0)>>

\* Two sequences whose pictures have the same counts.
TwoSequences == <<SpsUnit(1, 0, 0, 2), Pps, I(1, "IDR", 0), P(2, "TRAIL_R", 1, <<Use(-1)>>, {1}),
    I(3, "IDR", 0), P(4, "TRAIL_R", 1, <<Use(-1)>>, {3})>>

MCStreams == {[nals |-> s, distinct |-> TRUE] : s \in {Pyramid, OpenGop, LongTermRef, Slices}}
             \cup {[nals |-> s, distinct |-> FALSE] : s \in {Resize, Latency, Oversize}}
CorruptStreams == {[nals |-> TwoSequences, distinct |-> FALSE]}
=============================================================================
