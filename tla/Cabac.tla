-------------------------------- MODULE Cabac --------------------------------
(***************************************************************************)
(* The arithmetic coder of 9.3.4 at both ends: cabacWriter                 *)
(* (hevc/cabacenc.go) holds back bits that a carry may still change, cabac *)
(* (hevc/cabac.go) keeps a window of up to 16 bits behind the range and a  *)
(* marker bit that says when to fetch two bytes.  Where the arithmetic     *)
(* code stops for PCM samples, the decoder works out from its window where *)
(* the samples begin.  The rate estimates are left out.                    *)
(***************************************************************************)
EXTENDS Integers, Sequences

CONSTANTS rangeTabLPS, transIdxLPS,  \* Tables 9-46 and 9-47
          Programs  \* of [calls, contexts, samples]: calls to code, first states, PCM samples as bits

\* Either value of a bin keeps a part of every range; states hold seven bits; the
\* arithmetic code ends with the last call and nowhere else, samples are whole bytes.
TableAssumption ==
    /\ \A s \in 1 .. 64, q \in 1 .. 4 : rangeTabLPS[s][q] \in 2 .. 254
    /\ \A s \in 1 .. 64 : transIdxLPS[s] \in 0 .. 63
Ops == {"bin", "bypass", "terminate", "pcm", "end"}
ProgramAssumption ==
    \A p \in Programs :
        /\ p.calls \in Seq([op : Ops, ctx : Nat, bin : {0, 1}]) /\ p.calls # <<>>
        /\ p.contexts \in Seq(0 .. 127)
        /\ p.samples \in Seq({0, 1}) /\ Len(p.samples) % 8 = 0
        /\ \A k \in DOMAIN p.calls :
              /\ p.calls[k].op = "bin" => p.calls[k].ctx \in DOMAIN p.contexts
              /\ p.calls[k].op = "terminate" => p.calls[k].bin = 0
              /\ p.calls[k].op \in {"pcm", "end"} => p.calls[k].bin = 1
              /\ p.calls[k].op = "end" <=> k = Len(p.calls)
ASSUME TablesGiven == TableAssumption
ASSUME ProgramsGiven == ProgramAssumption

VARIABLES prog, bits,            \* the program and what is written of it
          nput, w, wstate,       \* calls coded, the encoder's arithmetic, its contexts
          nget, c, cstate, got   \* calls decoded, the decoder's arithmetic, its contexts, what it read last

cabacVars == <<prog, bits, nput, w, wstate, nget, c, cstate, got>>

CabacBits == 16
Mask == 2 ^ CabacBits - 1
Word == 2 ^ (CabacBits + 1)

\* The two tables by state, a probability and the more probable value in one number.
lpsRange(q, s) == rangeTabLPS[s \div 2 + 1][q + 1]
transState(n) ==
    IF n >= 0 THEN IF n \div 2 >= 62 THEN n ELSE n + 2
    ELSE LET s == -n - 1
         IN  2 * transIdxLPS[s \div 2 + 1] + IF s \div 2 = 0 THEN 1 - (s % 2) ELSE s % 2
Quarter(rng) == (rng \div 64) % 4

--------------------------------------------------------------------------------
\* The encoder, e = [low, rng, outstanding, firstBit, out].
reinit == [low |-> 0, rng |-> 510, outstanding |-> 0, firstBit |-> TRUE]
putBit(e, v) ==
    [low |-> e.low, rng |-> e.rng, outstanding |-> 0, firstBit |-> FALSE,
     out |-> e.out \o (IF e.firstBit THEN <<>> ELSE <<v>>) \o [i \in 1 .. e.outstanding |-> 1 - v]]
Interval(e, low, rng) == [low |-> low, rng |-> rng, outstanding |-> e.outstanding, firstBit |-> e.firstBit, out |-> e.out]
HoldBack(e) == [e EXCEPT !.outstanding = @ + 1]
Twice(e) == Interval(e, 2 * e.low, 2 * e.rng)
Emitted(e) == CASE e.low < 256 -> putBit(e, 0)
                [] e.low >= 512 -> putBit(Interval(e, e.low - 512, e.rng), 1)
                [] OTHER -> HoldBack(Interval(e, e.low - 256, e.rng))
Widened(e) == IF e.rng < 256 THEN Twice(Emitted(e)) ELSE e
renorm(e) == Widened(Widened(Widened(Widened(Widened(Widened(Widened(e)))))))
MostProbable(s, bin) == bin = s % 2
Narrow(e, mps, lps) == IF mps THEN Interval(e, e.low, e.rng - lps) ELSE Interval(e, e.low + e.rng - lps, lps)
encodeBin(e, s, bin) == renorm(Narrow(e, MostProbable(s, bin), lpsRange(Quarter(e.rng), s)))
Settle(e) == CASE e.low >= 1024 -> putBit(Interval(e, e.low - 1024, e.rng), 1)
               [] e.low < 512 -> putBit(e, 0)
               [] OTHER -> HoldBack(Interval(e, e.low - 512, e.rng))
encodeBypass(e, bin) == Settle(Interval(e, 2 * e.low + bin * e.rng, e.rng))
Finish(e) == [putBit(e, (e.low \div 512) % 2) EXCEPT !.out = @ \o <<(e.low \div 256) % 2, 1>>]
encodeTerminate(e, bin) ==
    IF bin = 0 THEN renorm(Interval(e, e.low, e.rng - 2))
    ELSE Finish(renorm(Interval(e, e.low + e.rng - 2, 2)))
Aligned(s) == s \o [i \in 1 .. (8 - (Len(s) % 8)) % 8 |-> 0]

Call == prog.calls[nput + 1]
\* The arithmetic that one call leaves, its bits in out.
Coded(e) ==
    CASE Call.op = "bin" -> encodeBin(e, wstate[Call.ctx], Call.bin)
      [] Call.op = "bypass" -> encodeBypass(e, Call.bin)
      [] OTHER -> encodeTerminate(e, Call.bin)
Keep(e) == [low |-> e.low, rng |-> e.rng, outstanding |-> e.outstanding, firstBit |-> e.firstBit]
Begun == [low |-> w.low, rng |-> w.rng, outstanding |-> w.outstanding, firstBit |-> w.firstBit, out |-> bits]
Signed(s, mps) == IF mps THEN s ELSE -s - 1
encode(e) ==
    /\ nput < Len(prog.calls)
    /\ nput' = nput + 1
    /\ wstate' = IF Call.op = "bin" THEN [wstate EXCEPT ![Call.ctx] = transState(Signed(@, MostProbable(@, Call.bin)))] ELSE wstate
    /\ IF Call.op # "pcm" THEN bits' = (IF Call.op = "end" THEN Aligned(e.out) ELSE e.out) /\ w' = Keep(e)
       ELSE bits' = Aligned(e.out) \o prog.samples /\ w' = reinit
    /\ UNCHANGED <<prog, nget, c, cstate, got>>

--------------------------------------------------------------------------------
\* The decoder, d = [low, rng, pos].
Window(low, rng, pos) == [low |-> low, rng |-> rng, pos |-> pos]
bitAt(i) == IF i <= Len(bits) THEN bits[i] ELSE 0
byteAt(i) == 128 * bitAt(8 * i + 1) + 64 * bitAt(8 * i + 2) + 32 * bitAt(8 * i + 3) + 16 * bitAt(8 * i + 4)
             + 8 * bitAt(8 * i + 5) + 4 * bitAt(8 * i + 6) + 2 * bitAt(8 * i + 7) + bitAt(8 * i + 8)
Bytes == Len(bits) \div 8
init(off) == Window(byteAt(off) * 2 ^ 18 + byteAt(off + 1) * 2 ^ 10 + 2 ^ 9, 510, off + 2)
CanInit(off) == off >= 0 /\ off + 2 <= Bytes
Fetched(pos) == byteAt(pos) * 2 ^ 9 + byteAt(pos + 1) * 2 - Mask
Empty(d) == d.low % 2 ^ CabacBits = 0
refill(d) == IF Empty(d) THEN Window(d.low + Fetched(d.pos), d.rng, d.pos + 2) ELSE d
TrailingZeros(v) == CHOOSE i \in 16 .. 28 : v % 2 ^ i = 0 /\ v % 2 ^ (i + 1) # 0
refillShifted(d) ==
    IF Empty(d) THEN Window(d.low + Fetched(d.pos) * 2 ^ (TrailingZeros(d.low) - CabacBits), d.rng, d.pos + 2) ELSE d
normShift(r) == CHOOSE k \in 0 .. 8 : r * 2 ^ k \in 256 .. 511
Shifted(d, k) == Window(d.low * 2 ^ k, d.rng * 2 ^ k, d.pos)
Less(d, lps) == d.low > (d.rng - lps) * Word
decodeBin(d, lps) ==
    IF Less(d, lps) THEN Shifted(Window(d.low - (d.rng - lps) * Word, lps, d.pos), normShift(lps))
    ELSE Shifted(Window(d.low, d.rng - lps, d.pos), normShift(d.rng - lps))
Doubled(d) == refill(Window(2 * d.low, d.rng, d.pos))
decodeBypass(d) == IF d.low < d.rng * Word THEN d ELSE Window(d.low - d.rng * Word, d.rng, d.pos)
Terminated(d) == d.low >= (d.rng - 2) * Word
decodeTerminate(d) ==
    IF Terminated(d) \/ d.rng - 2 >= 256 THEN Window(d.low, d.rng - 2, d.pos) ELSE refill(Shifted(Window(d.low, d.rng - 2, d.pos), 1))
pcmOffset_half(d) == d.pos - IF d.low % 2 ^ 9 # 0 THEN 1 ELSE 0
pcmOffset(d) == d.pos - (d.low % 2) - IF d.low % 2 ^ 9 # 0 THEN 1 ELSE 0
Samples == Len(prog.samples) \div 8

Asked == prog.calls[nget + 1]
Written == nput = Len(prog.calls)
Reading(ops) == Written /\ nget >= 0 /\ nget < Len(prog.calls) /\ Asked.op \in ops
Read(ops, d, bin) ==
    /\ Reading(ops)
    /\ nget' = nget + 1 /\ c' = d
    /\ got' = [bin |-> bin, samples |-> <<>>, refused |-> FALSE]
    /\ UNCHANGED <<prog, bits, nput, w, wstate>>
BinRead(lps) ==
    /\ Read({"bin"}, refillShifted(decodeBin(c, lps)), IF Less(c, lps) THEN 1 - (cstate[Asked.ctx] % 2) ELSE cstate[Asked.ctx] % 2)
    /\ cstate' = [cstate EXCEPT ![Asked.ctx] = transState(Signed(@, ~Less(c, lps)))]
DecodeBin == Reading({"bin"}) /\ BinRead(lpsRange(Quarter(c.rng), cstate[Asked.ctx]))
Bypassed(d) == Read({"bypass"}, decodeBypass(d), IF d.low < d.rng * Word THEN 0 ELSE 1)
DecodeBypass == Bypassed(Doubled(c)) /\ UNCHANGED cstate
DecodeTerminate == Read({"terminate", "end"}, decodeTerminate(c), IF Terminated(c) THEN 1 ELSE 0) /\ UNCHANGED cstate
\* pcm_flag ends the arithmetic code, pcmSample reads from where it ended and starts it anew.
PcmSample(off) ==
    /\ nget' = nget + 1
    /\ got' = [bin |-> IF Terminated(c) THEN 1 ELSE 0, samples |-> SubSeq(bits, 8 * off + 1, 8 * (off + Samples)),
               refused |-> off < 0 \/ off + Samples > Bytes \/ ~CanInit(off + Samples)]
    /\ c' = IF CanInit(off + Samples) THEN init(off + Samples) ELSE c
    /\ UNCHANGED <<prog, bits, nput, w, wstate, cstate>>
DecodePcm == Reading({"pcm"}) /\ PcmSample(pcmOffset(decodeTerminate(c)))
Start == /\ Written /\ nget < 0
         /\ nget' = 0 /\ c' = init(0)
         /\ got' = [got EXCEPT !.refused = ~CanInit(0)]
         /\ UNCHANGED <<prog, bits, nput, w, wstate, cstate>>

CabacInit == /\ prog \in Programs
             /\ nput = 0 /\ w = reinit /\ wstate = prog.contexts /\ bits = <<>>
             /\ nget = -1 /\ c = Window(0, 0, 0) /\ cstate = prog.contexts
             /\ got = [bin |-> 0, samples |-> <<>>, refused |-> FALSE]
Encode == nput < Len(prog.calls) /\ encode(Coded(Begun))
CabacNext == Encode \/ Start \/ DecodeBin \/ DecodeBypass \/ DecodeTerminate \/ DecodePcm
CabacSpec == CabacInit /\ [][CabacNext]_cabacVars

--------------------------------------------------------------------------------
\* The decoder reads back every bin and every PCM sample, whatever carries, held back
\* bits, refills and restarts lie between: the bytes that cabacWriter writes decode
\* with cabac to what was coded, and a restart finds two bytes to begin with.
Decoded == prog.calls[nget]
BinsAsCoded ==
    /\ ~got.refused
    /\ nget > 0 => got.bin = Decoded.bin
    /\ nget > 0 /\ Decoded.op = "pcm" => got.samples = prog.samples
=============================================================================
