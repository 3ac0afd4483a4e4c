------------------------------- MODULE Residual -------------------------------
(***************************************************************************)
(* residual_coding of 7.3.8.11: encodeResidual (hevc/residualenc.go) writes*)
(* the levels of transform blocks, decodeResidual (hevc/residual.go) reads *)
(* them back.  A symbol is <<name, context, value>>; the context of a      *)
(* bypass coded suffix is its number of bits.  What each side carries from *)
(* flag to flag, sub-block to sub-block and block to block decides the     *)
(* contexts and the Rice parameter.                                        *)
(*                                                                         *)
(* The encoder uses neither transform skip nor persistent Rice adaptation; *)
(* with `persistent` the writer is another encoder, which follows 9.3.3.11 *)
(* and 9.3.4.2.6 in both.                                                  *)
(***************************************************************************)
EXTENDS Integers, Sequences, FiniteSets, SequencesExt, TLC, ScanOrder

\* Streams of blocks [log2, cIdx, mode, level, skip]: level maps the positions of the
\* coefficients that are not zero to their values. sdh is sign data hiding.
CONSTANTS Sequels,  \* of [blocks, chroma, sdh, persistent]
          scans  \* scanOrder of the module ScanOrder

VARIABLES sequel, nth,  \* the stream and the block that is coded
          w,            \* the writer: [i, last, pos, st, stat]: next sub-block, last coefficient, greater1 state, Rice statistics
          symbols,      \* written and not yet read
          r             \* the reader

vars == <<sequel, nth, w, symbols, r>>

Bit(b) == IF b THEN 1 ELSE 0
Abs(v) == IF v < 0 THEN -v ELSE v
B == sequel.blocks[nth]
AtMost(a, b) == IF a < b THEN a ELSE b

scanIndex ==
    CASE B.log2 # 2 /\ ~(B.log2 = 3 /\ (B.cIdx = 0 \/ sequel.chroma = 3)) -> 1
      [] (B.log2 = 2 \/ (B.log2 = 3 /\ (B.cIdx = 0 \/ sequel.chroma = 3))) /\ B.mode \in 6 .. 14 -> 3
      [] (B.log2 = 2 \/ (B.log2 = 3 /\ (B.cIdx = 0 \/ sequel.chroma = 3))) /\ B.mode \in 22 .. 30 -> 2
      [] OTHER -> 1
SubBlocks == 4 ^ (B.log2 - 2)
SubBlock(i) == scans[B.log2 - 2][scanIndex][i + 1]
InSub(k) == scans[2][scanIndex][k + 1]
At(i, k) == <<SubBlock(i)[1] * 4 + InSub(k)[1], SubBlock(i)[2] * 4 + InSub(k)[2]>>
Swapped(p) == IF scanIndex = 3 THEN <<p[2], p[1]>> ELSE p

\* The flags of the sub-blocks to the right of and below one, from a set of coded ones.
Right(csbf, s) == <<s[1] + 1, s[2]>> \in csbf
Below(csbf, s) == <<s[1], s[2] + 1>> \in csbf
GroupKind(csbf, s) == <<"coded_sub_block_flag", <<(IF B.cIdx > 0 THEN 2 ELSE 0) + Bit(Right(csbf, s) \/ Below(csbf, s))>>>>

sigCtxMap4x4 == <<0, 1, 4, 5, 2, 3, 4, 5, 6, 6, 8, 8, 7, 7, 8, 8>>
sigCtxByCsbf(right, below, x, y) ==
    CASE ~right /\ ~below -> IF x + y = 0 THEN 2 ELSE Bit(x + y < 3)
      [] right /\ ~below -> IF y = 0 THEN 2 ELSE Bit(y = 1)
      [] ~right /\ below -> IF x = 0 THEN 2 ELSE Bit(x = 1)
      [] right /\ below -> 2
\* newSigCtxSet and its at: the context of a significance flag.
SigBase(s) ==
    CASE B.cIdx # 0 -> IF B.log2 = 3 THEN 36 ELSE 39
      [] B.cIdx = 0 -> Bit(s # <<0, 0>>) * 3 + (IF B.log2 # 3 THEN 21 ELSE IF scanIndex = 1 THEN 9 ELSE 15)
sigCtx(csbf, s, k) ==
    CASE B.log2 = 2 -> (IF B.cIdx = 0 THEN 0 ELSE 27) + sigCtxMap4x4[InSub(k)[2] * 4 + InSub(k)[1] + 1]
      [] B.log2 # 2 /\ s = <<0, 0>> /\ InSub(k) = <<0, 0>> -> IF B.cIdx = 0 THEN 0 ELSE 27
      [] OTHER -> SigBase(s) + sigCtxByCsbf(Right(csbf, s), Below(csbf, s), InSub(k)[1], InSub(k)[2])
SigKind(csbf, s, k) == <<"sig_coeff_flag", <<sigCtx(csbf, s, k)>>>>

--------------------------------------------------------------------------------
\* The state carried over sub-blocks for the greater1 contexts, and the Rice
\* statistics carried over blocks.
Fresh == [started |-> FALSE, greater1Ctx |-> 0, lastGreater1 |-> FALSE]
lastCtx(st) == IF ~st.started THEN 1
               ELSE IF st.greater1Ctx = 0 \/ st.lastGreater1 THEN 0 ELSE st.greater1Ctx + 1
ctxSet(i, st) == (IF i > 0 /\ B.cIdx = 0 THEN 2 ELSE 0) + Bit(lastCtx(st) = 0)
\* The context of the n-th greater1 flag after the flags before it.
greater1Ctx(flags, n) == IF \E j \in 1 .. n - 1 : flags[j] = 1 THEN 0 ELSE n
Greater1Kind(set, flags, n) ==
    <<"greater1", <<(IF B.cIdx > 0 THEN 16 ELSE 0) + set * 4 + AtMost(3, greater1Ctx(flags, n))>>>>
Greater2Kind(set) == <<"greater2", <<(IF B.cIdx > 0 THEN 4 ELSE 0) + set>>>>
Carried(flags) == [started |-> TRUE, greater1Ctx |-> greater1Ctx(flags, Len(flags)), lastGreater1 |-> flags[Len(flags)] = 1]
\* The first coefficient above one among those with a flag, zero if there is none.
FirstGreater1(flags) == IF \E j \in DOMAIN flags : flags[j] = 1
                        THEN CHOOSE j \in DOMAIN flags : flags[j] = 1 /\ \A m \in 1 .. j - 1 : flags[m] = 0 ELSE 0
want(j, first) == CASE j > 8 -> 1 [] j <= 8 /\ j # first -> 2 [] OTHER -> 3
updateStatCoeff(stat, v) ==
    CASE v >= 3 * 2 ^ (stat \div 4) -> stat + 1
      [] v < 3 * 2 ^ (stat \div 4) /\ 2 * v < 2 ^ (stat \div 4) /\ stat > 0 -> stat - 1
      [] OTHER -> stat
SkipCoded == sequel.persistent /\ B.log2 = 2
SkipKind == <<"transform_skip_flag", <<AtMost(B.cIdx, 1)>>>>
Hidden(ks) == sequel.sdh /\ ks[1] - ks[Len(ks)] > 3

\* Binarisations of 9.3.3: a prefix, and a suffix of a number of bits.
lastSigCoeffPrefix(v) ==
    IF v <= 3 THEN v
    ELSE LET n == CHOOSE n \in 0 .. 4 : 2 ^ (n + 1) <= v /\ v < 2 ^ (n + 2)
         IN  2 * n + 2 + ((v \div 2 ^ n) % 2)
SuffixBits(prefix) == prefix \div 2 - 1
SuffixBase(prefix) == 2 ^ SuffixBits(prefix) * (2 + (prefix % 2))
encodeCoeffAbsLevelRemaining(v, rice) ==
    IF v < 3 * 2 ^ rice
    THEN <<<<"remaining_prefix", <<>>, v \div 2 ^ rice>>, <<"remaining_suffix", <<rice>>, v % 2 ^ rice>>>>
    ELSE LET k == CHOOSE k \in 0 .. 20 : v < (2 ^ (k + 1) + 2) * 2 ^ rice /\ (k = 0 \/ v >= (2 ^ k + 2) * 2 ^ rice)
         IN  <<<<"remaining_prefix", <<>>, k + 3>>, <<"remaining_suffix", <<k + rice>>, v - (2 ^ k + 2) * 2 ^ rice>>>>
RemainingBits(prefix, rice) == IF prefix < 3 THEN rice ELSE prefix - 3 + rice
coeffAbsLevelRemaining(prefix, suffix, rice) ==
    IF prefix < 3 THEN prefix * 2 ^ rice + suffix ELSE (2 ^ (prefix - 3) + 2) * 2 ^ rice + suffix

--------------------------------------------------------------------------------
\* The writer.
Level(p) == IF p \in DOMAIN B.level THEN B.level[p] ELSE 0
Csbf == {<<p[1] \div 4, p[2] \div 4>> : p \in DOMAIN B.level}
Scans == {n \in 0 .. 16 * SubBlocks - 1 : At(n \div 16, n % 16) \in DOMAIN B.level}
encodeLastSigCoeffSuffix(v) ==
    IF v <= 3 THEN <<>>
    ELSE <<<<"last_suffix", <<SuffixBits(lastSigCoeffPrefix(v))>>, v - SuffixBase(lastSigCoeffPrefix(v))>>>>
SkipSymbols == IF SkipCoded THEN <<Append(SkipKind, Bit(B.skip))>> ELSE <<>>
LastSymbols(p) ==
    SkipSymbols \o <<<<"last_x_prefix", <<>>, lastSigCoeffPrefix(p[1])>>, <<"last_y_prefix", <<>>, lastSigCoeffPrefix(p[2])>>>>
    \o encodeLastSigCoeffSuffix(p[1]) \o encodeLastSigCoeffSuffix(p[2])

\* A flag is coded for a sub-block that is neither the last nor the first; in one that
\* had a flag the DC coefficient is inferred when nothing else is.
GroupCoded(i, last) == i < last /\ i > 0
Start(i, last, pos) == IF i = last THEN pos - 1 ELSE 15
SigCoded(i, k, last, others) == ~(k = 0 /\ GroupCoded(i, last) /\ ~others)
Significant(i) == SelectSeq(Down(16), LAMBDA k : Level(At(i, k)) # 0)
SigSymbols(i, ks) ==
    FlattenSeq([n \in 1 .. Start(i, w.last, w.pos) + 1 |->
        LET k == Start(i, w.last, w.pos) + 1 - n
        IN  IF SigCoded(i, k, w.last, \E m \in 1 .. Len(ks) : ks[m] > 0)
            THEN <<Append(SigKind(Csbf, SubBlock(i), k), Bit(Level(At(i, k)) # 0))>> ELSE <<>>])

\* The levels behind the flags. Rice starts at zero and stops at four, or with
\* persistent adaptation where the statistics put it and nowhere.
riceStatIndex_spec == (IF B.cIdx = 0 THEN 1 ELSE 3) + Bit(B.skip)
NextRice(level, rice) ==
    IF level <= 3 * 2 ^ rice THEN rice ELSE IF sequel.persistent THEN rice + 1 ELSE AtMost(rice + 1, 4)
Base(lev, j, first) == 1 + Bit(j <= 8 /\ Abs(lev[j]) > 1) + Bit(j = first /\ Abs(lev[j]) > 2)
WriteRemaining(a, level, base) ==
    [out |-> a.out \o encodeCoeffAbsLevelRemaining(level - base, a.rice),
     rice |-> NextRice(level, a.rice),
     stat |-> IF sequel.persistent /\ a.none THEN [a.stat EXCEPT ![riceStatIndex_spec] = updateStatCoeff(@, level - base)] ELSE a.stat,
     none |-> FALSE]
Remainings(lev, first) ==
    FoldLeft(LAMBDA a, j : IF Base(lev, j, first) = want(j, first) THEN WriteRemaining(a, Abs(lev[j]), Base(lev, j, first)) ELSE a,
             [out |-> <<>>, rice |-> IF sequel.persistent THEN w.stat[riceStatIndex_spec] \div 4 ELSE 0, stat |-> w.stat, none |-> TRUE],
             [j \in 1 .. Len(lev) |-> j])
Greater1Flags(lev) == [j \in 1 .. AtMost(Len(lev), 8) |-> Bit(Abs(lev[j]) > 1)]
FlagSymbols(i, lev, flags, first) ==
    [n \in 1 .. Len(flags) |-> Append(Greater1Kind(ctxSet(i, w.st), flags, n), flags[n])]
    \o IF first = 0 THEN <<>> ELSE <<Append(Greater2Kind(ctxSet(i, w.st)), Bit(Abs(lev[first]) > 2))>>
SignSymbols(ks, lev) == [j \in 1 .. Len(lev) - Bit(Hidden(ks)) |-> <<"sign", <<>>, Bit(lev[j] < 0)>>]

\* encodeSubBlockLevels, which leaves the state alone where nothing is significant.
WriteLevels(i, ks, lev, flags, rest) ==
    /\ symbols' = symbols \o (IF GroupCoded(i, w.last) THEN <<Append(GroupKind(Csbf, SubBlock(i)), 1)>> ELSE <<>>)
                          \o SigSymbols(i, ks) \o FlagSymbols(i, lev, flags, FirstGreater1(flags)) \o SignSymbols(ks, lev) \o rest.out
    /\ w' = [w EXCEPT !.i = i - 1, !.st = Carried(flags), !.stat = rest.stat]
WriteEmpty(i) ==
    /\ symbols' = symbols \o IF GroupCoded(i, w.last) THEN <<Append(GroupKind(Csbf, SubBlock(i)), 0)>> ELSE SigSymbols(i, <<>>)
    /\ w' = [w EXCEPT !.i = i - 1]
Levels(ks) == [j \in 1 .. Len(ks) |-> Level(At(w.i, ks[j]))]

StartBlock(scan) ==
    /\ symbols' = LastSymbols(Swapped(At(scan \div 16, scan % 16)))
    /\ w' = [w EXCEPT !.i = scan \div 16, !.last = scan \div 16, !.pos = scan % 16]
encodeResidual ==
    /\ w.last < 0
    /\ StartBlock(Max(Scans))
    /\ UNCHANGED <<sequel, nth, r>>
Codes(ks, lev, flags) == WriteLevels(w.i, ks, lev, flags, Remainings(lev, FirstGreater1(flags)))
WriteSub(ks) == IF ks = <<>> THEN WriteEmpty(w.i) ELSE Codes(ks, Levels(ks), Greater1Flags(Levels(ks)))
encodeSubBlock ==
    /\ w.last >= 0 /\ w.i >= 0
    /\ WriteSub(Significant(w.i))
    /\ UNCHANGED <<sequel, nth, r>>

--------------------------------------------------------------------------------
\* The reader, which sees the values of symbols and never their names or contexts.
Val(n) == IF n <= Len(symbols) THEN symbols[n][3] ELSE 0

\* The kinds of the symbols that each loop of the code reads next.
SuffixKinds(prefix) == IF prefix <= 3 THEN <<>> ELSE <<<<"last_suffix", <<SuffixBits(prefix)>>>>>>
LastKinds(skips) ==
    skips \o <<<<"last_x_prefix", <<>>>>, <<"last_y_prefix", <<>>>>>>
    \o SuffixKinds(Val(Len(skips) + 1)) \o SuffixKinds(Val(Len(skips) + 2))
GroupKinds == IF GroupCoded(r.i, r.last) THEN <<GroupKind(r.csbf, SubBlock(r.i))>> ELSE <<>>
SigFlags == Start(r.i, r.last, r.pos) + 1
OthersRead == \E n \in 1 .. SigFlags - 1 : Val(n) = 1
SigKinds ==
    [n \in 1 .. SigFlags - Bit(~SigCoded(r.i, 0, r.last, OthersRead)) |-> SigKind(r.csbf, SubBlock(r.i), SigFlags - n)]
FlagsRead == [j \in 1 .. AtMost(Len(r.ks), 8) |-> Val(j)]
Signs == Len(r.ks) - Bit(Hidden(r.ks))
FlagKinds(flags) ==
    [n \in 1 .. Len(flags) |-> Greater1Kind(ctxSet(r.i, r.st), flags, n)]
    \o (IF FirstGreater1(flags) = 0 THEN <<>> ELSE <<Greater2Kind(ctxSet(r.i, r.st))>>)
    \o [j \in 1 .. Signs |-> <<"sign", <<>>>>]
Coded == r.base[r.j] = want(r.j, r.first)
RemainingKinds ==
    IF Coded THEN <<<<"remaining_prefix", <<>>>>, <<"remaining_suffix", <<RemainingBits(Val(1), r.rice)>>>>>> ELSE <<>>
Kinds == CASE r.phase = "last" -> LastKinds(IF SkipCoded THEN <<SkipKind>> ELSE <<>>)
           [] r.phase = "group" -> GroupKinds
           [] r.phase = "sig" -> SigKinds
           [] r.phase = "flags" -> FlagKinds(FlagsRead)
           [] r.phase = "levels" -> RemainingKinds
           [] OTHER -> <<>>

Consume == symbols' = SubSeq(symbols, Len(Kinds) + 1, Len(symbols))
Reads(phase) == /\ w.last >= 0 /\ w.i < 0 /\ r.phase = phase
                /\ Consume
                /\ UNCHANGED <<sequel, nth, w>>
\* The next sub-block, or the end of the block.
Onward(s) == [s EXCEPT !.i = @ - 1, !.phase = IF s.i = 0 THEN "end" ELSE "group"]

lastSigCoeffSuffix(prefix, suffix) == IF prefix <= 3 THEN prefix ELSE SuffixBase(prefix) + suffix
LastRead(n) ==
    <<lastSigCoeffSuffix(Val(n + 1), Val(n + 3)), lastSigCoeffSuffix(Val(n + 2), Val(n + 3 + Bit(Val(n + 1) > 3)))>>
FoundLast(found) ==
    r' = IF found = {} THEN [r EXCEPT !.phase = "invalid"]
         ELSE [r EXCEPT !.phase = "group", !.i = Max(found) \div 16, !.last = Max(found) \div 16, !.pos = Max(found) % 16]
decodeResidual ==
    /\ Reads("last")
    /\ FoundLast({n \in 0 .. 16 * SubBlocks - 1 : At(n \div 16, n % 16) = Swapped(LastRead(Bit(SkipCoded)))})
ReadGroup ==
    /\ Reads("group")
    /\ r' = IF GroupCoded(r.i, r.last) /\ Val(1) = 0 THEN Onward(r)
            ELSE [r EXCEPT !.csbf = @ \cup {SubBlock(r.i)}, !.phase = "sig"]
SigRead(k) == IF SigCoded(r.i, k, r.last, OthersRead) THEN Val(SigFlags - k) = 1 ELSE TRUE
SigPositions == (IF r.i = r.last THEN <<r.pos>> ELSE <<>>) \o SelectSeq(Down(SigFlags), SigRead)
ReadSig ==
    /\ Reads("sig")
    /\ r' = IF SigPositions = <<>> THEN Onward(r) ELSE [r EXCEPT !.phase = "flags", !.ks = SigPositions]

\* decodeSubBlockLevels: the flags and the signs, then the levels one by one.
riceStatIndex == IF B.cIdx = 0 THEN 1 ELSE 3
Greater2Read(flags) == FirstGreater1(flags) # 0 /\ Val(Len(flags) + 1) = 1
ReadFlags(flags) ==
    r' = [r EXCEPT !.phase = "levels", !.j = 1, !.first = FirstGreater1(flags), !.st = Carried(flags),
          !.base = [j \in 1 .. Len(r.ks) |-> 1 + (IF j <= 8 THEN flags[j] ELSE 0) + Bit(j = FirstGreater1(flags) /\ Greater2Read(flags))],
          !.signs = [j \in 1 .. Len(r.ks) |-> j <= Signs /\ Val(Len(flags) + Bit(FirstGreater1(flags) # 0) + j) = 1],
          !.rice = IF sequel.persistent THEN r.stat[riceStatIndex] \div 4 ELSE 0, !.none = TRUE, !.sum = 0]
decodeSubBlockLevels == Reads("flags") /\ ReadFlags(FlagsRead)
Negative(sum) == r.signs[r.j] # (r.j > Signs /\ sum % 2 = 1)
Put(s, level) == [s EXCEPT !.coef = (At(r.i, r.ks[r.j]) :> IF Negative(r.sum + level) THEN -level ELSE level) @@ @, !.sum = @ + level]
Adapt_rem(s, rem) ==
    IF ~Coded THEN s
    ELSE [s EXCEPT !.rice = IF rem > 3 * 2 ^ @ THEN AtMost(@ + 1, 4) ELSE @, !.none = FALSE]
Adapt(s, rem) ==
    IF ~Coded THEN s
    ELSE [s EXCEPT !.rice = IF r.base[r.j] + rem > 3 * 2 ^ @ THEN AtMost(@ + 1, 4) ELSE @,
                   !.stat = IF sequel.persistent /\ r.none THEN [@ EXCEPT ![riceStatIndex] = updateStatCoeff(@, rem)] ELSE @,
                   !.none = FALSE]
NextLevel(s) == IF r.j = Len(r.ks) THEN Onward(s) ELSE [s EXCEPT !.j = @ + 1]
RemainingRead == IF Coded THEN coeffAbsLevelRemaining(Val(1), Val(2), r.rice) ELSE 0
ReadLevel ==
    /\ Reads("levels")
    /\ r' = NextLevel(Adapt(Put(r, r.base[r.j] + RemainingRead), RemainingRead))

--------------------------------------------------------------------------------
FreshWriter(stat) == [i |-> -1, last |-> -1, pos |-> 0, st |-> Fresh, stat |-> stat]
FreshReader(stat) == [phase |-> "last", i |-> -1, last |-> -1, pos |-> 0, csbf |-> {}, ks |-> <<>>, st |-> Fresh, stat |-> stat,
                      j |-> 0, first |-> 0, base |-> <<>>, signs |-> <<>>, rice |-> 0, none |-> TRUE, sum |-> 0, coef |-> <<>>]
Init ==
    /\ sequel \in Sequels
    /\ nth = 1
    /\ w = FreshWriter(<<0, 0, 0, 0>>) /\ r = FreshReader(<<0, 0, 0, 0>>)
    /\ symbols = <<>>
NextBlock ==
    /\ r.phase = "end" /\ nth < Len(sequel.blocks)
    /\ nth' = nth + 1
    /\ w' = FreshWriter(w.stat) /\ r' = FreshReader(r.stat)
    /\ UNCHANGED <<sequel, symbols>>
Next == encodeResidual \/ encodeSubBlock \/ decodeResidual \/ ReadGroup \/ ReadSig \/ decodeSubBlockLevels \/ ReadLevel \/ NextBlock
Spec == Init /\ [][Next]_vars

--------------------------------------------------------------------------------
\* The reader asks for exactly the bins that were written, in the contexts they were
\* written in, and ends a block with its levels and with no bin left: the mirrored
\* tracking of greater1 contexts, group flags, Rice parameter and hidden sign in
\* encodeResidual and decodeResidual never diverges.
SameBins == \A n \in 1 .. Len(Kinds) : n <= Len(symbols) /\ <<symbols[n][1], symbols[n][2]>> = Kinds[n]
ResidualRoundTrip ==
    /\ r.phase # "invalid"
    /\ w.last >= 0 /\ w.i < 0 => SameBins
    /\ r.phase = "end" => r.coef = B.level /\ symbols = <<>>
\* decoder.go:73-77 says that everything in the range extensions but the tools it lists
\* is applied, so a stream of another encoder that uses transform skip and persistent
\* Rice adaptation decodes like any other.
PersistentRiceApplied == ResidualRoundTrip
=============================================================================
