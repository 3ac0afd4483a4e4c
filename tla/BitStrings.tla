------------------------------ MODULE BitStrings ------------------------------
(***************************************************************************)
(* What putBits (hevc/putbits.go) appends to a sequence of bits and what   *)
(* getBits (hevc/getbits.go) reads from one at a position.  getBits        *)
(* fetches whole bytes into a register; behind the last byte it reads      *)
(* zeros and says so once, in err, which no caller looks at before the end.*)
(***************************************************************************)
EXTENDS Integers, Sequences, SequencesExt

Power(n) == 2 ^ n
Ceiling(v) == CHOOSE n \in 0 .. 31 : v < Power(n) /\ (n = 0 \/ v >= Power(n - 1))

Zeros(n) == [i \in 1 .. n |-> 0]
U(v, n) == [i \in 1 .. n |-> IF n - i > 30 THEN 0 ELSE (v \div Power(n - i)) % 2]
Flag(b) == IF b THEN <<1>> ELSE <<0>>
UE(v) == Zeros(Ceiling(v + 1) - 1) \o U(v + 1, Ceiling(v + 1))
SE(v) == UE(IF v <= 0 THEN -2 * v ELSE 2 * v - 1)
rbspTrailingBits(s) == s \o <<1>> \o Zeros((8 - ((Len(s) + 1) % 8)) % 8)

--------------------------------------------------------------------------------
\* Values of 2^30 and more are one here: every parser refuses them or leaves them be.
Huge == Power(30)

\* What a read gives: the value, how many bits it took, whether they are all there.
At(s, i) == IF i <= Len(s) THEN s[i] ELSE 0
GetU(s, pos, n) ==
    [value |-> FoldLeft(LAMBDA a, i : IF a >= Huge \div 2 THEN Huge ELSE 2 * a + At(s, pos + i), 0, [i \in 1 .. n |-> i]),
     taken |-> n, err |-> pos + n > Len(s)]

\* Bits nobody looks at, more than an integer may hold.
GetSkip(s, pos, n) == [value |-> 0, taken |-> n, err |-> pos + n > Len(s)]

\* More than 31 zeros are no code, which includes all those behind the end.
MaxPrefix == 31
GetUE(s, pos) ==
    LET ones == {n \in 0 .. MaxPrefix : At(s, pos + n + 1) = 1}
        n    == CHOOSE n \in ones : \A m \in ones : n <= m
    IN  IF ones = {} THEN [value |-> 0, taken |-> MaxPrefix + 1, err |-> TRUE]
        ELSE [value |-> IF n >= 29 THEN Huge ELSE Power(n) - 1 + GetU(s, pos + n + 1, n).value,
              taken |-> 2 * n + 1, err |-> pos + 2 * n + 1 > Len(s)]
Signed(v) == IF v % 2 = 0 THEN -(v \div 2) ELSE (v + 1) \div 2
GetSE(s, pos) == LET r == GetUE(s, pos) IN [r EXCEPT !.value = Signed(@)]

Aligned(pos) == pos + ((8 - (pos % 8)) % 8)

\* Whether the bit at the position is not yet the last one that is set, the stop bit.
moreRBSPData(s, pos) == \E j \in pos + 2 .. Len(s) : s[j] = 1
================================================================================
