---------------------------- MODULE MCLoopFilters ----------------------------
\* EdgeStrength and SliceEdges for TLC: a behaviour is one of either.
EXTENDS Integers, Sequences, SequencesExt

VARIABLES area, coded, blk, field, cut, slice, ctbSliceAddr, sliceLF

\* Two coding units of 16x16 side by side or on top of each other: the first of
\* every partition, transform split and motion, the second of a few.
No == [none |-> TRUE]
Ref(p, x) == [poc |-> p, mv |-> [x |-> x, y |-> 0]]
Motions == {<<Ref(1, 0), No>>, <<No, Ref(1, 0)>>, <<Ref(1, 4), No>>, <<Ref(2, 0), No>>, <<Ref(1, 0), Ref(2, 0)>>,
            <<Ref(2, 3), Ref(1, 0)>>, <<Ref(1, 0), Ref(1, 8)>>, <<Ref(1, 8), Ref(1, 0)>>}
Unit(x, y, pred, part, split, cbf, motion) ==
    [x |-> x, y |-> y, n |-> 4, pred |-> pred, part |-> part, split |-> split, cbf |-> cbf, motion |-> motion]
Intras(x, y) == {Unit(x, y, "intra", "2Nx2N", s, c, <<>>) : s \in BOOLEAN, c \in {{}, {0}, {1, 2}}}
Inters(x, y) ==
    {Unit(x, y, "inter", p, s, c, <<m, o, o, m>>) :
        p \in {"2Nx2N", "2NxN", "Nx2N", "NxN", "2NxnU", "2NxnD", "nLx2N", "nRx2N"}, s \in BOOLEAN, c \in {{}, {0}, {1, 2}},
        m \in Motions, o \in {<<Ref(1, 0), No>>, <<Ref(1, 8), Ref(1, 0)>>}}
Others(x, y) ==
    {Unit(x, y, "intra", "2Nx2N", FALSE, {}, <<>>), Unit(x, y, "inter", "2NxN", TRUE, {1}, <<<<Ref(1, 0), No>>, <<Ref(1, 3), Ref(2, 0)>>>>)}
    \cup {Unit(x, y, "skip", "2Nx2N", FALSE, {}, <<m>>) : m \in {<<No, Ref(1, 0)>>, <<Ref(1, 0), Ref(1, 8)>>}}
MCAreas == {<<a, b>> : a \in Intras(0, 0) \cup Inters(0, 0), b \in Others(4, 0) \cup Others(0, 4)}

\* Pictures of three by two blocks, and of four by two in two columns or two rows of
\* tiles, cut into up to three slices with every choice of flags: a tile of several
\* begins a slice unless one slice holds them all.
Starts(n) == {<<0>>} \cup {<<0, a>> : a \in 1 .. n - 1} \cup {<<0, a, b>> : a \in 1 .. n - 2, b \in 2 .. n - 1}
Increasing(s) == \A i \in 1 .. Len(s) - 1 : s[i] < s[i + 1]
MCCuts ==
    {[cols |-> g[1], rows |-> g[2], starts |-> s, across |-> f, tiles |-> t] :
        g \in {<<<<3>>, <<2>>>>},
        s \in {s \in Starts(6) : Increasing(s)},
        f \in [1 .. 3 -> BOOLEAN], t \in BOOLEAN}
    \cup
    {[cols |-> g[1], rows |-> g[2], starts |-> s, across |-> f, tiles |-> t] :
        g \in {<<<<2, 2>>, <<2>>>>, <<<<4>>, <<1, 1>>>>},
        s \in {s \in Starts(8) : Increasing(s) /\ (s = <<0>> \/ Contains(s, 4))},
        f \in [1 .. 3 -> BOOLEAN], t \in BOOLEAN}

Edges == INSTANCE EdgeStrength WITH Areas <- MCAreas
Slices == INSTANCE SliceEdges WITH Cuts <- MCCuts

edgeVars == <<area, coded, blk, field>>
sliceVars == <<cut, slice, ctbSliceAddr, sliceLF>>
NoEdges == coded = -1 /\ area = <<>> /\ blk = No /\ field = No
NoSlices == slice = -1 /\ cut = No /\ ctbSliceAddr = No /\ sliceLF = No

SliceInit == Slices!Init /\ NoEdges
SliceNext == slice >= 0 /\ Slices!Next /\ UNCHANGED edgeVars
SliceSpec == SliceInit /\ [][SliceNext]_<<edgeVars, sliceVars>>

Init == \/ Edges!Init /\ NoSlices
        \/ SliceInit
Next == \/ coded >= 0 /\ Edges!Next /\ UNCHANGED sliceVars
        \/ SliceNext
Spec == Init /\ [][Next]_<<edgeVars, sliceVars>>

\* What is deblocked and how strongly: within a slice by the blocks on both sides,
\* across the borders of slices and tiles by the flags of the later one.
DeblockAsSpecified == /\ coded >= 0 => Edges!StrengthAsSpecified
                      /\ slice >= 0 => Slices!DeblockAcross
SaoAcross == slice >= 0 => Slices!SaoAcross
=============================================================================
