---------------------------- MODULE MCBlockSyntax ----------------------------
\* Constants of CodingTree and Residual for TLC, and their composition.
EXTENDS Integers, Sequences, FiniteSets, FiniteSetsExt, ScanOrder
VARIABLES stream, enc, work, saved, bits, dec, todo, sequel, nth, w, symbols, r

N2 == <<<<FALSE, FALSE>>, <<FALSE, FALSE>>>>
A2(f) == <<<<TRUE, f = 2>>, <<TRUE, f = 2>>>>
\* Flags of the chroma blocks of a luma block in one format.
Cbfs(f) == CASE f = 0 -> {N2}
             [] f = 2 -> {<<a, b>> : a \in {<<FALSE, FALSE>>, <<TRUE, FALSE>>, <<FALSE, TRUE>>, <<TRUE, TRUE>>}, b \in {<<FALSE, FALSE>>, <<FALSE, TRUE>>}}
             [] OTHER -> {<<<<a, FALSE>>, <<b, FALSE>>>> : a \in BOOLEAN, b \in BOOLEAN}
Four(i, a, b) == [j \in 1 .. 4 |-> IF j = i THEN a ELSE b]
Plain8 == [split |-> FALSE, y8 |-> TRUE, y |-> Four(1, FALSE, FALSE), c8 |-> N2, c |-> Four(1, N2, N2)]
TU8s(f) == {[Plain8 EXCEPT !.y8 = y, !.c8 = c] : y \in BOOLEAN, c \in Cbfs(f)}
           \cup {[Plain8 EXCEPT !.split = TRUE, !.y = y, !.c8 = IF f = 3 THEN N2 ELSE c, !.c = IF f = 3 THEN Four(i, c, N2) ELSE @] :
                    y \in {Four(2, TRUE, FALSE), Four(3, FALSE, TRUE)}, c \in Cbfs(f), i \in {1, 4}}
Leaf(m, tus) == [mode |-> m, tus |-> tus]
LeavesOf(f) == {Leaf(10, Four(i, t, o)) : i \in {1, 4}, t \in TU8s(f), o \in {Plain8, [Plain8 EXCEPT !.split = TRUE]}}
PlainLeaf(m) == Leaf(m, Four(1, Plain8, Plain8))
Unit(m, size, n, split, y, c, quad, quadC, leaves) ==
    [mode |-> m, size |-> size, tried |-> n, split |-> split, y |-> y, c |-> c, quad |-> quad, quadC |-> quadC, leaves |-> leaves]
Unit32(f) ==
    {Unit(10, "whole", 2, FALSE, y, c, Four(1, TRUE, FALSE), Four(1, N2, N2), Four(1, PlainLeaf(10), PlainLeaf(10))) : y \in BOOLEAN, c \in Cbfs(f)}
    \cup {Unit(10, "whole", 4, TRUE, TRUE, N2, Four(1, y, FALSE), Four(i, c, o), Four(1, PlainLeaf(10), PlainLeaf(10))) :
            y \in BOOLEAN, i \in {1, 4}, c \in Cbfs(f), o \in {N2} \cup IF f = 0 THEN {} ELSE {A2(f)}}
Sized(size, n, m, ms) ==
    Unit(m, size, n, FALSE, TRUE, N2, Four(1, FALSE, FALSE), Four(1, N2, N2), [i \in 1 .. 4 |-> PlainLeaf(ms[i])])
Stream(width, height, f, pcm, at, modes, depths, units) ==
    [width |-> width, height |-> height, chroma |-> f, pcm |-> pcm, at |-> at, modes |-> modes, depths |-> depths, units |-> units]

\* One block of every transform tree in every format.
Trees ==
    UNION {{Stream(16, 16, f, FALSE, <<0, 0>>, <<1, 1>>, <<0, 0>>,
                  Four(1, [Sized("split", 1, 10, <<10, 10, 10, 10>>) EXCEPT !.leaves = Four(1, l, PlainLeaf(10))], Sized("split", 1, 10, <<10, 10, 10, 10>>))) : l \in LeavesOf(f)} : f \in 0 .. 3}
    \cup UNION {{Stream(32, 32, f, FALSE, <<0, 0>>, <<1, 1>>, <<0, 0>>, Four(1, u, u)) : u \in Unit32(f)} : f \in 0 .. 3}
\* Coding tree blocks at the corners of a picture, after neighbours of any depth and mode.
Places ==
    {Stream(96, 112, f, FALSE, at, <<m1, m2>>, <<d1, d2>>,
        Four(i, Sized(s, n, a, <<a, b, a, b>>), Sized("whole", 3, c, <<c, c, c, c>>))) :
        f \in {1}, at \in {<<0, 0>>, <<64, 0>>, <<0, 64>>, <<64, 64>>},
        m1 \in {1, 26}, m2 \in {0}, d1 \in {1, 2}, d2 \in {1, 2}, i \in {1, 4}, s \in {"split", "whole"}, n \in {3},
        a \in {0, 26}, b \in {34}, c \in {2}}
Pcm == {Stream(16, 16, f, TRUE, <<0, 0>>, <<1, 1>>, <<0, 0>>, <<>>) : f \in {0, 1}}
MCStreams == Trees \cup Places \cup Pcm

\* Streams of transform blocks.
\* Values of the coefficients: ones, small ones, and ones of many bits.
Values == <<<<1>>, <<1, 2, 1, 3, 1, 1, 2, 5>>, <<40, 1, 2, 300, 3, 7, 5000, 2, 15, 16, 31>>>>
Magnitude(kind, p) == Values[kind][1 + ((p[1] + 5 * p[2]) % Len(Values[kind]))]
Total(kind, inner, s) == MapThenSumSet(LAMBDA p : Magnitude(kind, <<4 * s[1] + p[1], 4 * s[2] + p[2]>>), inner)
\* The first coefficient of a sub-block is the last in every scan: it carries the parity.
Negative(kind, inner, p) ==
    IF p[1] % 4 = 0 /\ p[2] % 4 = 0 THEN Total(kind, inner, <<p[1] \div 4, p[2] \div 4>>) % 2 = 1
    ELSE (p[1] + p[2]) % 3 = 1
Signed(kind, inner, p) == IF Negative(kind, inner, p) THEN -Magnitude(kind, p) ELSE Magnitude(kind, p)
Levels(kind, inner, subs) ==
    [p \in {<<4 * s[1] + q[1], 4 * s[2] + q[2]>> : s \in subs, q \in inner} |-> Signed(kind, inner, p)]

Whole == (0 .. 3) \X (0 .. 3)
DC == <<0, 0>>
WithDC == {Whole, {DC}, {DC, <<3, 0>>, <<0, 3>>}, {<<a, b>> \in Whole : a + b < 4}, {DC, <<3, 3>>}}
WithoutDC == {{<<1, 0>>, <<2, 2>>}, {<<0, 2>>}, Whole \ {DC}}
\* Which sub-blocks are coded, of one, four or sixteen.
Subs(log2) ==
    CASE log2 = 2 -> {{DC}}
      [] log2 = 3 -> {{<<1, 1>>}, {DC, <<1, 0>>}, {DC, <<0, 1>>, <<1, 1>>}}
      [] log2 = 4 -> {{<<3, 3>>, <<1, 1>>}, {DC, <<2, 0>>, <<0, 3>>, <<1, 1>>}}
      [] log2 = 5 -> {{<<7, 2>>, <<6, 2>>, <<3, 0>>}}
Modes(log2) == IF log2 <= 3 THEN {1, 10, 26} ELSE {10}
MCBlock(log2, cIdx, mode, kind, inner, subs, skip) ==
    [log2 |-> log2, cIdx |-> cIdx, mode |-> mode, level |-> Levels(kind, inner, subs), skip |-> skip]
Blocks(log2, inners) ==
    UNION {{MCBlock(log2, c, m, kind, inner, s, FALSE) : c \in {0, 1}, m \in Modes(log2), kind \in 1 .. 3, inner \in inners} : s \in Subs(log2)}
Sequel(blocks, chroma, sdh, persistent) == [blocks |-> blocks, chroma |-> chroma, sdh |-> sdh, persistent |-> persistent]
MCSequels ==
    {Sequel(<<b>>, 1, sdh, FALSE) : b \in UNION {Blocks(k, WithDC) : k \in 2 .. 5}, sdh \in BOOLEAN}
    \cup {Sequel(<<b>>, 3, FALSE, FALSE) : b \in UNION {Blocks(k, WithoutDC) : k \in 2 .. 4}}
    \cup {Sequel(<<a, a>>, 1, TRUE, FALSE) : a \in Blocks(2, {Whole})}
\* Streams of an encoder that adapts the Rice parameter and skips transforms.
PersistentSequels ==
    {Sequel([n \in 1 .. 8 |-> MCBlock(2, c, 1, kind, Whole, {DC}, skip)], 1, FALSE, TRUE) : c \in {0, 1}, kind \in 2 .. 3, skip \in BOOLEAN}

\* The two halves of the syntax, each with the other idle.
Tree == INSTANCE CodingTree WITH Streams <- MCStreams
Res == INSTANCE Residual WITH Sequels <- MCSequels \cup PersistentSequels, scans <- scanOrder
treeVars == <<stream, enc, work, saved, bits, dec, todo>>
resVars == <<sequel, nth, w, symbols, r>>
No == <<>>
NoTree == stream = No /\ enc = No /\ work = No /\ saved = No /\ bits = No /\ dec = No /\ todo = No
NoRes == nth = 0 /\ sequel = No /\ w = No /\ symbols = No /\ r = No
ResInit(persistent) == Res!Init /\ sequel.persistent = persistent /\ NoTree
ResNext == nth > 0 /\ Res!Next /\ UNCHANGED treeVars
PersistentSpec == ResInit(TRUE) /\ [][ResNext]_<<treeVars, resVars>>
Init == (Tree!Init /\ NoRes) \/ ResInit(FALSE)
Next == (nth = 0 /\ Tree!Next /\ UNCHANGED resVars) \/ ResNext
Spec == Init /\ [][Next]_<<treeVars, resVars>>

InStep == nth = 0 => Tree!InStep
SamePrediction == nth = 0 => Tree!SamePrediction
ResidualRoundTrip == nth > 0 => Res!ResidualRoundTrip
PersistentRiceApplied == Res!PersistentRiceApplied
=============================================================================
