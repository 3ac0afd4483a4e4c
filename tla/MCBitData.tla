------------------------------- MODULE MCBitData -------------------------------
\* Constants of NalFraming, SegmentData and PictureTables for TLC.
EXTENDS Integers, Sequences, ScanOrder, TLC

\* Substreams with runs of zeros in front of, between and behind every byte the
\* escaping looks at.  Like those of the encoder, headers and substreams end on a
\* set bit.
Subs == {<<1>>, <<0, 0, 1>>, <<0, 0, 2, 0, 3>>, <<3, 0, 0, 3>>, <<0, 0, 4>>, <<0, 0, 0, 0, 0, 1>>,
         <<4, 0, 0, 0, 1>>, <<0, 2, 0, 1>>}
SliceHeaders == {<<4>>, <<0, 0, 1>>, <<0, 0, 0, 0, 2, 4>>}
MCFollowers == [hdr : SliceHeaders, subs : {<<s>> : s \in Subs}]
MCUnits == [hdr : SliceHeaders, subs : UNION {[1 .. n -> Subs] : n \in 1 .. 3}]

MCShapes ==
    {[cols |-> <<3>>, rows |-> <<2>>, wpp |-> TRUE], [cols |-> <<2>>, rows |-> <<3>>, wpp |-> TRUE],
     [cols |-> <<1>>, rows |-> <<3>>, wpp |-> TRUE],
     [cols |-> <<2>>, rows |-> <<1, 2>>, wpp |-> TRUE],
     [cols |-> <<3>>, rows |-> <<2>>, wpp |-> FALSE],
     [cols |-> Uniform(2, 3), rows |-> <<2>>, wpp |-> FALSE],
     [cols |-> <<2, 1>>, rows |-> Uniform(2, 2), wpp |-> FALSE]}
\* Wavefronts within each of two columns of tiles.
TilesAndRows == {[cols |-> <<2, 2>>, rows |-> <<2>>, wpp |-> TRUE]}

\* Lists predicted from lists, from the default one and out of range, in pictures of
\* one size; and pictures of two sizes with one and two columns or rows of tiles.
InDeltas(dc, a, b) == [dc |-> dc, deltas |-> <<a, b>>]
Pred(n) == [delta |-> n]
Second == {Pred(0), Pred(1), Pred(3), InDeltas(-7, -128, 127), InDeltas(247, 20, 0), InDeltas(-8, 0, 0)}
Lists ==
    {(<<s, 1>> :> InDeltas(60, 5, 100)) @@ (<<s, 4>> :> m) : s \in {0, 1, 2}, m \in Second}
    \cup {(<<2, 2>> :> InDeltas(60, 5, 100)) @@ (<<3, 0>> :> InDeltas(247, 20, 0)) @@ (<<3, 3>> :> m) : m \in Second}
PictureLists == {(<<2, 1>> :> InDeltas(3, 1, -20)) @@ (<<2, 2>> :> Pred(1)), <<3, 0>> :> Pred(0)}
Sequence(width, height, chroma, enabled, data) ==
    [width |-> width, height |-> height, chroma |-> chroma, enabled |-> enabled, data |-> data]
PictureSet(cols, rows, present, data) == [cols |-> cols, rows |-> rows, present |-> present, data |-> data]
Scaled(chroma, lists) ==
    {[sps |-> {Sequence(2, 2, chroma, TRUE, l), Sequence(2, 2, chroma, FALSE, <<>>)},
      pps |-> {PictureSet(1, 1, FALSE, <<>>), PictureSet(1, 1, TRUE, p)}] : l \in lists, p \in PictureLists}
Sized(sizes) ==
    {[sps |-> {Sequence(s[1], s[2], 1, FALSE, <<>>) : s \in sizes},
      pps |-> {PictureSet(t[1], t[2], FALSE, <<>>) : t \in {<<1, 1>>, <<2, 1>>, <<1, 2>>}}]}
MCFamilies == Scaled(1, Lists) \cup Sized({<<6, 4>>, <<10, 6>>})
FullChroma == Scaled(3, {<<>>})
\* Two sizes with the same number of coding tree blocks.
SameInCtbs == Sized({<<6, 4>>, <<8, 4>>})
================================================================================
