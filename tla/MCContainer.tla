----------------------------- MODULE MCContainer -----------------------------
\* Constants of BoxWalk, HeifFile and Sequence for TLC.
EXTENDS FiniteSetsExt, Integers, Sequences, SequencesExt, TLC

Box(typ, ends, says) == [typ |-> typ, ends |-> ends, says |-> says, big |-> typ = "mdat"]
Meta(ends, says, primary, sized) ==
    [typ |-> "meta", ends |-> ends, says |-> says, big |-> FALSE, primary |-> primary, sized |-> sized]
Moov(ends, says, track) == [typ |-> "moov", ends |-> ends, says |-> says, big |-> FALSE, track |-> track]
\* A box longer than maxHeaderBox, of which a stream may get so much.
Big(b, prefix) == [x \in DOMAIN b \cup {"prefix"} |-> IF x = "big" THEN TRUE ELSE IF x = "prefix" THEN prefix ELSE b[x]]

\* Boxes anywhere in a file, and those that can only be its end.
Whole == {Box("ftyp", "sized", ""), Box("mdat", "sized", ""), Box("mini", "sized", ""),
          Meta("sized", "m1", "ok", TRUE), Meta("sized", "m2", "ok", FALSE), Meta("sized", "m3", "unsupported", TRUE),
          Meta("sized", "broken", "ok", TRUE), Moov("sized", "t1", TRUE), Moov("sized", "t2", FALSE),
          Big(Meta("sized", "m5", "ok", TRUE), Meta("sized", "broken", "ok", TRUE)),
          Big(Moov("sized", "t4", TRUE), Moov("sized", "t5", TRUE))}
Endings == {Box("mdat", e, "") : e \in {"toEnd", "short", "over", "wide", "cut", "tail"}}
        \cup {Meta(e, "m4", "ok", TRUE) : e \in {"toEnd", "over", "wide"}} \cup {Moov(e, "t3", TRUE) : e \in {"toEnd", "over"}}
        \cup {Big(Meta("toEnd", "m6", "ok", TRUE), Meta("toEnd", m[1], m[2], TRUE)) : m \in {<<"m6", "invalid">>, <<"broken", "ok">>}}
        \cup {Big(Moov("toEnd", "t6", TRUE), Moov("toEnd", "t7", FALSE))}
MCFiles == {s \o t : s \in UNION {[1 .. n -> Whole] : n \in 1 .. 3}, t \in {<<>>} \cup {<<b>> : b \in Endings}}

\* Pictures of every sampling at odd and even sizes, whole and in tiles that fit,
\* overlap the edge, are too many or do not fit the chroma.
Picture(w, h, chroma, tile, alpha) ==
    [w |-> w, h |-> h, chroma |-> chroma, tile |-> tile, alpha |-> alpha, icc |-> h = 3, exif |-> h > 2, xmp |-> alpha]
MCPictures == {Picture(w, h, c, t, a) : w \in {1, 2, 5, 6}, h \in {2, 3, 5}, c \in 0 .. 3, t \in {0, 2, 3}, a \in BOOLEAN}

\* Files of other writers: a picture of 4x4 or a grid of two by one tiles, with
\* alpha, an aperture anywhere, turned and mirrored.
Aperture(w, h, x, y) == <<w, 1, h, 1, x, 2, y, 2>>
Plane(name, w, h, dx) == [xy \in (0 .. w - 1) \X (0 .. h - 1) |-> <<name, xy[1] + dx, xy[2]>>]
Coded(name, w, h, chroma, dx) ==
    LET sw == IF chroma \in {1, 2} THEN 2 ELSE 1
        sh == IF chroma = 1 THEN 2 ELSE 1
    IN [kind |-> "picture", len |-> 30,
        body |-> [w |-> w, h |-> h, chroma |-> chroma, y |-> Plane(name, w, h, dx), c |-> Plane("c", w \div sw, h \div sh, dx \div sw)]]
Prop(typ, v) == [key |-> typ, typ |-> typ, essential |-> FALSE, v |-> v]
Uses(idx) == [i \in 1 .. Len(idx) |-> [idx |-> idx[i], essential |-> FALSE]]
Item(id, typ, idx) == [id |-> id, typ |-> typ, mime |-> "", props |-> Uses(idx), extents |-> <<[off |-> 100 * id, len |-> 30]>>]
File(s, c, apertures, turned, alpha, tiles) ==
    LET props == <<Prop("ispe", s), Prop("hvcC", <<c>>), Prop("hvcC", <<0>>), Prop("auxC", <<1>>)>> \o apertures \o turned
        trans == [i \in 1 .. Len(props) - 4 |-> i + 4]
        aux(id, to) == [typ |-> "auxl", from |-> id, to |-> <<to>>]
        cover == [Item(4, "hvc1", <<1, 3, 4>>) EXCEPT !.props[3].essential = TRUE]
    IN [primary |-> 1, props |-> props,
        items |-> IF tiles THEN <<Item(1, "grid", <<1>> \o trans), Item(2, "hvc1", <<2>>), Item(3, "hvc1", <<2>>)>>
                  ELSE <<Item(1, "hvc1", <<1, 2>> \o trans)>> \o IF alpha THEN <<cover>> ELSE <<>>,
        refs |-> IF tiles THEN <<[typ |-> "dimg", from |-> 1, to |-> <<2, 3>>]>>
                 ELSE IF alpha THEN <<aux(4, 1)>> ELSE <<>>,
        data |-> {[off |-> 200, p |-> Coded("y", 2, 4, c, 0)], [off |-> 300, p |-> Coded("y", 2, 4, c, 2)],
                  [off |-> 400, p |-> Coded("a", 4, 4, 0, 0)],
                  [off |-> 100, p |-> IF tiles THEN [kind |-> "grid", len |-> 30, body |-> [rows |-> 1, cols |-> 2, w |-> 4, h |-> 4]]
                                      ELSE Coded("y", 4, 4, c, 0)]}]
Apertures == {<<>>} \cup {<<Prop("clap", Aperture(w, 2, x, y))>> : w \in 2 .. 3, x \in {-2, -1, 0, 1}, y \in {-2, 0, 4}}
Turned == {<<>>} \cup {<<Prop("irot", <<a>>)>> : a \in 1 .. 3} \cup {<<Prop("imir", <<a>>)>> : a \in 0 .. 1}
          \cup {<<Prop("irot", <<a>>), Prop("imir", <<1>>)>> : a \in {1, 2}}
MCForeign == {File(s, c, k, r, a, t) : s \in {<<4, 4>>, <<3, 4>>}, c \in {1, 2}, k \in Apertures, r \in Turned, a \in BOOLEAN, t \in BOOLEAN}
             \cup {[File(<<4, 4>>, 1, <<>>, <<>>, FALSE, FALSE) EXCEPT !.props[1].typ = "new", !.items[1].props[1].essential = TRUE],
                   File(<<60, 40>>, 1, <<>>, <<>>, TRUE, FALSE)}

\* Image sequences: the samples of a track by chunk, each chunk after a gap or
\* ahead of the one before it, coded in the order they are shown in or not.
Total(nums) == FoldLeft(+, 0, nums)
Flat(chunks) == FlattenSeq(chunks)
Base(chunks, c, back) ==
    LET sizes == [k \in DOMAIN chunks |-> Total(chunks[k])]
    IN 5 + IF back THEN Total([k \in 1 .. Len(chunks) - c |-> sizes[c + k]]) ELSE 3 * c + Total([k \in 1 .. c - 1 |-> sizes[k]])
Runs(chunks) ==
    LET starts == {c \in DOMAIN chunks : c = 1 \/ Len(chunks[c]) # Len(chunks[c - 1])}
    IN SetToSortSeq({[first |-> c, per |-> Len(chunks[c])] : c \in starts}, LAMBDA x, y : x.first < y.first)
Even(chunks) == \A i \in DOMAIN Flat(chunks) : Flat(chunks)[i] = Flat(chunks)[1]
Track(handler, chunks, back, base, edits) ==
    [id |-> IF handler = "pict" THEN 1 ELSE 2, handler |-> handler, isAlpha |-> TRUE,
     auxl |-> IF handler = "pict" THEN <<>> ELSE <<1>>, timescale |-> 1, reorder |-> 1,
     count |-> Len(Flat(chunks)), uniform |-> IF Even(chunks) THEN Flat(chunks)[1] ELSE 0, sizes |-> Flat(chunks),
     offsets |-> [c \in DOMAIN chunks |-> base + Base(chunks, c, back)], runs |-> Runs(chunks),
     timing |-> <<[count |-> 1, delta |-> 4], [count |-> Len(Flat(chunks)), delta |-> 6]>>,
     hasEdits |-> edits.has, repeating |-> edits.repeats, duration |-> edits.duration, segmentDur |-> edits.segment]
\* The sample a chunk starts with, and what every sample shows.
Ahead(chunks, c) == Total([k \in 1 .. c - 1 |-> Len(chunks[k])])
Held(handler, chunks, back, base, ranks) ==
    {[off |-> base + Base(chunks, c, back) + Total(SubSeq(chunks[c], 1, i - 1)), len |-> chunks[c][i],
      pic |-> [trk |-> handler, rank |-> ranks[Ahead(chunks, c) + i]]] : <<c, i>> \in
        {ci \in (DOMAIN chunks) \X (1 .. 3) : ci[2] <= Len(chunks[ci[1]])}}
Once == [has |-> FALSE, repeats |-> FALSE, duration |-> 0, segment |-> 0]
Chunkings == {<<<<2>>>>, <<<<2, 2>>, <<2>>>>, <<<<2>>, <<3>>, <<4>>>>, <<<<1>>, <<3, 2>>>>, <<<<2, 1, 3>>>>,
              <<<<1, 2>>, <<3, 1>>, <<2>>>>, <<<<1>>, <<2, 2>>, <<2, 3>>>>, <<<<2>>, <<2, 2>>, <<2>>, <<2>>>>}
Ranks == {<<1, 2, 3, 4, 5>>, <<1, 3, 2, 5, 4>>, <<2, 1, 4, 3, 5>>}
Movie(chunks, back, ranks, edits, alpha) ==
    [tracks |-> <<[count |-> 0, handler |-> "pict"], Track("pict", chunks, back, 0, edits)>>
                \o IF alpha = <<>> THEN <<>> ELSE <<Track("auxv", alpha, ~back, 50, Once)>>,
     size |-> 100, whole |-> TRUE,
     payload |-> Held("pict", chunks, back, 0, ranks) \cup Held("auxv", alpha, ~back, 50, ranks)]
Edits == {[has |-> TRUE, repeats |-> r, duration |-> d, segment |-> n] : r \in BOOLEAN, d \in {0, 3, 4, 6, 99}, n \in {0, 2, 3, 6}}
WholeMovies == {Movie(c, b, r, Once, a) : c \in Chunkings, b \in BOOLEAN, r \in Ranks,
                                          a \in {<<>>, <<<<3>>>>, <<<<1>>, <<1, 2>>>>}}
               \cup {Movie(<<<<2>>>>, FALSE, <<1>>, e, <<>>) : e \in Edits}
\* Tables that are cut short, count too much, or lie behind the end of the file.
Damaged(m) == {[m EXCEPT !.whole = FALSE, !.size = n] : n \in {2, 9, 14}}
              \cup {[m EXCEPT !.whole = FALSE, !.tracks[2].offsets = SubSeq(@, 1, Len(@) - 1)],
                    [m EXCEPT !.whole = FALSE, !.tracks[2].runs = Tail(@)], [m EXCEPT !.whole = FALSE, !.tracks[2].count = @ - 1],
                    [m EXCEPT !.whole = FALSE, !.tracks[2].timescale = 0]}
MCMovies == WholeMovies \cup UNION {Damaged(m) : m \in WholeMovies}
=============================================================================
