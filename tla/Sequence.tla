------------------------------ MODULE Sequence ------------------------------
(***************************************************************************)
(* Image sequences of heic/sequence.go: where the sample tables of a track *)
(* put its samples, and how decodeSequence turns the picture track and the *)
(* alpha track into frames, all of them (DecodeAll) or the first (Decode). *)
(*                                                                         *)
(* A sample is coded in one order and shown in another.  The decoder is    *)
(* Decoder's: it holds `reorder` pictures back and gives out the one that  *)
(* is shown first.  A picture is its track and its place in that order.    *)
(***************************************************************************)
EXTENDS FiniteSets, FiniteSetsExt, Integers, Sequences, SequencesExt

CONSTANTS
    Movies,         \* [tracks, size, payload]: the moov box, and what the file holds
    MaxFrames,      \* Options.MaxFrames
    MaxLoops,       \* math.MaxInt32
    indefiniteDuration

VARIABLES
    movie,      \* the file
    want,       \* how many frames are asked for, 0 for all
    on,         \* what runs: "idle", or decodeTrack for "pict" or "auxv"
    s,          \* samples handed to the decoder
    held,       \* pictures it holds back
    out,        \* pictures it has given out
    colors,     \* the pictures of the picture track, when the alpha is decoded
    got         \* got[want]: what the call returned

vars == <<movie, want, on, s, held, out, colors, got>>

Fail(e) == [err |-> e]
Pending == Fail("pending")
Known(w) == got[w].err # "pending"
NoTrack == [count |-> 0]
First(ts) == IF ts = <<>> THEN NoTrack ELSE ts[1]
Sum(nums) == FoldLeft(+, 0, nums)

-----------------------------------------------------------------------------
pictTrack(m) == First(SelectSeq(m.tracks, LAMBDA t : t.handler = "pict" /\ t.count > 0))
alphaTrack(m, id) ==
    First(SelectSeq(m.tracks, LAMBDA t : t.handler = "auxv" /\ t.count > 0 /\ t.isAlpha /\ id \in ToSet(t.auxl)))
Track == IF on = "pict" THEN pictTrack(movie) ELSE alphaTrack(movie, pictTrack(movie).id)

\* Samples of chunk c: the runs go up to the first that starts after it.
\* Mutant of perChunk: chunks are counted from zero, as the loop counts them.
perChunk_zero(t, c) ==
    LET begun == {i \in DOMAIN t.runs : \A j \in 1 .. i : t.runs[j].first <= c - 1}
    IN IF begun = {} THEN 0 ELSE t.runs[Max(begun)].per

perChunk(t, c) ==
    LET begun == {i \in DOMAIN t.runs : \A j \in 1 .. i : t.runs[j].first <= c}
    IN IF begun = {} THEN 0 ELSE t.runs[Max(begun)].per

\* layout: one chunk after the other, and in a chunk one sample after the other.
SizeOf(t, i) == IF t.uniform # 0 THEN t.uniform ELSE t.sizes[i]
Chunk(t, c, a) ==
    [i \in 1 .. Min({perChunk(t, c), t.count - a}) |->
        [off |-> t.offsets[c] + Sum([j \in 1 .. i - 1 |-> SizeOf(t, a + j)]), len |-> SizeOf(t, a + i)]]
layout(t) == FoldLeft(LAMBDA acc, c : acc \o Chunk(t, c, Len(acc)), <<>>, [c \in DOMAIN t.offsets |-> c])
LaidOut(t, size) == /\ t.count # 0 /\ t.offsets # <<>> /\ t.runs # <<>> /\ t.count <= size
                    /\ t.count * t.uniform <= size /\ layout(t) # <<>>

\* track.delta of the frame after i others, 0 if the table ends before it.
delta(t, i) ==
    LET upTo(n) == Sum([k \in 1 .. n |-> t.timing[k].count])
        over == {n \in DOMAIN t.timing : i < upTo(n)}
    IN IF over = {} THEN 0 ELSE t.timing[Min(over)].delta

loopCount(t) ==
    LET n == t.duration \div t.segmentDur + IF t.duration % t.segmentDur # 0 THEN 1 ELSE 0
    IN IF ~t.hasEdits THEN 0
       ELSE IF ~t.repeating THEN -1
       ELSE IF t.duration \in {indefiniteDuration, 0} \/ t.segmentDur = 0 THEN 0
       ELSE IF n <= 1 THEN -1 ELSE IF n - 1 > MaxLoops THEN 0 ELSE n - 1

-----------------------------------------------------------------------------
(* External: the decoder, and the file it is fed from. *)
Shown(pics) == SetToSortSeq(pics, LAMBDA p, q : p.rank < q.rank)
Given(pics, reorder) == SubSeq(Shown(pics), 1, Max({0, Cardinality(pics) - reorder}))
At(e) == {x.pic : x \in {x \in movie.payload : x.off = e.off /\ x.len = e.len}}

-----------------------------------------------------------------------------
Init == /\ movie \in Movies
        /\ want = 0 /\ on = "idle" /\ s = 0 /\ held = {} /\ out = <<>> /\ colors = <<>>
        /\ got = [w \in {0, 1} |-> Pending]

Return(r) == /\ got' = [got EXCEPT ![want] = r]
             /\ on' = "idle" /\ s' = 0 /\ held' = {} /\ out' = <<>> /\ colors' = <<>>
             /\ UNCHANGED <<movie, want>>

\* decodeSequence up to the first decodeTrack.  No track to decode, or no time
\* to show it in, and the still is decoded instead.
Tables(t) == IF LaidOut(t, movie.size) THEN "ok" ELSE "invalid"
Begin(w) ==
    LET t  == pictTrack(movie)
        at == alphaTrack(movie, t.id)
        err == IF t.count = 0 \/ t.timescale = 0 THEN "still"
               ELSE IF w = 0 /\ (t.count > MaxFrames \/ at.count > MaxFrames) THEN "unsupported"
               ELSE Tables(t)
    IN /\ on = "idle" /\ ~Known(w)
       /\ want' = w
       /\ IF err = "ok" THEN on' = "pict" /\ got' = got
          ELSE on' = "idle" /\ got' = [got EXCEPT ![w] = Fail(err)]
       /\ UNCHANGED <<movie, s, held, out, colors>>

\* One sample of decodeTrack.
Enough == s = Len(layout(Track)) \/ (want > 0 /\ Len(out) >= want)
DecodeSample ==
    LET e == layout(Track)[s + 1]
        pics == held \cup At(e)
        go == Given(pics, Track.reorder)
    IN /\ on # "idle" /\ ~Enough
       /\ IF e.len = 0 \/ e.off + e.len > movie.size \/ At(e) = {} THEN Return(Fail("invalid"))
          ELSE /\ s' = s + 1 /\ out' = out \o go /\ held' = pics \ ToSet(go)
               /\ UNCHANGED <<movie, want, on, colors, got>>

\* The end of decodeTrack: what is held back is flushed, but not for frames
\* nobody wants.
\* Mutant of Flushed: a decoder that was asked for one frame is never flushed.
Flushed_never(outs, pics) == IF want = 0 THEN outs \o Shown(pics) ELSE outs

Flushed(outs, pics) == IF want = 0 \/ Len(outs) < want THEN outs \o Shown(pics) ELSE outs
Wanted(outs) == IF want > 0 THEN SubSeq(outs, 1, Min({want, Len(outs)})) ELSE outs
Pictures == Wanted(Flushed(out, held))

\* The rest of decodeSequence: frames, as many as there are colors.
Frames(pics, alphas) ==
    [i \in DOMAIN pics |-> [color |-> pics[i], alpha |-> IF i \in DOMAIN alphas THEN alphas[i] ELSE NoTrack,
                            delay |-> delta(pictTrack(movie), i - 1)]]
Sequence(pics, alphas) ==
    IF pics = <<>> THEN Fail("still")
    ELSE [err |-> "none", frames |-> Frames(pics, alphas), loop |-> loopCount(pictTrack(movie))]

EndOfColors ==
    LET at == alphaTrack(movie, pictTrack(movie).id) IN
    /\ on = "pict" /\ Enough
    /\ IF at = NoTrack THEN Return(Sequence(Pictures, <<>>))
       ELSE IF Tables(at) # "ok" THEN Return(Fail("invalid"))
       ELSE /\ on' = "auxv" /\ colors' = Pictures /\ s' = 0 /\ held' = {} /\ out' = <<>>
            /\ UNCHANGED <<movie, want, got>>

EndOfAlphas == on = "auxv" /\ Enough /\ Return(Sequence(colors, Pictures))

Next == (\E w \in {0, 1} : Begin(w)) \/ DecodeSample \/ EndOfColors \/ EndOfAlphas
Spec == Init /\ [][Next]_vars

-----------------------------------------------------------------------------
\* The pictures of a track in the order they are shown in, and how long each is.
CodedOf(handler) == Shown({x.pic : x \in {x \in movie.payload : x.pic.trk = handler}})
Times(t) == FlattenSeq([n \in DOMAIN t.timing |-> [i \in 1 .. t.timing[n].count |-> t.timing[n].delta]])

InOrder(t, r) ==
    LET as == CodedOf("auxv") IN
    /\ [i \in DOMAIN r.frames |-> r.frames[i].color] = CodedOf("pict")
    /\ \A i \in DOMAIN r.frames : /\ r.frames[i].alpha = IF i <= Len(as) THEN as[i] ELSE NoTrack
                                  /\ r.frames[i].delay = Times(t)[i]
PlaysOut(t, loop) ==
    LET plays == IF loop = -1 THEN 1 ELSE loop + 1 IN
    t.hasEdits /\ t.repeating /\ t.duration \notin {0, indefiniteDuration} /\ t.segmentDur > 0 =>
        IF loop = 0 THEN t.duration > (MaxLoops + 1) * t.segmentDur
        ELSE (plays - 1) * t.segmentDur < t.duration /\ t.duration <= plays * t.segmentDur

\* Whatever the tables say, no frame is shown twice, out of order or made up, and
\* the plays fill the track.
Genuine(r) == /\ \A i, j \in DOMAIN r.frames : i < j => r.frames[i].color.rank < r.frames[j].color.rank
              /\ \A i \in DOMAIN r.frames : r.frames[i].color \in ToSet(CodedOf("pict"))
              /\ PlaysOut(pictTrack(movie), r.loop)

\* A whole file is shown, unless it has more frames than are allowed: every frame
\* in its order, with its own alpha and for its own time, and by Decode the first.
Allowed == Len(CodedOf("pict")) <= MaxFrames /\ Len(CodedOf("auxv")) <= MaxFrames
Complete == /\ Known(0) => got[0].err = (IF Allowed THEN "none" ELSE "unsupported")
            /\ got[0].err = "none" => InOrder(pictTrack(movie), got[0])
            /\ Known(1) => got[1].err = "none" /\ Len(got[1].frames) = 1
            /\ Known(1) /\ got[0].err = "none" => got[1].frames[1] = got[0].frames[1]

\* DecodeAll and Decode on sequences, for every chunking of the samples, order of
\* coding and table that is cut short.
FramesAsCoded ==
    /\ \A w \in {0, 1} : got[w].err = "none" => Genuine(got[w])
    /\ movie.whole => Complete
=============================================================================
