------------------------------- MODULE Decoder -------------------------------
(***************************************************************************)
(* hevc.Decoder between its NAL units and its caller: DecodeNAL, Flush and *)
(* Reset of hevc/decoder.go, the decoded picture buffer of hevc/dpb.go and *)
(* the reference counts and buffer pool of hevc/picture.go.                *)
(*                                                                         *)
(* The decoder is sequential, so a call is one step; the methods are       *)
(* operators from one decoder state m to the next.  Pictures live in       *)
(* m.pics and are named by the order they were made in.  What is           *)
(* interesting happens between calls: NAL units are lost or damaged on the *)
(* way, and the caller releases pictures, flushes and resets when it likes.*)
(*                                                                         *)
(* A slice is abstract: it covers `len` of the `size` units its picture is *)
(* made of, from unit `addr` on.  Fields of a NAL unit that the decoder    *)
(* cannot see (au, meant) say what the encoder meant, and ghost fields of  *)
(* a picture (want, cvs, units, good) what became of it.                   *)
(***************************************************************************)
EXTENDS RefPicSet, FiniteSets, SequencesExt

CONSTANTS
    Streams,        \* the streams to consider: [nals : Seq(Nal), distinct : BOOLEAN]
    FrameSizeLimit, \* FrameSizeLimit(n), 0 for none
    PoolDepth,      \* picPoolDepth
    MaxFaults,      \* bound: NAL units lost or damaged
    MaxCalls        \* bound: calls of Flush and Reset

SpsIds == 1 .. 2
PpsIds == 1 .. 2

\* What the parsers of parameter sets and slice headers let through.
Sps == [size : Nat, reorder : Nat, latency : Nat, maxDecPicBuffering : Nat, maxLsb : Nat \ {0}]
Faults == {"none", "header", "tiles", "data"}
Slice == [kind : {"slice"}, typ : NalTypes, tid : Nat, au : Nat, first : BOOLEAN,
          dep : BOOLEAN, addr : Nat, len : Nat, lsb : Nat, s0 : Seq(ShortDelta),
          s1 : Seq(ShortDelta), lt : Seq(LongEntry), numSps : Nat, active : Nat \X Nat,
          mod : Seq(Nat) \X Seq(Nat), out : BOOLEAN, noOut : BOOLEAN, pps : PpsIds,
          meant : SUBSET Nat, fault : Faults, upto : Nat]
Nal == Slice
       \cup [kind : {"sps"}, id : SpsIds, sps : Sps, fault : Faults, upto : Nat]
       \cup [kind : {"pps"}, id : PpsIds, spsId : SpsIds, fault : Faults, upto : Nat]
       \cup [kind : {"eos", "other"}, fault : Faults, upto : Nat]

ASSUME DecoderAssumption == /\ FrameSizeLimit \in Nat /\ PoolDepth \in Nat
                            /\ MaxFaults \in Nat /\ MaxCalls \in Nat
                            /\ Streams \subseteq [nals : Seq(Nal), distinct : BOOLEAN]

VARIABLES
    m,          \* the decoder and the pictures it has made
    stream,     \* the stream on its way to it
    pos,        \* the next NAL unit of the stream
    faults,     \* how many did not arrive intact
    calls,      \* how often Flush and Reset were called
    intact,     \* no unit was lost or damaged and no call cut the stream short
    dropped     \* the pictures whose output the stream or the caller waived

vars == <<m, stream, pos, faults, calls, intact, dropped>>

None    == 0
NoBuf   == <<0, 0>>
NoSps   == [size |-> 0]
NoCtu   == [next |-> -1]
NoSlice == [kind |-> "none"]

\* The zero Decoder; pics, shown and cvs are the history beside it.
Zero(pics, shown, cvs) ==
    [sps |-> [i \in SpsIds |-> NoSps], pps |-> [i \in PpsIds |-> None],
     cur |-> None, curOut |-> FALSE, curLsb |-> 0, ctu |-> NoCtu, prevSlic |-> NoSlice,
     dpb |-> <<>>, free |-> <<>>, poc |-> ZeroPoc, curRPS |-> NoRPS,
     seenPicture |-> FALSE, skipRASL |-> FALSE,
     maxReorder |-> 0, maxLatency |-> 0, maxDecPicBuf |-> 0,
     pics |-> pics, shown |-> shown, cvs |-> cvs]

-----------------------------------------------------------------------------
(* picture.go *)

\* picPool.put: a full pool gives up buffers of another size, or takes none.
Put(free, buf) ==
    LET other == {k \in DOMAIN free : free[k][1] # buf[1]}
    IN  IF Len(free) < PoolDepth THEN Append(free, buf)
        ELSE IF other = {} THEN free
        ELSE [free EXCEPT ![CHOOSE k \in other : \A j \in other : k <= j] = buf]

\* picPool.get: the newest of this size, and the last one takes its place.
PooledAt(free, size) ==
    LET same == {k \in DOMAIN free : free[k][1] = size}
    IN  IF same = {} THEN None ELSE CHOOSE k \in same : \A j \in same : j <= k

Take(free, k) == Front([free EXCEPT ![k] = free[Len(free)]])

\* The pool once the planes of the pictures in `gone` are put into it, in the
\* order of the buffer, which is the order the pictures were made in.
PutAll(d, gone) ==
    LET pool[n \in 0 .. Len(d.pics)] ==
            IF n = 0 THEN d.free
            ELSE IF n \in gone THEN Put(pool[n - 1], d.pics[n].buf) ELSE pool[n - 1]
    IN  pool[Len(d.pics)]

\* Picture.release for every picture of S.
release(d, S) ==
    LET gone == {i \in S : d.pics[i].refs = 1}
        after(i) == IF i \in gone THEN [d.pics[i] EXCEPT !.refs = 0, !.buf = NoBuf]
                    ELSE IF i \in S /\ d.pics[i].refs > 0
                         THEN [d.pics[i] EXCEPT !.refs = @ - 1] ELSE d.pics[i]
    IN  [d EXCEPT !.pics = [i \in DOMAIN d.pics |-> after(i)], !.free = PutAll(d, gone)]

acquire(d, S) ==
    [d EXCEPT !.pics = [i \in DOMAIN d.pics |->
        IF i \in S THEN [d.pics[i] EXCEPT !.refs = @ + 1] ELSE d.pics[i]]]

\* Mutant of ReleasePicture: releasing twice gives up somebody else's hold.
ReleasePicture_twice(d, i) == release([d EXCEPT !.pics[i].released = TRUE], {i})

\* Picture.Release
ReleasePicture(d, i) ==
    IF d.pics[i].released THEN d
    ELSE release([d EXCEPT !.pics[i].released = TRUE], {i})

\* newPicture: planes from the pool if it has some of this size, or fresh ones.
newPicture(d, s, poc, tag, corrupt, want) ==
    LET k     == PooledAt(d.free, s.size)
        names == {d.pics[i].buf : i \in DOMAIN d.pics} \cup ToSet(d.free)
        fresh == CHOOSE b \in {<<s.size, n>> : n \in 1 .. Cardinality(names) + 1} : b \notin names
    IN  [d EXCEPT !.free = IF k = None THEN @ ELSE Take(@, k),
                  !.pics = Append(@, [poc |-> poc, tag |-> tag, corrupt |-> corrupt,
                                      refs |-> 1, released |-> FALSE,
                                      buf |-> IF k = None THEN fresh ELSE d.free[k],
                                      want |-> want, cvs |-> d.cvs, units |-> {},
                                      good |-> tag # None])]

SetCorrupt(d) == [d EXCEPT !.pics[d.cur].corrupt = TRUE]

-----------------------------------------------------------------------------
(* dpb.go *)

PocOf(d, i) == d.pics[d.dpb[i].pic].poc

\* The picture dpbFind returns: the first entry with that count.
dpbFind(d, poc) ==
    LET at == {i \in DOMAIN d.dpb : PocOf(d, i) = poc}
    IN  IF at = {} THEN None ELSE d.dpb[CHOOSE i \in at : \A j \in at : i <= j].pic

dpbMark(d, rps) ==
    LET long == ToSet(rps.lt \o rps.ltFoll)
        keep == ToSet(rps.before \o rps.after \o rps.foll) \cup long
    IN  [d EXCEPT !.dpb = [i \in DOMAIN d.dpb |->
            [d.dpb[i] EXCEPT !.ref = PocOf(d, i) \in keep,
                             !.longTerm = PocOf(d, i) \in long]]]

\* Mutant of dpbRemoveUnused: a reference goes as soon as it is output.
dpbRemoveUnused_output(d) ==
    LET kept(e) == e.output
    IN  release([d EXCEPT !.dpb = SelectSeq(@, kept)],
                {e.pic : e \in {x \in ToSet(d.dpb) : ~kept(x)}})

InUse(d) == {k \in DOMAIN d.dpb : d.dpb[k].ref \/ d.dpb[k].output}

dpbRemoveUnused(d) ==
    release([d EXCEPT !.dpb = Picked(@, InUse(d))],
            {d.dpb[k].pic : k \in DOMAIN d.dpb \ InUse(d)})

clearDPB(d) == release([d EXCEPT !.dpb = <<>>], {e.pic : e \in ToSet(d.dpb)})

Waiting(d) == {i \in DOMAIN d.dpb : d.dpb[i].output}

\* Mutant of Sooner: pictures leave in the order they were decoded in.
Sooner_decoded(d, i, j) == i < j

\* The order pictures leave in.
Sooner(d, i, j) == \/ PocOf(d, i) < PocOf(d, j)
                   \/ PocOf(d, i) = PocOf(d, j) /\ i < j

\* The caller takes a hold of its own on the picture that goes out first.
dpbBump(d) ==
    LET best == CHOOSE i \in Waiting(d) : \A j \in Waiting(d) : ~Sooner(d, j, i)
        p    == d.dpb[best].pic
    IN  IF Waiting(d) = {} THEN d
        ELSE dpbRemoveUnused(acquire([d EXCEPT !.dpb[best].output = FALSE,
                                               !.shown = Append(@, p)], {p}))

\* dpbBump called k times.
Bumped(d, k) ==
    LET bumped[n \in 0 .. k] == IF n = 0 THEN d ELSE dpbBump(bumped[n - 1])
    IN  bumped[k]

\* Bump for as long as `More` holds and something waits.
BumpWhile(d, More(_)) ==
    LET n == Cardinality(Waiting(d))
        stops == {k \in 0 .. n : k = n \/ ~More(Bumped(d, k))}
    IN  Bumped(d, CHOOSE k \in stops : \A j \in stops : k <= j)

BumpAll(d) == Bumped(d, Cardinality(Waiting(d)))

dpbFull(d, includeBuffering) ==
    \/ Cardinality(Waiting(d)) > d.maxReorder
    \/ /\ d.maxLatency # 0
       /\ \E i \in Waiting(d) : d.dpb[i].latency >= d.maxReorder + d.maxLatency - 1
    \/ includeBuffering /\ Len(d.dpb) >= d.maxDecPicBuf

\* Mutant of dpbDrain: a new picture is stored and nothing is let out for it.
dpbDrain_off(d, includeBuffering) == d

dpbDrain(d, includeBuffering) == BumpWhile(d, LAMBDA x : dpbFull(x, includeBuffering))

dpbStore(d, pic, output) ==
    LET older == [i \in DOMAIN d.dpb |-> IF output /\ d.dpb[i].output
                                         THEN [d.dpb[i] EXCEPT !.latency = @ + 1] ELSE d.dpb[i]]
    IN  [d EXCEPT !.dpb = Append(older, [pic |-> pic, ref |-> TRUE, longTerm |-> FALSE,
                                         output |-> output, latency |-> 0])]

\* A grey picture stands in for a reference that never came.
Grey(d, poc, s) ==
    LET y == newPicture(d, s, poc, None, TRUE, FALSE)
    IN  IF dpbFind(d, poc) # None THEN d
        ELSE [y EXCEPT !.dpb = Append(@, [pic |-> Len(y.pics), ref |-> TRUE, longTerm |-> FALSE,
                                          output |-> FALSE, latency |-> 0])]

\* 8.3.3, reference after reference.
generateUnavailable(d, rps, s) ==
    LET filled[n \in 0 .. Len(AllPocs(rps))] ==
            IF n = 0 THEN d ELSE Grey(filled[n - 1], AllPocs(rps)[n], s)
    IN  filled[Len(AllPocs(rps))]

-----------------------------------------------------------------------------
(* decoder.go *)

complete(d) == d.ctu.next = d.ctu.sps.size

\* Mutant of finishPicture: a picture with units missing passes for whole.
finishPicture_unmarked(d) ==
    IF d.cur = None THEN d
    ELSE dpbDrain([dpbStore(d, d.cur, d.curOut) EXCEPT !.cur = None, !.ctu = NoCtu], FALSE)

finishPicture(d) ==
    IF d.cur = None THEN d
    ELSE LET marked == IF complete(d) THEN d ELSE SetCorrupt(d)
         IN  dpbDrain([dpbStore(marked, d.cur, d.curOut) EXCEPT !.cur = None, !.ctu = NoCtu],
                      FALSE)

missingRefs(d, rps) == Cardinality({n \in DOMAIN AllPocs(rps) : dpbFind(d, AllPocs(rps)[n]) = None})

\* 8.3.3 for a picture that predicts: pending output leaves room for the grey
\* pictures first.
FillGaps(d, sh, s) ==
    IF sh.active[1] = 0 THEN d
    ELSE generateUnavailable(
           BumpWhile(d, LAMBDA x : Len(x.dpb) + missingRefs(d, d.curRPS) + 1 > x.maxDecPicBuf),
           d.curRPS, s)

\* Mutant of MakeRoom: a random access point is treated like any other picture,
\* and what waits from before it stays.
MakeRoom_stays(d, sh, restarts) == dpbDrain(dpbRemoveUnused(dpbMark(d, d.curRPS)), TRUE)

\* C.5.2.2: a random access point that starts a sequence empties the buffer,
\* any other picture lets go of what its reference picture set leaves out.
MakeRoom(d, sh, restarts) ==
    IF restarts
    THEN clearDPB(IF ~sh.noOut /\ sh.typ # "CRA" THEN BumpAll(d) ELSE d)
    ELSE dpbDrain(dpbRemoveUnused(dpbMark(d, d.curRPS)), TRUE)

\* The limits, the picture order count and the reference picture set of the
\* new picture, while the one before is in the buffer.
Activate(d, sh, s, st, poc, restarts) ==
    LET refs == Picked(d.dpb, {k \in DOMAIN d.dpb : d.dpb[k].ref})
    IN  [d EXCEPT !.maxReorder = s.reorder, !.maxLatency = s.latency,
                  !.maxDecPicBuf = s.maxDecPicBuffering + 1,
                  !.poc = update(st, sh.typ, sh.tid, poc, sh.lsb),
                  !.curRPS = resolveLongTerm(
                      deriveRefPicSet(poc, s.maxLsb, sh.s0, sh.s1, sh.lt, sh.numSps),
                      [i \in DOMAIN refs |-> d.pics[refs[i].pic].poc], s.maxLsb),
                  !.cvs = IF restarts THEN @ + 1 ELSE @]

\* The new picture becomes the one in progress.
Open(d, sh, s) ==
    [d EXCEPT !.cur = Len(d.pics), !.curLsb = sh.lsb, !.curOut = sh.out,
              !.ctu = [sps |-> s, pps |-> sh.pps, next |-> 0]]

\* The part of decodeSlice behind firstSliceSegmentInPic: the picture before is
\* finished, C.5.2.2 makes room, and the new picture takes its place.
StartPicture(d, sh, s) ==
    LET noRasl == IsIRAP(sh.typ) /\ d.skipRASL
        prior  == d.cur # None \/ d.dpb # <<>>
        st     == IF noRasl THEN ZeroPoc ELSE d.poc
        poc    == derivePOC(st, sh.typ, sh.lsb, s.maxLsb, noRasl)
    IN  Open(newPicture(
               FillGaps(
                 MakeRoom(
                   Activate(finishPicture(d), sh, s, st, poc, noRasl),
                   sh, noRasl /\ prior),
                 sh, s),
               s, poc, sh.au, FALSE, sh.out), sh, s)

\* The pictures a slice predicts from, 0 for one that is not there.
References(d, sh) ==
    LET list(l) == buildRefPicList(d.curRPS, sh.active[l], sh.mod[l] # <<>>, sh.mod[l], l = 2)
    IN  {dpbFind(d, poc) : poc \in UNION {ToSet(list(l)) : l \in {l \in 1 .. 2 : sh.active[l] > 0}}}

\* Mutant of buildRefLists: a corrupt reference counts as a good one.
buildRefLists_trust(d, sh) ==
    IF None \in References(d, sh) THEN SetCorrupt(d) ELSE d

buildRefLists(d, sh) ==
    IF \E r \in References(d, sh) : r = None \/ d.pics[r].corrupt THEN SetCorrupt(d) ELSE d

\* Ghost: every unit the encoder put into the picture's access unit is in it,
\* predicted from the pictures it was meant to be.
Whole(d, i) == /\ d.pics[i].good
               /\ d.pics[i].units = {n \in DOMAIN stream.nals :
                     stream.nals[n].kind = "slice" /\ stream.nals[n].au = d.pics[i].tag}

Decoded(d, nal, refs, n) ==
    LET meant == /\ nal.au = d.pics[d.cur].tag
                 /\ None \notin refs
                 /\ {d.pics[r].tag : r \in refs} = nal.meant
                 /\ \A r \in refs : Whole(d, r)
    IN  [d EXCEPT !.pics[d.cur].units = @ \cup {n}, !.pics[d.cur].good = @ /\ meant]

\* decodeSliceData and what decodeSlice does with its result.  A damaged slice
\* stops making sense `upto` units later, perhaps behind its own end; one that
\* runs past the picture, made for a larger one, fails as well.
SliceData(d, nal, sh, n) ==
    LET size  == d.ctu.sps.size
        end   == sh.addr + (IF nal.fault = "data" THEN nal.upto ELSE sh.len)
        fails == nal.fault = "data" \/ end > size
        gap   == IF sh.addr > d.ctu.next THEN SetCorrupt(d) ELSE d
        done  == IF end = sh.addr THEN gap
                 ELSE [gap EXCEPT !.ctu.next = IF end > size THEN size ELSE end]
        whole == Decoded(done, nal, References(d, sh), n)
    IN  IF sh.addr < d.ctu.next THEN SetCorrupt(d)
        ELSE IF fails THEN SetCorrupt(done)
        ELSE IF complete(whole) THEN finishPicture(whole) ELSE whole

\* sliceHeader.inherit
inherit(nal, prev) ==
    [prev EXCEPT !.addr = nal.addr, !.len = nal.len, !.first = nal.first, !.dep = nal.dep,
                 !.typ = nal.typ, !.pps = nal.pps, !.noOut = nal.noOut]

\* The errors that decodeSlice returns before it changes anything.
Refused(d, nal, active, s) ==
    \/ d.pps[nal.pps] = None
    \/ d.sps[d.pps[nal.pps]] = NoSps
    \/ active /\ nal.pps # d.ctu.pps
    \/ FrameSizeLimit > 0 /\ s.size > FrameSizeLimit
    \/ nal.fault = "header"
    \/ nal.addr >= s.size
    \/ nal.dep /\ d.prevSlic = NoSlice

\* A segment is of the picture in progress if it has its least significant bits.
IntoPicture(d, nal, sh, n) ==
    IF d.cur = None \/ sh.lsb # d.curLsb THEN d
    ELSE SliceData(buildRefLists(d, sh), nal, sh, n)

DecodeSegment(d, nal, sh, s, n) ==
    IF nal.fault = "tiles" THEN d
    ELSE IntoPicture(IF sh.first THEN StartPicture(d, sh, s) ELSE d, nal, sh, n)

decodeSlice(d, nal, n) ==
    LET active == ~nal.first /\ d.ctu # NoCtu
        s == IF active THEN d.ctu.sps ELSE d.sps[d.pps[nal.pps]]
        sh == IF nal.dep THEN inherit(nal, d.prevSlic) ELSE nal
    IN  IF Refused(d, nal, active, s) THEN d
        ELSE DecodeSegment(IF nal.dep THEN d ELSE [d EXCEPT !.prevSlic = nal], nal, sh, s, n)

\* DecodeNAL for the n-th unit of the stream.
DecodeNAL(d, nal, n) ==
    CASE nal.kind = "sps" -> IF nal.fault # "none" THEN d ELSE [d EXCEPT !.sps[nal.id] = nal.sps]
      [] nal.kind = "pps" -> IF nal.fault # "none" THEN d ELSE [d EXCEPT !.pps[nal.id] = nal.spsId]
      [] nal.kind = "eos" -> [d EXCEPT !.seenPicture = FALSE]
      [] nal.kind = "other" -> d
      [] nal.kind = "slice" ->
           LET starts == IsIRAP(nal.typ) /\ nal.first
               skip == IF starts THEN ~d.seenPicture \/ nal.typ \in {"IDR", "BLA"}
                       ELSE d.skipRASL
               seen == [d EXCEPT !.skipRASL = skip, !.seenPicture = @ \/ starts]
           IN  IF skip /\ IsRASL(nal.typ) THEN seen
               ELSE decodeSlice([seen EXCEPT !.seenPicture = TRUE], nal, n)

endSequence(d) ==
    clearDPB([d EXCEPT !.cur = None, !.ctu = NoCtu, !.prevSlic = NoSlice,
                       !.curRPS = NoRPS, !.poc = ZeroPoc,
                       !.seenPicture = FALSE, !.skipRASL = FALSE])

\* Mutant of FlushAll: the picture in progress is forgotten.
FlushAll_cur(d) == endSequence(BumpAll(d))

FlushAll(d) == endSequence(BumpAll(finishPicture(d)))

ResetAll(d) ==
    LET kept == clearDPB(IF d.cur = None THEN d ELSE release(d, {d.cur}))
    IN  Zero(kept.pics, kept.shown, kept.cvs)

-----------------------------------------------------------------------------
Init ==
    /\ m = Zero(<<>>, <<>>, 0)
    /\ stream \in Streams
    /\ pos = 1
    /\ faults = 0
    /\ calls = 0
    /\ intact = TRUE
    /\ dropped = {}

\* The pictures that will never be returned if not by now.
Waived(d) == {i \in DOMAIN d.pics : i \notin ToSet(d.shown)}

\* A random access point that starts a sequence may waive what was not output
\* before it: by its flag, and always if it is a clean one.
WaivedBy(nal, before, after) ==
    IF /\ nal.kind = "slice" /\ nal.first /\ IsIRAP(nal.typ)
       /\ after.cvs > before.cvs /\ (nal.noOut \/ nal.typ = "CRA")
    THEN {i \in Waived(after) : i <= Len(before.pics)}
    ELSE {}

Deliver ==
    /\ pos <= Len(stream.nals)
    /\ m' = DecodeNAL(m, stream.nals[pos], pos)
    /\ dropped' = dropped \cup WaivedBy(stream.nals[pos], m, m')
    /\ pos' = pos + 1
    /\ UNCHANGED <<stream, faults, calls, intact>>

\* A damaged unit still reaches the decoder: its header or parameter set does
\* not parse, its tile grid does not fit, or its slice data stops making sense.
Damage ==
    /\ pos <= Len(stream.nals) /\ faults < MaxFaults
    /\ \E f \in {"header", "tiles", "data"}, upto \in 0 .. 2 :
          LET nal == stream.nals[pos]
              bad == [nal EXCEPT !.fault = f, !.upto = upto]
          IN  /\ f # "header" => nal.kind = "slice"
              /\ f = "tiles" => nal.first
              /\ f # "data" => upto = 0
              /\ m' = DecodeNAL(m, bad, pos)
              /\ dropped' = dropped \cup WaivedBy(nal, m, m')
    /\ pos' = pos + 1
    /\ faults' = faults + 1
    /\ intact' = FALSE
    /\ UNCHANGED <<stream, calls>>

Lose ==
    /\ pos <= Len(stream.nals) /\ faults < MaxFaults
    /\ pos' = pos + 1
    /\ faults' = faults + 1
    /\ intact' = FALSE
    /\ UNCHANGED <<m, stream, calls, dropped>>

\* The caller releases a picture it was given, perhaps not for the first time.
Release(i) ==
    /\ i \in ToSet(m.shown)
    /\ m' = ReleasePicture(m, i)
    /\ UNCHANGED <<stream, pos, faults, calls, intact, dropped>>

Flush ==
    /\ calls < MaxCalls
    /\ m' = FlushAll(m)
    /\ calls' = calls + 1
    /\ intact' = (intact /\ pos > Len(stream.nals))
    /\ UNCHANGED <<stream, pos, faults, dropped>>

Reset ==
    /\ calls < MaxCalls
    /\ m' = ResetAll(m)
    /\ dropped' = dropped \cup Waived(m')
    /\ calls' = calls + 1
    /\ intact' = (intact /\ pos > Len(stream.nals))
    /\ UNCHANGED <<stream, pos, faults>>

Next == Deliver \/ Damage \/ Lose \/ Flush \/ Reset \/ \E i \in DOMAIN m.pics : Release(i)

Spec == Init /\ [][Next]_vars

-----------------------------------------------------------------------------
Pics == DOMAIN m.pics
Shown == ToSet(m.shown)
InBuffer(i) == \E k \in DOMAIN m.dpb : m.dpb[k].pic = i

TypeOK ==
    /\ m.cur \in Pics \cup {None}
    /\ m.cur = None <=> m.ctu = NoCtu
    /\ m.cur # None => m.ctu.next \in 0 .. m.ctu.sps.size
    /\ \A k \in DOMAIN m.dpb : m.dpb[k].pic \in Pics
    /\ m.shown \in Seq(Pics)
    /\ \A i \in Pics : m.pics[i].refs \in Nat /\ m.pics[i].poc \in Int
    /\ dropped \subseteq Pics

\* A picture's planes are held exactly by who may still read them: the decoder
\* while the picture is decoded or in the buffer, and the caller until it
\* releases it.  Nothing is held for ever, nothing is given up early.
HoldsExact ==
    \A i \in Pics :
        /\ m.pics[i].refs = (IF i = m.cur \/ InBuffer(i) THEN 1 ELSE 0)
                            + (IF i \in Shown /\ ~m.pics[i].released THEN 1 ELSE 0)
        /\ i = m.cur => ~InBuffer(i)
        /\ \A j, k \in DOMAIN m.dpb : m.dpb[j].pic = i /\ m.dpb[k].pic = i => j = k

\* The planes of a picture that the decoder or the caller may still read are
\* there, not in the pool and no other picture's.
NoAlias ==
    \A i \in Pics :
        i = m.cur \/ InBuffer(i) \/ (i \in Shown /\ ~m.pics[i].released) =>
            /\ m.pics[i].buf # NoBuf
            /\ m.pics[i].buf \notin ToSet(m.free)
            /\ \A j \in Pics \ {i} : m.pics[j].buf # m.pics[i].buf

\* Every picture that is to be output is returned exactly once, unless the
\* stream waived it (no_output_of_prior_pics_flag, a CRA that starts a
\* sequence) or the caller did (Reset); until then it is in the decoder.
OutputOnce ==
    /\ \A j, k \in DOMAIN m.shown : m.shown[j] = m.shown[k] => j = k
    /\ \A i \in Pics :
          \/ m.pics[i].want /\ i \in Shown
          \/ ~m.pics[i].want /\ i \notin Shown
          \/ i = m.cur
          \/ \E k \in DOMAIN m.dpb : m.dpb[k].pic = i /\ m.dpb[k].output
          \/ i \in dropped

\* Sequences leave in the order they came, whatever the limits and the counts of
\* their pictures are, and whatever was lost of them.
OutputOrder ==
    \A j, k \in DOMAIN m.shown :
        j < k => m.pics[m.shown[j]].cvs <= m.pics[m.shown[k]].cvs

\* Between two calls nothing waits that C.5.2.3 would let out.
WithinLimits == ~dpbFull(m, FALSE)

\* decoder.go:80: "A picture that lost a slice, failed partway, or was predicted
\* from a reference the stream never delivered still comes out, with Corrupt
\* set."  Here: what comes out without it is whole.
CorruptIsFlagged == \A i \in Shown : ~m.pics[i].corrupt => Whole(m, i)

\* It is, as long as every slice says which picture it is of: the stream is one
\* sequence, so that no two pictures share a picture order count, and has no
\* dependent slice segments, which have none of their own.  With nothing lost,
\* no picture is marked, those of a sequence leave in the order of their counts,
\* and the buffer never holds more than the stream declared.
OutputAsSent ==
    /\ stream.distinct => CorruptIsFlagged
    /\ intact =>
          /\ \A i \in Shown : ~m.pics[i].corrupt /\ Whole(m, i)
          /\ \A j, k \in DOMAIN m.shown :
                j < k /\ m.pics[m.shown[j]].cvs = m.pics[m.shown[k]].cvs =>
                    m.pics[m.shown[j]].poc < m.pics[m.shown[k]].poc
          /\ m.maxDecPicBuf > 0 =>
                Len(m.dpb) + (IF m.cur = None THEN 0 ELSE 1) <= m.maxDecPicBuf
=============================================================================
