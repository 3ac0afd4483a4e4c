------------------------------- MODULE BoxWalk -------------------------------
(***************************************************************************)
(* The two ways heic/heic.go walks the top level of a file: parse, which   *)
(* addresses it by range and sees all of it, and parseHeader, which reads  *)
(* it as a stream and stops as soon as it knows a configuration.           *)
(*                                                                         *)
(* A box is its type, how its size field relates to what is left of the    *)
(* file (`ends`), and what its payload says.  A meta box says how its      *)
(* primary item stands and whether the item has a usable size, a moov box  *)
(* whether there is a picture track that can be described and decoded.     *)
(*                                                                         *)
(* The stream buffers no more of a box than maxHeaderBox: a meta or moov   *)
(* box with a longer payload is `big`, and `prefix` is the box that so     *)
(* much of its payload makes.  Only the last box of a file can leave its   *)
(* end open or miss it.  Its `ends` is "toEnd" where the size is left out, *)
(* "over" where it points past the file, "wide" where it is a 64-bit one   *)
(* of zero or of more than an int64 holds, "short" where it is below that  *)
(* of the header, "cut" where the 64-bit size is missing, and "tail" for   *)
(* fewer bytes than a header.                                              *)
(***************************************************************************)
EXTENDS FiniteSets, Integers, Sequences

CONSTANT Files      \* the files to consider: sequences of boxes

BoxAssumption ==
    \A f \in Files : LET boxes == {f[i] : i \in DOMAIN f} IN
        /\ f \in Seq(boxes)
        /\ \A b \in boxes : {"typ", "ends", "big"} \subseteq DOMAIN b
        /\ \A i \in DOMAIN f : f[i].ends # "sized" => i = Len(f)
ASSUME BoxAssumption

VARIABLES
    file,       \* the file that is read
    parsed,     \* what parse knows so far
    next,       \* the box source.eachBox is at
    header,     \* what parseHeader knows so far
    hnext       \* the box eachBoxReader is at

vars == <<file, parsed, next, header, hnext>>

None == [says |-> "none"]
Unread == [seen |-> FALSE, meta |-> None, movie |-> None, status |-> "walk"]

-----------------------------------------------------------------------------
\* What a walk does with a box it looks into; only the first of a kind counts.
Failed(f, err) == [f EXCEPT !.status = err]
WithMeta(f, b) == IF f.meta # None THEN f
                  ELSE IF b.says = "broken" THEN Failed(f, "invalid") ELSE [f EXCEPT !.meta = b]
WithMovie(f, b) == IF f.movie # None THEN f
                   ELSE IF b.says = "broken" THEN Failed(f, "invalid") ELSE [f EXCEPT !.movie = b]
Take(f, b) == CASE b.typ = "ftyp" -> [f EXCEPT !.seen = TRUE]
                [] b.typ = "meta" -> WithMeta(f, b)
                [] b.typ = "moov" -> WithMovie(f, b)
                [] OTHER -> f
Ended(f) == IF ~f.seen \/ (f.meta = None /\ f.movie = None) THEN Failed(f, "invalid")
            ELSE Failed(f, "ok")

\* file.primary: how the item a file describes itself with stands.
primary(f) == IF f.meta = None THEN "invalid" ELSE f.meta.primary

\* file.config: the item, or the picture track of a file without a usable one.
config(f) ==
    IF primary(f) = "ok" THEN IF f.meta.sized THEN <<"item", f.meta.says>> ELSE <<"invalid">>
    ELSE IF f.movie = None THEN <<primary(f)>>
    ELSE IF f.movie.track THEN <<"track", f.movie.says>> ELSE <<"invalid">>
Configured(f) == Len(config(f)) = 2

\* decodeStill: what is decoded, by the same rule.
decodeStill(f) ==
    IF primary(f) = "ok" THEN <<"item", f.meta.says>>
    ELSE IF f.movie = None \/ ~f.movie.track THEN <<"invalid">> ELSE <<"track", f.movie.says>>

-----------------------------------------------------------------------------
\* source.eachBox checks every box against the size of the file, and parse
\* gives up on the low overhead profile.
Readable(b) == b.ends \notin {"cut", "short", "over", "wide"}
ParseBox(f, b) ==
    IF b.ends = "tail" THEN f
    ELSE IF ~Readable(b) THEN Failed(f, "invalid")
    ELSE CASE b.typ = "mini" -> Failed(f, "unsupported")
           [] OTHER -> Take(f, b)

\* eachBoxReader only misses what a box it reads does not have.
Held(f, b) == \/ b.typ = "meta" /\ f.meta # None
              \/ b.typ = "moov" /\ f.movie # None
              \/ b.typ \notin {"meta", "moov"}

\* boxBytes fails for a payload it would read and that is not there, or is longer
\* than maxHeaderBox.  Where no length is known it gets what the limit leaves.
Refused(f, b)   == ~Held(f, b) /\ (b.ends = "over" \/ (b.ends = "sized" /\ b.big))
Truncated(f, b) == ~Held(f, b) /\ b.ends \in {"toEnd", "wide"} /\ b.big
boxBytes(f, b)  == IF Truncated(f, b) THEN b.prefix ELSE b

\* Mutant of Stops: a configuration from a picture track ends the walk as well.
Stops_moov(f, b) == (b.typ \in {"ftyp", "moov"} \/ (b.typ = "meta" /\ ~Held(f, b))) /\ Take(f, b).seen

\* Only a configuration known behind an ftyp or a first meta box ends the walk.
Stops(f, b) == (b.typ = "ftyp" \/ (b.typ = "meta" /\ ~Held(f, b))) /\ Take(f, b).seen
HeaderBox(f, b) ==
    LET got == boxBytes(f, b)
        g   == Take(f, got)
    IN  IF b.ends = "tail" THEN f
        ELSE IF b.ends \in {"cut", "short"} \/ Refused(f, b) THEN Failed(f, "invalid")
        ELSE IF g.status = "walk" /\ Stops(f, got) /\ Configured(g) THEN Failed(g, "ok") ELSE g

-----------------------------------------------------------------------------
Init == /\ file \in Files
        /\ parsed = Unread /\ next = 1
        /\ header = Unread /\ hnext = 1

Parse == /\ parsed.status = "walk"
         /\ parsed' = IF next > Len(file) THEN Ended(parsed) ELSE ParseBox(parsed, file[next])
         /\ next' = next + 1
         /\ UNCHANGED <<file, header, hnext>>

ParseHeader == /\ parsed.status # "walk" /\ header.status = "walk"
               /\ header' = IF hnext > Len(file) THEN Ended(header) ELSE HeaderBox(header, file[hnext])
               /\ hnext' = hnext + 1
               /\ UNCHANGED <<file, parsed, next>>

Next == Parse \/ ParseHeader
Spec == Init /\ [][Next]_vars

-----------------------------------------------------------------------------
\* There is one file type box, ahead of what it describes (14496-12, 4.3).
TypeFirst == /\ Cardinality({i \in DOMAIN file : file[i].typ = "ftyp"}) = 1
             /\ \A i, j \in DOMAIN file : file[i].typ = "ftyp" /\ file[j].typ \in {"meta", "moov"} => i < j

\* The first meta or moov box, which is the one both walks look into, is longer
\* than the stream is ready to buffer.
Oversized(i) == /\ file[i].typ \in {"meta", "moov"} /\ file[i].big
                /\ \A j \in 1 .. i - 1 : file[j].typ # file[i].typ

\* However early the stream is left, DecodeConfig describes what Decode decodes.
\* Where the file parses, the header of it is known too unless a box it describes
\* itself with is longer than maxHeaderBox; a header that is known names the same
\* configuration, unless that box is one of no stated length, which is cut there;
\* and the subject of the configuration is the picture.
ConfigAgrees ==
    TypeFirst /\ header.status # "walk" /\ parsed.status = "ok" =>
        /\ (\A i \in DOMAIN file : ~Oversized(i)) => header.status = "ok"
        /\ header.status = "ok" /\ (\A i \in DOMAIN file : Oversized(i) => file[i].ends = "sized") =>
               config(header) = config(parsed)
        /\ Configured(parsed) => decodeStill(parsed) = config(parsed)
=============================================================================
