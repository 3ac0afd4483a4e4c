------------------------------ MODULE BoxWalk_proof ------------------------------
(***************************************************************************)
(* A proof about BoxWalk: the walk that stops early and buffers no long    *)
(* box describes what the walk over the whole file decodes.                *)
(***************************************************************************)
EXTENDS BoxWalk, TLAPS

\* Fewer than eight bytes at the end of a file are not a box.
Visible(i) == file[i].ends # "tail"
IsFirst(t, i) ==
    /\ Visible(i) /\ file[i].typ = t
    /\ \A j \in 1 .. i - 1 : Visible(j) => file[j].typ # t

\* What a walk knows in front of box n.
Knows(f, n) ==
    /\ f = [seen |-> f.seen, meta |-> f.meta, movie |-> f.movie, status |-> f.status]
    /\ f.seen \in BOOLEAN
    /\ f.seen <=> \E i \in 1 .. n - 1 : Visible(i) /\ file[i].typ = "ftyp"
    /\ \/ f.meta = None /\ \A i \in 1 .. n - 1 : Visible(i) => file[i].typ # "meta"
       \/ f.meta # None /\ \E i \in 1 .. n - 1 : IsFirst("meta", i) /\ f.meta = file[i]
    /\ \/ f.movie = None /\ \A i \in 1 .. n - 1 : Visible(i) => file[i].typ # "moov"
       \/ f.movie # None /\ \E i \in 1 .. n - 1 : IsFirst("moov", i) /\ f.movie = file[i]

\* Nothing in front of box n stops the walk over the whole file.
Sound(n) ==
    \A i \in 1 .. n - 1 : Visible(i) =>
        /\ Readable(file[i]) /\ file[i].typ # "mini"
        /\ IsFirst("meta", i) \/ IsFirst("moov", i) => file[i].says # "broken"

\* A file type box does not come behind what it describes.
Ordered == \A i, j \in DOMAIN file : file[i].typ = "ftyp" /\ file[j].typ \in {"meta", "moov"} => i < j

FileOk == /\ DOMAIN file = 1 .. Len(file) /\ Len(file) \in Nat
          /\ \A i \in 1 .. Len(file) : file[i] # None

\* Only the last box has no end of its own.
Closed == \A i \in DOMAIN file : file[i].ends # "sized" => i = Len(file)

\* The stream gets the whole of every box it buffers, or buffers each at all.
Uncut  == \A i \in DOMAIN file : Oversized(i) => file[i].ends = "sized"
Small  == \A i \in DOMAIN file : ~Oversized(i)

LEMMA FilesAreOk == ASSUME BoxAssumption, file \in Files PROVE FileOk /\ Closed
<1> DEFINE boxes == {file[i] : i \in DOMAIN file}
<1>0. /\ file \in Seq(boxes) /\ \A b \in boxes : {"typ", "ends", "big"} \subseteq DOMAIN b
      /\ \A i \in DOMAIN file : file[i].ends # "sized" => i = Len(file)
  BY DEF BoxAssumption
<1>1. file \in Seq(boxes) /\ \A b \in boxes : "typ" \in DOMAIN b
  BY <1>0
<1>2. DOMAIN file = 1 .. Len(file) /\ Len(file) \in Nat
  <2> HIDE DEF boxes
  <2> QED
    BY <1>1
<1>3. \A i \in 1 .. Len(file) : "typ" \in DOMAIN file[i]
  BY <1>1, <1>2
<1>4. "typ" \notin DOMAIN None
  BY DEF None
<1>5. \A i \in 1 .. Len(file) : file[i] # None
  BY <1>3, <1>4, Zenon
<1> QED
  BY <1>0, <1>2, <1>5 DEF FileOk, Closed

\* A box a walk looks into, and the one it passes over.
LEMMA Skipped ==
    ASSUME NEW n \in Nat \ {0}, NEW f, Knows(f, n), ~Visible(n)
    PROVE  Knows(f, n + 1)
<1>1. 1 .. n + 1 - 1 = (1 .. n - 1) \cup {n}
  OBVIOUS
<1> QED
  BY <1>1 DEF Knows

LEMMA Taken ==
    ASSUME FileOk, NEW n \in 1 .. Len(file), NEW f, Knows(f, n), Visible(n), f.status = "walk",
           NEW g, g = Take(f, file[n])
    PROVE  /\ g.status \in {"walk", "invalid"}
           /\ g.status = "invalid" <=>
                 (IsFirst("meta", n) \/ IsFirst("moov", n)) /\ file[n].says = "broken"
           /\ g.status = "walk" => Knows(g, n + 1)
<1> DEFINE b == file[n]
<1>0. 1 .. n + 1 - 1 = (1 .. n - 1) \cup {n} /\ b # None /\ n \in Nat
  BY DEF FileOk
<1>1. f = [seen |-> f.seen, meta |-> f.meta, movie |-> f.movie, status |-> "walk"]
  BY DEF Knows
<1>2. \A x \in 1 .. n - 1 : x < n /\ n \notin 1 .. x - 1
  OBVIOUS
<1>3. f.meta = None /\ b.typ = "meta" <=> IsFirst("meta", n)
  BY <1>2 DEF Knows, IsFirst
<1>4. f.movie = None /\ b.typ = "moov" <=> IsFirst("moov", n)
  BY <1>2 DEF Knows, IsFirst
<1>5. CASE b.typ = "ftyp"
  <2>1. g = [seen |-> TRUE, meta |-> f.meta, movie |-> f.movie, status |-> "walk"]
    BY <1>1, <1>5 DEF Take
  <2> QED
    BY <2>1, <1>0, <1>3, <1>4, <1>5 DEF Knows
<1>6. CASE b.typ = "meta"
  <2>1. g = WithMeta(f, b)
    BY <1>6 DEF Take
  <2>2. CASE f.meta # None
    <3>1. g = f
      BY <2>1, <2>2 DEF WithMeta
    <3> QED
      BY <3>1, <2>2, <1>0, <1>3, <1>4, <1>6 DEF Knows
  <2>3. CASE f.meta = None /\ b.says = "broken"
    <3>1. g = [seen |-> f.seen, meta |-> f.meta, movie |-> f.movie, status |-> "invalid"]
      BY <2>1, <2>3, <1>1 DEF WithMeta, Failed
    <3> QED
      BY <3>1, <2>3, <1>3, <1>6
  <2>4. CASE f.meta = None /\ b.says # "broken"
    <3>1. g = [seen |-> f.seen, meta |-> b, movie |-> f.movie, status |-> "walk"]
      BY <2>1, <2>4, <1>1 DEF WithMeta
    <3> QED
      BY <3>1, <2>4, <1>0, <1>3, <1>4, <1>6 DEF Knows
  <2> QED
    BY <2>2, <2>3, <2>4
<1>7. CASE b.typ = "moov"
  <2>1. g = WithMovie(f, b)
    BY <1>7 DEF Take
  <2>2. CASE f.movie # None
    <3>1. g = f
      BY <2>1, <2>2 DEF WithMovie
    <3> QED
      BY <3>1, <2>2, <1>0, <1>3, <1>4, <1>7 DEF Knows
  <2>3. CASE f.movie = None /\ b.says = "broken"
    <3>1. g = [seen |-> f.seen, meta |-> f.meta, movie |-> f.movie, status |-> "invalid"]
      BY <2>1, <2>3, <1>1 DEF WithMovie, Failed
    <3> QED
      BY <3>1, <2>3, <1>4, <1>7
  <2>4. CASE f.movie = None /\ b.says # "broken"
    <3>1. g = [seen |-> f.seen, meta |-> f.meta, movie |-> b, status |-> "walk"]
      BY <2>1, <2>4, <1>1 DEF WithMovie
    <3> QED
      BY <3>1, <2>4, <1>0, <1>3, <1>4, <1>7 DEF Knows
  <2> QED
    BY <2>2, <2>3, <2>4
<1>8. CASE b.typ \notin {"ftyp", "meta", "moov"}
  <2>1. g = f
    BY <1>8 DEF Take
  <2> QED
    BY <2>1, <1>0, <1>3, <1>4, <1>8 DEF Knows
<1> QED
  BY <1>5, <1>6, <1>7, <1>8

\* What a walk reads of a meta or moov box it has none of yet is the first.
LEMMA Unheld ==
    ASSUME FileOk, Closed, NEW n \in 1 .. Len(file), NEW f, Knows(f, n), Visible(n), ~Held(f, file[n]),
           file[n].big
    PROVE  Oversized(n)
<1>1. \A j \in 1 .. n - 1 : Visible(j)
  BY DEF FileOk, Closed, Visible
<1>2. file[n].typ \in {"meta", "moov"} /\ \A j \in 1 .. n - 1 : file[j].typ # file[n].typ
  BY <1>1 DEF Held, Knows
<1> QED
  BY <1>2 DEF Oversized

\* Two walks that know something of one kind know the same.
LEMMA SameFirst ==
    ASSUME FileOk, NEW m \in 1 .. Len(file) + 1, NEW n \in 1 .. Len(file) + 1, m <= n,
           NEW f, NEW g, Knows(f, m), Knows(g, n)
    PROVE  /\ f.meta # None => g.meta = f.meta
           /\ f.movie # None => g.movie = f.movie
           /\ m = n => g.seen = f.seen /\ g.meta = f.meta /\ g.movie = f.movie
<1>1. \A t : \A i, j \in 1 .. Len(file) : IsFirst(t, i) /\ IsFirst(t, j) => i = j
  <2> SUFFICES ASSUME NEW t, NEW i \in 1 .. Len(file), NEW j \in 1 .. Len(file),
                      IsFirst(t, i), IsFirst(t, j), i # j
               PROVE  FALSE
    OBVIOUS
  <2>1. i \in 1 .. j - 1 \/ j \in 1 .. i - 1
    BY DEF FileOk
  <2> QED
    BY <2>1 DEF IsFirst
<1>2. Len(file) \in Nat /\ \A i \in 1 .. m - 1 : i \in 1 .. n - 1 /\ i \in 1 .. Len(file)
  BY DEF FileOk
<1>3. \A i \in 1 .. n - 1 : i \in 1 .. Len(file)
  BY <1>2
<1>4. f.meta # None => g.meta = f.meta
  <2>1. SUFFICES ASSUME f.meta # None PROVE g.meta = f.meta
    OBVIOUS
  <2>2. PICK i \in 1 .. m - 1 : IsFirst("meta", i) /\ f.meta = file[i]
    BY <2>1 DEF Knows
  <2>3. ~(\A j \in 1 .. n - 1 : Visible(j) => file[j].typ # "meta")
    BY <2>2, <1>2 DEF IsFirst
  <2>4. PICK j \in 1 .. n - 1 : IsFirst("meta", j) /\ g.meta = file[j]
    BY <2>3 DEF Knows
  <2> QED
    BY <2>2, <2>4, <1>1, <1>2, <1>3
<1>5. f.movie # None => g.movie = f.movie
  <2>1. SUFFICES ASSUME f.movie # None PROVE g.movie = f.movie
    OBVIOUS
  <2>2. PICK i \in 1 .. m - 1 : IsFirst("moov", i) /\ f.movie = file[i]
    BY <2>1 DEF Knows
  <2>3. ~(\A j \in 1 .. n - 1 : Visible(j) => file[j].typ # "moov")
    BY <2>2, <1>2 DEF IsFirst
  <2>4. PICK j \in 1 .. n - 1 : IsFirst("moov", j) /\ g.movie = file[j]
    BY <2>3 DEF Knows
  <2> QED
    BY <2>2, <2>4, <1>1, <1>2, <1>3
<1>6. m = n => (f.meta = None => g.meta = None) /\ (f.movie = None => g.movie = None)
  BY DEF Knows, IsFirst
<1>7. m = n => g.seen = f.seen
  <2> SUFFICES ASSUME m = n PROVE g.seen = f.seen
    OBVIOUS
  <2>1. CASE \E i \in 1 .. n - 1 : Visible(i) /\ file[i].typ = "ftyp"
    <3>1. f.seen = TRUE
      BY <2>1 DEF Knows
    <3>2. g.seen = TRUE
      BY <2>1 DEF Knows
    <3> QED
      BY <3>1, <3>2
  <2>2. CASE ~(\E i \in 1 .. n - 1 : Visible(i) /\ file[i].typ = "ftyp")
    <3>1. f.seen = FALSE
      BY <2>2 DEF Knows
    <3>2. g.seen = FALSE
      BY <2>2 DEF Knows
    <3> QED
      BY <3>1, <3>2
  <2> QED
    BY <2>1, <2>2
<1> QED
  BY <1>4, <1>5, <1>6, <1>7
-----------------------------------------------------------------------------
\* While a walk goes on it knows the boxes behind it.  A file that parses keeps
\* no box back that would stop the walk of its header, which is the later one
\* and leaves with the same configuration, or refuses a box it will not buffer.
WalkInv ==
    /\ FileOk /\ Closed
    /\ parsed.status = "walk" =>
          /\ next \in 1 .. Len(file) + 1 /\ Knows(parsed, next) /\ Sound(next)
          /\ header.status = "walk"
    /\ parsed.status = "ok" =>
          /\ Knows(parsed, Len(file) + 1) /\ Sound(Len(file) + 1)
          /\ parsed.seen /\ (parsed.meta # None \/ parsed.movie # None)
    /\ Uncut /\ header.status = "walk" => hnext \in 1 .. Len(file) + 1 /\ Knows(header, hnext)
    /\ Uncut /\ parsed.status = "ok" /\ header.status # "walk" /\ Ordered =>
          /\ Small => header.status = "ok"
          /\ header.status = "ok" => config(header) = config(parsed)

LEMMA InitIsFine == ASSUME BoxAssumption, Init PROVE WalkInv
<1>1. FileOk /\ Closed /\ next \in 1 .. Len(file) + 1 /\ hnext \in 1 .. Len(file) + 1
  BY FilesAreOk DEF Init, FileOk
<1>2. parsed = Unread /\ header = Unread /\ next = 1 /\ hnext = 1
  BY DEF Init
<1>3. Knows(Unread, 1) /\ Sound(1)
  BY DEF Knows, Sound, Unread
<1>4. Unread.status = "walk"
  BY DEF Unread
<1> QED
  BY <1>1, <1>2, <1>3, <1>4 DEF WalkInv

\* The walk over the whole file.
LEMMA ParseKeeps == ASSUME WalkInv, Parse PROVE WalkInv'
<1> USE DEF Visible, IsFirst
<1>1. /\ FileOk /\ Closed /\ parsed.status = "walk" /\ header.status = "walk"
      /\ next \in 1 .. Len(file) + 1 /\ Knows(parsed, next) /\ Sound(next)
      /\ Uncut => hnext \in 1 .. Len(file) + 1 /\ Knows(header, hnext)
  BY DEF WalkInv, Parse
<1>2. /\ UNCHANGED <<file, header, hnext>> /\ next' = next + 1
      /\ Len(file) \in Nat
  BY <1>1 DEF Parse, FileOk
<1>3. FileOk' /\ Closed' /\ (Uncut => hnext \in 1 .. Len(file) + 1 /\ Knows(header, hnext))'
  BY <1>1, <1>2 DEF FileOk, Closed, Knows, Uncut, Oversized
<1>4. ASSUME NEW n, Sound(n) PROVE Sound(n)'
  BY <1>2, <1>4 DEF Sound
<1>5. ASSUME NEW f, NEW n, Knows(f, n) PROVE Knows(f, n)'
  BY <1>2, <1>5 DEF Knows
<1>6. CASE next > Len(file)
  <2>1. parsed' = Ended(parsed) /\ next = Len(file) + 1
    BY <1>1, <1>2, <1>6 DEF Parse
  <2>2. parsed = [seen |-> parsed.seen, meta |-> parsed.meta, movie |-> parsed.movie, status |-> "walk"]
    BY <1>1 DEF Knows
  <2>3. CASE ~parsed.seen \/ (parsed.meta = None /\ parsed.movie = None)
    <3>1. parsed'.status = "invalid"
      BY <2>1, <2>2, <2>3 DEF Ended, Failed
    <3> QED
      BY <3>1, <1>3, <1>1, <1>2 DEF WalkInv
  <2>4. CASE ~(~parsed.seen \/ (parsed.meta = None /\ parsed.movie = None))
    <3>1. parsed' = [seen |-> parsed.seen, meta |-> parsed.meta, movie |-> parsed.movie, status |-> "ok"]
      BY <2>1, <2>2, <2>4 DEF Ended, Failed
    <3>2. Knows(parsed', Len(file) + 1)
      BY <3>1, <2>1, <1>1 DEF Knows
    <3>3. Knows(parsed, Len(file) + 1)' /\ Sound(Len(file) + 1)'
      BY <3>2, <2>1, <1>1, <1>2, <1>4, <1>5
    <3> QED
      BY <3>1, <3>3, <2>4, <1>3, <1>1, <1>2 DEF WalkInv
  <2> QED
    BY <2>3, <2>4
<1>7. CASE ~(next > Len(file))
  <2>1. parsed' = ParseBox(parsed, file[next]) /\ next \in 1 .. Len(file)
    BY <1>1, <1>2, <1>7 DEF Parse
  <2> SUFFICES ASSUME parsed'.status = "ok" \/ parsed'.status = "walk"
               PROVE  /\ parsed'.status = "walk"
                      /\ Knows(parsed', next + 1) /\ Sound(next + 1)
    BY <1>1, <1>2, <1>3, <1>4, <1>5, <2>1 DEF WalkInv
  <2>2. parsed = [seen |-> parsed.seen, meta |-> parsed.meta, movie |-> parsed.movie, status |-> "walk"]
    BY <1>1 DEF Knows
  <2>3. 1 .. next + 1 - 1 = (1 .. next - 1) \cup {next} /\ next \in Nat \ {0}
    BY <2>1, <1>2
  <2>4. CASE ~Visible(next)
    <3>1. parsed' = parsed
      BY <2>1, <2>4 DEF ParseBox
    <3>2. Sound(next + 1)
      BY <2>3, <2>4, <1>1 DEF Sound
    <3> QED
      BY <3>1, <3>2, <2>3, <2>4, <1>1, Skipped
  <2>5. CASE Visible(next)
    <3>1. \A err \in {"invalid", "unsupported"} : Failed(parsed, err).status = err
      BY <2>2 DEF Failed
    <3>2. Readable(file[next]) /\ file[next].typ # "mini" /\ parsed' = Take(parsed, file[next])
      BY <3>1, <2>1, <2>5 DEF ParseBox
    <3> HIDE DEF Visible, IsFirst
    <3>3. /\ parsed'.status = "walk" /\ Knows(parsed', next + 1)
          /\ IsFirst("meta", next) \/ IsFirst("moov", next) => file[next].says # "broken"
      BY <3>2, <2>1, <2>5, <1>1, Taken
    <3>4. Sound(next + 1)
      BY <3>2, <3>3, <2>3, <1>1 DEF Sound
    <3> QED
      BY <3>3, <3>4
  <2> QED
    BY <2>4, <2>5
<1> QED
  BY <1>6, <1>7

\* Two walks that know the same boxes have one configuration.
LEMMA SameConfig ==
    ASSUME NEW f, NEW g, g.meta = f.meta, g.movie = f.movie
    PROVE  config(g) = config(f)
BY DEF config, primary

\* A walk that leaves early has the configuration of the walk that goes on.
LEMMA EarlyConfig ==
    ASSUME NEW f, NEW g, f.meta # None, Configured(f),
           g.meta = f.meta, f.movie # None => g.movie = f.movie
    PROVE  config(g) = config(f)
<1>1. primary(g) = primary(f) /\ f.meta # None
  BY DEF primary
<1>2. CASE primary(f) = "ok"
  BY <1>1, <1>2 DEF config
<1>3. CASE primary(f) # "ok"
  <2>1. f.movie # None
    <3> SUFFICES ASSUME f.movie = None PROVE FALSE
      OBVIOUS
    <3>1. config(f) = <<primary(f)>>
      BY <1>3 DEF config
    <3> QED
      BY <3>1 DEF Configured
  <2> QED
    BY <2>1, <1>1, <1>3, SameConfig
<1> QED
  BY <1>2, <1>3

LEMMA NothingKnown ==
    ASSUME NEW f, NEW n \in Nat, Knows(f, n),
           \A i \in 1 .. n - 1 : ~IsFirst("meta", i) /\ ~IsFirst("moov", i)
    PROVE  f.meta = None /\ f.movie = None
BY DEF Knows

\* The walk that may stop early.
LEMMA HeaderKeeps == ASSUME WalkInv, ParseHeader PROVE WalkInv'
<1>1. FileOk /\ Closed /\ parsed.status # "walk" /\ header.status = "walk"
  BY DEF WalkInv, ParseHeader
<1>2. /\ UNCHANGED <<file, parsed, next>> /\ hnext' = hnext + 1 /\ Len(file) \in Nat
  BY <1>1 DEF ParseHeader, FileOk
<1>3. /\ FileOk' /\ Closed' /\ (Ordered <=> Ordered') /\ parsed' = parsed
      /\ (Uncut <=> Uncut') /\ (Small <=> Small')
  BY <1>1, <1>2 DEF FileOk, Closed, Ordered, Uncut, Small, Oversized
<1>4. /\ parsed.status = "ok" => /\ Knows(parsed, Len(file) + 1) /\ Sound(Len(file) + 1)
                                 /\ parsed.seen /\ (parsed.meta # None \/ parsed.movie # None)
      /\ (parsed.status = "ok" => /\ Knows(parsed, Len(file) + 1) /\ Sound(Len(file) + 1)
                                  /\ parsed.seen /\ (parsed.meta # None \/ parsed.movie # None))'
  BY <1>2 DEF WalkInv, Knows, Sound, Visible, IsFirst
<1>5. ASSUME NEW f, NEW n, Knows(f, n) PROVE Knows(f, n)'
  BY <1>2, <1>5 DEF Knows, Visible, IsFirst
<1> SUFFICES ASSUME Uncut
             PROVE  /\ header'.status = "walk" => hnext \in 1 .. Len(file) /\ Knows(header', hnext + 1)
                    /\ parsed.status = "ok" /\ header'.status # "walk" /\ Ordered =>
                          /\ Small => header'.status = "ok"
                          /\ header'.status = "ok" => config(header') = config(parsed)
  <2>1. (Uncut /\ header.status = "walk" => hnext \in 1 .. Len(file) + 1 /\ Knows(header, hnext))'
    BY <1>2, <1>3, <1>5
  <2>2. (Uncut /\ parsed.status = "ok" /\ header.status # "walk" /\ Ordered =>
            /\ Small => header.status = "ok"
            /\ header.status = "ok" => config(header) = config(parsed))'
    BY <1>3 DEF config, primary
  <2> QED
    BY <2>1, <2>2, <1>1, <1>3, <1>4 DEF WalkInv
<1>0. hnext \in 1 .. Len(file) + 1 /\ Knows(header, hnext)
  BY <1>1 DEF WalkInv
<1>6. header = [seen |-> header.seen, meta |-> header.meta, movie |-> header.movie, status |-> "walk"]
  BY <1>0, <1>1 DEF Knows
<1>7. CASE hnext > Len(file)
  <2>1. header' = Ended(header) /\ hnext = Len(file) + 1
    BY <1>0, <1>1, <1>2, <1>7 DEF ParseHeader
  <2>2. header'.status \in {"ok", "invalid"}
    BY <2>1, <1>6 DEF Ended, Failed
  <2> SUFFICES ASSUME parsed.status = "ok"
               PROVE  header'.status = "ok" /\ config(header') = config(parsed)
    BY <2>2
  <2>3. parsed.seen = header.seen /\ parsed.meta = header.meta /\ parsed.movie = header.movie
    BY <1>0, <1>1, <1>2, <1>4, <2>1, SameFirst
  <2>4. header' = [seen |-> header.seen, meta |-> header.meta, movie |-> header.movie, status |-> "ok"]
    BY <2>1, <2>3, <1>4, <1>6 DEF Ended, Failed
  <2> QED
    BY <2>3, <2>4, SameConfig
<1>8. CASE ~(hnext > Len(file))
  <2> DEFINE b == file[hnext]
             g == Take(header, b)
  <2>1. header' = HeaderBox(header, b) /\ hnext \in 1 .. Len(file) /\ hnext \in Nat \ {0}
    BY <1>0, <1>1, <1>2, <1>8 DEF ParseHeader
  <2>2. CASE ~Visible(hnext)
    <3>1. header' = header
      BY <2>1, <2>2 DEF HeaderBox, Visible
    <3> QED
      BY <3>1, <2>1, <2>2, <1>0, <1>1, Skipped
  <2>3. CASE Visible(hnext)
    <3> HIDE DEF g
    <3>1. /\ g.status \in {"walk", "invalid"}
          /\ g.status = "invalid" <=>
                (IsFirst("meta", hnext) \/ IsFirst("moov", hnext)) /\ b.says = "broken"
          /\ g.status = "walk" => Knows(g, hnext + 1)
      BY <2>1, <2>3, <1>0, <1>1, Taken DEF g
    <3>2. CASE b.ends \in {"cut", "short"} \/ Refused(header, b)
      <4>1. header'.status = "invalid"
        BY <3>2, <2>1, <2>3, <1>6 DEF HeaderBox, Failed, Visible
      <4>2. parsed.status = "ok" => ~Small
        <5> SUFFICES ASSUME parsed.status = "ok" PROVE ~Small
          OBVIOUS
        <5>1. hnext \in 1 .. Len(file) + 1 - 1
          BY <2>1, <1>2
        <5>2. b.big /\ ~Held(header, b)
          BY <5>1, <3>2, <2>3, <1>4 DEF Sound, Readable, Refused
        <5>3. Oversized(hnext) /\ hnext \in DOMAIN file
          BY <5>2, <2>1, <2>3, <1>0, <1>1, Unheld DEF FileOk
        <5> QED
          BY <5>3 DEF Small
      <4> QED
        BY <4>1, <4>2
    <3>3. CASE ~(b.ends \in {"cut", "short"} \/ Refused(header, b))
      <4>0. boxBytes(header, b) = b
        <5> SUFFICES ASSUME Truncated(header, b) PROVE FALSE
          BY DEF boxBytes
        <5>1. b.big /\ ~Held(header, b) /\ b.ends # "sized"
          BY DEF Truncated
        <5>2. Oversized(hnext) /\ hnext \in DOMAIN file
          BY <5>1, <2>1, <2>3, <1>0, <1>1, Unheld DEF FileOk
        <5> QED
          BY <5>1, <5>2 DEF Uncut
      <4>1. header' = IF g.status = "walk" /\ Stops(header, b) /\ Configured(g) THEN Failed(g, "ok") ELSE g
        BY <3>3, <4>0, <2>1, <2>3 DEF HeaderBox, Visible, g
      <4>2. parsed.status = "ok" => g.status = "walk"
        <5>1. hnext \in 1 .. Len(file) + 1 - 1
          BY <2>1, <1>2
        <5> QED
          BY <5>1, <3>1, <2>3, <1>4 DEF Sound
      <4>3. CASE ~(g.status = "walk" /\ Stops(header, b) /\ Configured(g))
        BY <4>1, <4>2, <4>3, <3>1, <2>1
      <4>4. CASE g.status = "walk" /\ Stops(header, b) /\ Configured(g)
        <5>1. Knows(g, hnext + 1) /\ hnext + 1 \in 1 .. Len(file) + 1
          BY <4>4, <3>1, <2>1, <1>2
        <5>2. header' = [seen |-> g.seen, meta |-> g.meta, movie |-> g.movie, status |-> "ok"]
          <6>1. g = [seen |-> g.seen, meta |-> g.meta, movie |-> g.movie, status |-> g.status]
            BY <5>1 DEF Knows
          <6> QED
            BY <6>1, <4>1, <4>4 DEF Failed
        <5> SUFFICES ASSUME parsed.status = "ok", Ordered PROVE config(parsed) = config(g)
          <6>1. config(header') = config(g)
            BY <5>2, SameConfig
          <6> QED
            BY <6>1, <5>2
        <5>3. /\ g.meta # None => parsed.meta = g.meta
              /\ g.movie # None => parsed.movie = g.movie
          BY <5>1, <1>0, <1>1, <1>2, <1>4, SameFirst
        <5>4. g.meta # None
          <6>1. CASE b.typ = "meta"
            <7>1. header.meta = None
              BY <6>1, <4>4 DEF Stops, Held
            <7>2. g = WithMeta(header, b)
              BY <6>1 DEF Take, g
            <7>3. b # None
              BY <2>1, <1>0, <1>1 DEF FileOk
            <7>4. CASE b.says = "broken"
              <8>1. g.status = "invalid"
                BY <7>1, <7>2, <7>4, <1>6 DEF WithMeta, Failed
              <8> QED
                BY <8>1, <4>4
            <7>5. CASE b.says # "broken"
              <8>1. g.meta = b
                BY <7>1, <7>2, <7>5, <1>6 DEF WithMeta
              <8> QED
                BY <8>1, <7>3
            <7> QED
              BY <7>4, <7>5
          <6>2. CASE b.typ = "ftyp"
            <7>1. \A i \in 1 .. hnext + 1 - 1 : file[i].typ # "meta" /\ file[i].typ # "moov"
              <8> SUFFICES ASSUME NEW i \in 1 .. hnext + 1 - 1, file[i].typ \in {"meta", "moov"}
                           PROVE  FALSE
                OBVIOUS
              <8>1. i \in DOMAIN file /\ hnext \in DOMAIN file
                BY <2>1, <1>0, <1>1, <1>2 DEF FileOk
              <8>2. hnext < i
                BY <8>1, <6>2 DEF Ordered
              <8> QED
                BY <8>2, <2>1
            <7>2. g.meta = None /\ g.movie = None
              <8>1. \A i \in 1 .. hnext + 1 - 1 : ~IsFirst("meta", i) /\ ~IsFirst("moov", i)
                BY <7>1 DEF IsFirst
              <8> QED
                BY <5>1, <8>1, <2>1, NothingKnown
            <7>3. config(g) = <<"invalid">>
              BY <7>2 DEF config, primary
            <7> QED
              BY <7>3, <4>4 DEF Configured
          <6> QED
            BY <6>1, <6>2, <4>4 DEF Stops
        <5> QED
          BY <5>3, <5>4, <4>4, EarlyConfig
      <4> QED
        BY <4>3, <4>4
    <3> QED
      BY <3>2, <3>3
  <2> QED
    BY <2>2, <2>3
<1> QED
  BY <1>7, <1>8

LEMMA WalkInvariant == ASSUME BoxAssumption PROVE Spec => []WalkInv
<1>1. Init => WalkInv
  BY InitIsFine
<1>2. WalkInv /\ [Next]_vars => WalkInv'
  <2> SUFFICES ASSUME WalkInv, [Next]_vars PROVE WalkInv'
    OBVIOUS
  <2>1. CASE UNCHANGED vars
    BY <2>1 DEF vars, WalkInv, FileOk, Closed, Knows, Sound, Ordered, Visible, IsFirst, Uncut, Small, Oversized, config, primary
  <2> QED
    BY <2>1, ParseKeeps, HeaderKeeps DEF Next
<1> QED
  BY <1>1, <1>2, PTL DEF Spec

\* DecodeConfig may leave the stream of any file early.  If Decode can parse the
\* file, DecodeConfig names the same picture, or gives up where a box it would have
\* to buffer is longer than maxHeaderBox; only one that runs to the end of the file,
\* which is cut there and read all the same, leaves that open.  The picture named
\* is the one decoded.
THEOREM OneConfiguration == Spec => []ConfigAgrees
<1>1. WalkInv => ConfigAgrees
  <2> SUFFICES ASSUME WalkInv, TypeFirst, header.status # "walk", parsed.status = "ok"
               PROVE  /\ Small => header.status = "ok"
                      /\ header.status = "ok" /\ Uncut => config(header) = config(parsed)
                      /\ Configured(parsed) => decodeStill(parsed) = config(parsed)
    BY DEF ConfigAgrees, Small, Uncut
  <2>1. Small => Uncut
    BY DEF Small, Uncut
  <2>2. Uncut => /\ Small => header.status = "ok"
                 /\ header.status = "ok" => config(header) = config(parsed)
    BY DEF WalkInv, TypeFirst, Ordered
  <2>3. ASSUME Configured(parsed) PROVE decodeStill(parsed) = config(parsed)
    <3>1. config(parsed) # <<"invalid">> /\ \A x : config(parsed) # <<x>>
      BY <2>3 DEF Configured
    <3> QED
      BY <3>1 DEF config, decodeStill
  <2> QED
    BY <2>1, <2>2, <2>3
<1> QED
  BY <1>1, WalkInvariant, BoxAssumption, PTL

=============================================================================
