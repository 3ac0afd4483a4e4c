------------------------------ MODULE RefPicSet ------------------------------
(***************************************************************************)
(* The pure part of hevc/dpb.go: the picture order count of 8.3.1, the     *)
(* reference picture set of 8.3.2 and the reference picture lists of 8.3.4.*)
(* A picture is named by its picture order count; what is computed here    *)
(* are sequences of those.                                                 *)
(***************************************************************************)
EXTENDS Integers, Sequences

NalTypes == {"TRAIL_N", "TRAIL_R", "RADL_N", "RADL_R", "RASL_N", "RASL_R",
             "BLA", "IDR", "CRA"}

IsIRAP(t) == t \in {"BLA", "IDR", "CRA"}
IsRASL(t) == t \in {"RASL_N", "RASL_R"}
IsRADL(t) == t \in {"RADL_N", "RADL_R"}

isSubLayerNonRef(t) == t \in {"TRAIL_N", "RADL_N", "RASL_N"}

-----------------------------------------------------------------------------
\* pocState: what 8.3.1 remembers of the previous picture it counts from.
ZeroPoc == [prevLsb |-> 0, prevMsb |-> 0]

\* Mutant of derivePOC: exactly half the range counts as a step back too.
derivePOC_half(st, typ, lsb, maxLsb, noRaslOutput) ==
    lsb + (IF IsIRAP(typ) /\ noRaslOutput THEN 0
           ELSE IF lsb < st.prevLsb /\ st.prevLsb - lsb > maxLsb \div 2
                THEN st.prevMsb + maxLsb
           ELSE IF lsb > st.prevLsb /\ lsb - st.prevLsb >= maxLsb \div 2
                THEN st.prevMsb - maxLsb
           ELSE st.prevMsb)

derivePOC(st, typ, lsb, maxLsb, noRaslOutput) ==
    lsb + (IF IsIRAP(typ) /\ noRaslOutput THEN 0
           ELSE IF lsb < st.prevLsb /\ st.prevLsb - lsb >= maxLsb \div 2
                THEN st.prevMsb + maxLsb
           ELSE IF lsb > st.prevLsb /\ lsb - st.prevLsb > maxLsb \div 2
                THEN st.prevMsb - maxLsb
           ELSE st.prevMsb)

\* pocState.update
update(st, typ, tid, poc, lsb) ==
    IF tid # 0 \/ IsRASL(typ) \/ IsRADL(typ) \/ isSubLayerNonRef(typ)
    THEN st
    ELSE [prevLsb |-> lsb, prevMsb |-> poc - lsb]

-----------------------------------------------------------------------------
\* shortTermRPS: in each direction a sequence of deltas and whether the
\* current picture itself uses the picture.
ShortDelta == [d : Int, used : BOOLEAN]

\* longTermRPS: numSps entries come from the sequence parameter set.
LongEntry == [lsb : Nat, msbPresent : BOOLEAN, cycle : Nat, used : BOOLEAN]

NoRPS == [before |-> <<>>, after |-> <<>>, lt |-> <<>>, foll |-> <<>>, ltFoll |-> <<>>]

\* The elements of s at the positions in S, in their order.
Picked(s, S) ==
    LET picked[n \in 0 .. Len(s)] ==
            IF n = 0 THEN <<>>
            ELSE IF n \in S THEN Append(picked[n - 1], s[n]) ELSE picked[n - 1]
    IN  picked[Len(s)]

\* The entries of s that the current picture uses, or those it does not.
Chosen(s, used) == Picked(s, {n \in DOMAIN s : s[n].used = used})

Deltas(s, used, poc) ==
    LET chosen == Chosen(s, used)
    IN  [i \in DOMAIN chosen |-> poc + chosen[i].d]

\* DeltaPocMsbCycleLt accumulates within the entries of the sequence parameter
\* set and again within those of the slice header.
MsbCycle(lt, numSps) ==
    LET cycle[i \in DOMAIN lt] ==
            IF i = 1 \/ i = numSps + 1 THEN lt[i].cycle
            ELSE cycle[i - 1] + lt[i].cycle
    IN  cycle

\* An entry without its most significant bits is an `lsbOnly` reference, which
\* resolveLongTerm completes from the buffer.
LongTerm(lt, numSps, used, poc, maxLsb) ==
    LET cycle == MsbCycle(lt, numSps)
        entry(i) == [poc |-> IF lt[i].msbPresent
                             THEN poc - cycle[i] * maxLsb - (poc % maxLsb) + lt[i].lsb
                             ELSE lt[i].lsb,
                     lsbOnly |-> ~lt[i].msbPresent, used |-> lt[i].used]
    IN  Chosen([i \in DOMAIN lt |-> entry(i)], used)

\* The long-term groups still hold records here; resolveLongTerm turns them
\* into picture order counts.
deriveRefPicSet(poc, maxLsb, s0, s1, lt, numSps) ==
    [before |-> Deltas(s0, TRUE, poc),
     after  |-> Deltas(s1, TRUE, poc),
     foll   |-> Deltas(s0, FALSE, poc) \o Deltas(s1, FALSE, poc),
     lt     |-> LongTerm(lt, numSps, TRUE, poc, maxLsb),
     ltFoll |-> LongTerm(lt, numSps, FALSE, poc, maxLsb)]

\* refs: the reference pictures of the buffer, in its order.  An entry takes
\* the first one with its least significant bits that no entry before it has.
resolveLongTerm(rps, refs, maxLsb) ==
    LET all == rps.lt \o rps.ltFoll
        found[i \in DOMAIN all] ==
            LET taken == {found[k].poc : k \in {k \in 1 .. i - 1 : found[k].ok}}
                match == {j \in DOMAIN refs : /\ refs[j] \notin taken
                                              /\ refs[j] % maxLsb = all[i].poc % maxLsb}
            IN  IF ~all[i].lsbOnly THEN [poc |-> all[i].poc, ok |-> TRUE]
                ELSE IF match = {} THEN [poc |-> all[i].poc, ok |-> FALSE]
                ELSE [poc |-> refs[CHOOSE j \in match : \A k \in match : j <= k],
                      ok |-> TRUE]
        poc == [i \in DOMAIN all |-> found[i].poc]
    IN  [rps EXCEPT !.lt = SubSeq(poc, 1, Len(rps.lt)),
                    !.ltFoll = SubSeq(poc, Len(rps.lt) + 1, Len(all))]

-----------------------------------------------------------------------------
\* The pictures of the set in the order decoder.go and dpb.go walk them.
AllPocs(rps) == rps.before \o rps.after \o rps.lt \o rps.foll \o rps.ltFoll

\* 8.3.4: the candidates repeat until there are `active` of them, and `entries`
\* (when the list is modified) select from them.  A selection from behind the
\* candidates leaves no list at all.
buildRefPicList(rps, active, modify, entries, l1) ==
    LET groups == (IF l1 THEN rps.after \o rps.before ELSE rps.before \o rps.after) \o rps.lt
        total  == Len(groups)
        n      == IF active > total THEN active ELSE total
        temp(i) == groups[(i % total) + 1]
        chosen == IF modify THEN DOMAIN entries \cap 1 .. active ELSE {}
    IN  IF total = 0 \/ \E i \in chosen : entries[i] >= n THEN <<>>
        ELSE [i \in 1 .. active |-> IF i \in chosen THEN temp(entries[i]) ELSE temp(i - 1)]
=============================================================================
