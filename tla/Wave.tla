-------------------------------- MODULE Wave --------------------------------
(***************************************************************************)
(* The monitor of hevc/wavefront.go, shared by the goroutines that decode  *)
(* (WaveDecode) or encode (WaveEncode) the rows of one slice segment: the  *)
(* progress of every row, the contexts 9.3.1 hands to the row below, and   *)
(* one condition variable.                                                 *)
(*                                                                         *)
(* A critical section of `mu` is one step.  The Broadcast that follows an  *)
(* update is a step of its own, because the code calls it after Unlock.    *)
(***************************************************************************)
EXTENDS Integers

CONSTANTS
    Rows,       \* len(starts): the rows of the slice segment
    Cols,       \* the width of the picture in coding tree blocks
    Workers     \* the goroutines the rows are dealt to

\* waveWorkers and codeSlice send only two rows or more, two columns or more
\* and two workers or more this way, and never more workers than rows.
ASSUME WaveAssumption == /\ Rows \in Nat /\ Rows >= 2
                         /\ Cols \in Nat /\ Cols >= 2
                         /\ Workers \in 2 .. Rows

RowIds == 0 .. Rows - 1
ColIds == 0 .. Cols - 1
CTBs   == RowIds \X ColIds
Procs  == 0 .. Workers - 1

\* A context state is named by where it comes from: <<k, n>> is what row k has
\* adapted to after n blocks.  Every row's initContexts gives the same values.
InitCtx  == <<0, 0>>
ZeroCtx  == <<-1, 0>>     \* the zero value of the Go array
Contexts == {InitCtx, ZeroCtx} \cup (RowIds \X (1 .. Cols))

NoErr == -1               \* err = nil; any other value is the row that failed

VARIABLES
    done,       \* done[k]: the blocks of row k that are reconstructed
    ctx,        \* ctx[k]: the state row k hands to the row below
    err,        \* the first error
    bad,        \* some row has failed
    sleeping    \* the goroutines inside cond.Wait

wave == <<done, ctx, err, bad, sleeping>>

-----------------------------------------------------------------------------
newWave ==
    /\ done = [k \in RowIds |-> 0]
    /\ ctx = [k \in RowIds |-> ZeroCtx]
    /\ err = NoErr
    /\ bad = FALSE
    /\ sleeping = {}

\* The three outcomes of one pass through the loop of await(k, n).
awaitTrue(k, n)  == done[k] >= n /\ ~bad
awaitFalse       == bad
awaitWaits(k, n) == done[k] < n /\ ~bad

Wait(p) == /\ sleeping' = sleeping \cup {p}
           /\ UNCHANGED <<done, ctx, err, bad>>

Broadcast == /\ sleeping' = {}
             /\ UNCHANGED <<done, ctx, err, bad>>

\* Mutant of advance: progress counts a block that is still to come.
advance_ahead(k, n) == /\ done' = [done EXCEPT ![k] = n + 1]
                       /\ UNCHANGED <<ctx, err, bad, sleeping>>

advance(k, n) == /\ done' = [done EXCEPT ![k] = n]
                 /\ UNCHANGED <<ctx, err, bad, sleeping>>

saveCtx(k, s, n) == /\ ctx' = [ctx EXCEPT ![k] = s]
                    /\ done' = [done EXCEPT ![k] = n]
                    /\ UNCHANGED <<err, bad, sleeping>>

fail(e) == /\ err' = IF err = NoErr THEN e ELSE err
           /\ bad' = TRUE
           /\ UNCHANGED <<done, ctx, sleeping>>

\* Mutant of Lag: one block of lag lets the above-right block be in progress.
Lag_one(c) == c + 1

\* min(col+2, w): how far the row above has to be before block col starts.
Lag(c) == IF c + 2 <= Cols THEN c + 2 ELSE Cols

WaveTypeOK == /\ done \in [RowIds -> 0 .. Cols]
              /\ ctx \in [RowIds -> Contexts]
              /\ err \in RowIds \cup {NoErr}
              /\ bad \in BOOLEAN
              /\ sleeping \subseteq Procs

-----------------------------------------------------------------------------
\* for k := i; k < len(starts); k += workers: the rows goroutine p is dealt.
Owns(p, k) == \E i \in Nat : k = p + i * Workers
=============================================================================
