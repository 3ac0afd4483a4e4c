----------------------------- MODULE WaveDecode -----------------------------
(***************************************************************************)
(* decodeWavefront and decodeWaveRow of hevc/wavefront.go: the rows of one *)
(* slice segment decoded by Workers goroutines that meet in the monitor of *)
(* module Wave.  Goroutine p decodes rows p, p + Workers, p + 2*Workers... *)
(*                                                                         *)
(* What the bits of the segment say is data, fixed when the segment        *)
(* arrives and read by whoever gets there: `stream` records the blocks     *)
(* that do not parse, the end_of_slice_segment_flags that are set, the     *)
(* end_of_subset_one_bits that are missing and the substreams that cannot  *)
(* be started.                                                             *)
(***************************************************************************)
EXTENDS Wave

CONSTANTS
    FirstRow,   \* the picture row the segment starts on
    Streams     \* the segments to consider

StreamType == [badStart : SUBSET RowIds,    \* startSubstream fails
               badCTU   : SUBSET CTBs,      \* codingTreeUnit fails
               ends     : SUBSET CTBs,      \* end_of_slice_segment_flag is 1
               noSubset : SUBSET RowIds]    \* end_of_subset_one_bit is 0

ASSUME DecodeAssumption == /\ FirstRow \in Nat
                           /\ Streams \subseteq StreamType

VARIABLES
    stream,     \* the segment being decoded
    pc,         \* pc[p]: where goroutine p is
    row,        \* row[p]: k of its loop over rows
    col,        \* col[p]: the loop variable of decodeWaveRow
    state,      \* state[p]: d.c.state of its copy of the block decoder
    end,        \* v.end: the block after the last one, 0 while it is open
    recon,      \* the blocks reconstructed in the shared planes and tables
    result,     \* what decodeWavefront returned
    nextCTU,    \* d.nextCTU of the picture's block decoder
    saved       \* d.saved

local == <<pc, row, col, state>>
main  == <<result, nextCTU, saved>>
vars  == <<wave, stream, local, end, recon, main>>

PCs == {"row", "start", "handoff", "load", "await", "ctu", "publish",
        "notify", "terminate", "close", "closed", "fail", "failed", "exit"}

LastRow == Rows - 1
Here(p) == <<row[p], col[p]>>
Rs(b)   == (FirstRow + b[1]) * Cols + b[2]      \* raster address in the picture

-----------------------------------------------------------------------------
Init ==
    /\ newWave
    /\ stream \in Streams
    /\ pc = [p \in Procs |-> "row"]
    /\ row = [p \in Procs |-> p]
    /\ col = [p \in Procs |-> 0]
    /\ state = [p \in Procs |-> InitCtx]
    /\ end = 0
    /\ recon = {}
    /\ result = "none"
    /\ nextCTU = FirstRow * Cols
    /\ saved = ZeroCtx

Goto(p, label) == pc' = [pc EXCEPT ![p] = label]

\* Mutant of NextRow: the goroutines take consecutive rows.
NextRow_consecutive(p) == row' = [row EXCEPT ![p] = @ + 1] /\ Goto(p, "row")

\* decodeWaveRow returned nil: on to k += workers.
NextRow(p) == /\ row' = [row EXCEPT ![p] = @ + Workers]
              /\ Goto(p, "row")

\* The loop condition, then v.failed().
Row(p) ==
    /\ pc[p] = "row"
    /\ Goto(p, IF row[p] < Rows /\ ~bad THEN "start" ELSE "exit")
    /\ UNCHANGED <<wave, stream, row, col, state, end, recon, main>>

\* Only the first row of a segment initialises contexts here; a row below
\* keeps whatever its goroutine's last row left until the hand-off.
StartSubstream(p) ==
    /\ pc[p] = "start"
    /\ IF row[p] \in stream.badStart
       THEN Goto(p, "fail") /\ UNCHANGED <<col, state>>
       ELSE /\ col' = [col EXCEPT ![p] = 0]
            /\ IF row[p] = 0
               THEN Goto(p, "ctu") /\ state' = [state EXCEPT ![p] = InitCtx]
               ELSE Goto(p, "handoff") /\ UNCHANGED state
    /\ UNCHANGED <<wave, stream, row, end, recon, main>>

\* await(k, n) seen from a goroutine that goes to `label` when it is true.
Await(p, k, n, label) ==
    /\ p \notin sleeping
    /\ \/ /\ awaitTrue(k, n)
          /\ Goto(p, label)
          /\ UNCHANGED <<wave, row>>
       \/ /\ awaitFalse
          /\ NextRow(p)
          /\ UNCHANGED wave
       \/ /\ awaitWaits(k, n)
          /\ Wait(p)
          /\ UNCHANGED <<pc, row>>
    /\ UNCHANGED <<stream, col, state, end, recon, main>>

\* Mutant of AwaitHandoff: one block above is taken to be enough.
AwaitHandoff_one(p) == pc[p] = "handoff" /\ Await(p, row[p] - 1, 1, "load")

AwaitHandoff(p) == pc[p] = "handoff" /\ Await(p, row[p] - 1, 2, "load")

\* d.c.state = v.ctx[k-1], read after the lock is released.  The block it came
\* from is always in this segment (top >= sliceAddrRs), since the segment
\* starts on a row boundary.
LoadContexts(p) ==
    /\ pc[p] = "load"
    /\ state' = [state EXCEPT ![p] = ctx[row[p] - 1]]
    /\ Goto(p, "await")
    /\ UNCHANGED <<wave, stream, row, col, end, recon, main>>

AwaitAbove(p) == pc[p] = "await" /\ Await(p, row[p] - 1, Lag(col[p]), "ctu")

CodingTreeUnit(p) ==
    /\ pc[p] = "ctu"
    /\ IF Here(p) \in stream.badCTU
       THEN Goto(p, "fail") /\ UNCHANGED <<recon, state>>
       ELSE /\ recon' = recon \cup {Here(p)}
            /\ state' = [state EXCEPT ![p] = <<row[p], col[p] + 1>>]
            /\ Goto(p, "publish")
    /\ UNCHANGED <<wave, stream, row, col, end, main>>

Publish(p) ==
    /\ pc[p] = "publish"
    /\ IF col[p] = 1 THEN saveCtx(row[p], state[p], 2)
                     ELSE advance(row[p], col[p] + 1)
    /\ Goto(p, "notify")
    /\ UNCHANGED <<stream, row, col, state, end, recon, main>>

\* Mutant of Notify: progress is published and nobody is woken.
Notify_silent(p) ==
    /\ pc[p] = "notify"
    /\ Goto(p, "terminate")
    /\ UNCHANGED <<wave, stream, row, col, state, end, recon, main>>

Notify(p) ==
    /\ pc[p] = "notify"
    /\ Broadcast
    /\ Goto(p, "terminate")
    /\ UNCHANGED <<stream, row, col, state, end, recon, main>>

\* Mutant of EndOfSlice: the segment may end in any row.
EndOfSlice_anywhere(p) ==
    /\ pc[p] = "terminate"
    /\ Here(p) \in stream.ends
    /\ end' = Rs(Here(p)) + 1
    /\ Goto(p, "close")
    /\ UNCHANGED <<wave, stream, row, col, state, recon, main>>

\* end_of_slice_segment_flag is 1: only the last row may hold it.
EndOfSlice(p) ==
    /\ pc[p] = "terminate"
    /\ Here(p) \in stream.ends
    /\ IF row[p] = LastRow
       THEN end' = Rs(Here(p)) + 1 /\ Goto(p, "close")
       ELSE Goto(p, "fail") /\ UNCHANGED end
    /\ UNCHANGED <<wave, stream, row, col, state, recon, main>>

EndOfRow(p) ==
    /\ pc[p] = "terminate"
    /\ Here(p) \notin stream.ends
    /\ col[p] = Cols - 1
    /\ Goto(p, IF row[p] \in stream.noSubset THEN "fail" ELSE "close")
    /\ UNCHANGED <<wave, stream, row, col, state, end, recon, main>>

NextBlock(p) ==
    /\ pc[p] = "terminate"
    /\ Here(p) \notin stream.ends
    /\ col[p] < Cols - 1
    /\ col' = [col EXCEPT ![p] = @ + 1]
    /\ Goto(p, IF row[p] = 0 THEN "ctu" ELSE "await")
    /\ UNCHANGED <<wave, stream, row, state, end, recon, main>>

\* v.advance(k, w), in its two steps, and the end of decodeWaveRow.
Close(p) ==
    /\ pc[p] = "close"
    /\ advance(row[p], Cols)
    /\ Goto(p, "closed")
    /\ UNCHANGED <<stream, row, col, state, end, recon, main>>

Closed(p) ==
    /\ pc[p] = "closed"
    /\ Broadcast
    /\ IF row[p] = LastRow /\ end = 0      \* the rows ran out first
       THEN Goto(p, "fail") /\ UNCHANGED row
       ELSE NextRow(p)
    /\ UNCHANGED <<stream, col, state, end, recon, main>>

Fail(p) ==
    /\ pc[p] = "fail"
    /\ fail(row[p])
    /\ Goto(p, "failed")
    /\ UNCHANGED <<stream, row, col, state, end, recon, main>>

\* Mutant of Failed: a failure is recorded and nobody is woken.
Failed_silent(p) ==
    /\ pc[p] = "failed"
    /\ Goto(p, "exit")
    /\ UNCHANGED <<wave, stream, row, col, state, end, recon, main>>

Failed(p) ==
    /\ pc[p] = "failed"
    /\ Broadcast
    /\ Goto(p, "exit")
    /\ UNCHANGED <<stream, row, col, state, end, recon, main>>

\* wg.Wait() and what decodeWavefront does after it.
Join ==
    /\ result = "none"
    /\ \A p \in Procs : pc[p] = "exit"
    /\ IF err # NoErr
       THEN result' = "error" /\ UNCHANGED <<nextCTU, saved>>
       ELSE /\ result' = "ok"
            /\ nextCTU' = end
            /\ saved' = ctx[LastRow]
    /\ UNCHANGED <<wave, stream, local, end, recon>>

Returned == result # "none" /\ UNCHANGED vars

Worker(p) ==
    \/ Row(p)
    \/ StartSubstream(p)
    \/ AwaitHandoff(p)
    \/ LoadContexts(p)
    \/ AwaitAbove(p)
    \/ CodingTreeUnit(p)
    \/ Publish(p)
    \/ Notify(p)
    \/ EndOfSlice(p)
    \/ EndOfRow(p)
    \/ NextBlock(p)
    \/ Close(p)
    \/ Closed(p)
    \/ Fail(p)
    \/ Failed(p)

Next == Join \/ Returned \/ \E p \in Procs : Worker(p)

Spec == Init /\ [][Next]_vars

\* The Go scheduler runs every goroutine that can run.
Fairness == WF_vars(Join) /\ \A p \in Procs : WF_vars(Worker(p))
FairSpec == Spec /\ Fairness

-----------------------------------------------------------------------------
TypeOK ==
    /\ WaveTypeOK
    /\ stream \in StreamType
    /\ pc \in [Procs -> PCs]
    /\ row \in [Procs -> Nat]
    /\ col \in [Procs -> ColIds]
    /\ state \in [Procs -> Contexts]
    /\ end \in Nat
    /\ recon \in SUBSET CTBs
    /\ result \in {"none", "ok", "error"}
    /\ nextCTU \in Nat
    /\ saved \in Contexts

Order == INSTANCE WaveOrder WITH recon <- recon

\* The decoder implements the abstract order: whatever the interleaving, a
\* block is reconstructed after every block it predicts from.
ImplementsOrder == Order!Spec

\* No block is decoded twice: two goroutines never write the same samples and
\* tables, however the rows are dealt and whoever gave up on one.
DecodedOnce == \A p \in Procs : pc[p] = "ctu" => Here(p) \notin recon

\* For as long as a goroutine is inside codingTreeUnit, nothing that block
\* reads is still being written by another row.
NeighboursReady ==
    \A p \in Procs : pc[p] = "ctu" => Order!Neighbours(Here(p)) \subseteq recon

\* 9.3.1: a row starts from the contexts the row above had after exactly two
\* blocks, although they are copied without the lock and the goroutine's own
\* contexts are left over from an earlier row.
CtxHandoff ==
    \A p \in Procs : pc[p] = "ctu" /\ col[p] = 0 =>
        state[p] = IF row[p] = 0 THEN InitCtx ELSE <<row[p] - 1, 2>>

\* What a goroutine inside await is waiting for.
AwaitedRow(p)   == row[p] - 1
AwaitedCount(p) == IF pc[p] = "handoff" THEN 2 ELSE Lag(col[p])

\* A goroutine sleeps past what it waits for only while the Broadcast that
\* will wake it is still to come: no advance or failure is missed, although
\* every Broadcast is sent outside the lock.
NoLostWakeup ==
    \A p \in sleeping :
        awaitWaits(AwaitedRow(p), AwaitedCount(p))
        \/ \E q \in Procs : pc[q] \in {"notify", "closed", "failed"}

\* The segment is well formed: it ends in its last row and everything up to
\* there can be decoded.
EndsAt(b) ==
    LET upTo == {c \in CTBs : Rs(c) <= Rs(b)} IN
    /\ b[1] = LastRow
    /\ upTo \cap stream.ends = {b}
    /\ upTo \cap stream.badCTU = {}
    /\ stream.badStart = {}
    /\ stream.noSubset \subseteq {LastRow}

\* The goroutines race to report different errors, yet whether the segment is
\* accepted depends on its bits alone; an accepted one is complete, with
\* nothing decoded beyond its end, and d.nextCTU is right behind it.
Outcome ==
    result # "none" =>
        /\ result = "ok" <=> \E b \in CTBs : EndsAt(b)
        /\ result = "ok" => recon = {b \in CTBs : Rs(b) < nextCTU}
        /\ result = "error" => /\ nextCTU = FirstRow * Cols
                               /\ err \in RowIds

\* Every segment, good or bad, is returned from: no row waits for ever.
Terminates == <>(result # "none")
=============================================================================
