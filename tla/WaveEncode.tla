----------------------------- MODULE WaveEncode -----------------------------
(***************************************************************************)
(* encodeWavefront and waveRow of hevc/wavefrontenc.go: the rows of the    *)
(* picture's one slice segment coded by Workers goroutines that meet in    *)
(* the monitor of module Wave, each row into a substream of its own.       *)
(*                                                                         *)
(* A substream is the sequence of what is written to it: <<"ctu", k, x>>   *)
(* is a coding tree block with its SAO syntax, <<"end", b>> an             *)
(* end_of_slice_segment_flag and <<"subset", b>> an end_of_subset_one_bit. *)
(***************************************************************************)
EXTENDS Wave, Sequences

CONSTANT BadCTUs    \* the sets of blocks whose coding may fail: one is chosen

ASSUME EncodeAssumption == BadCTUs \subseteq SUBSET CTBs

VARIABLES
    badCTU,     \* the blocks whose quadtree returns an error
    pc,         \* pc[p]: where goroutine p is
    row,        \* row[p]: k of its loop over rows
    col,        \* col[p]: the loop variable x of waveRow
    state,      \* state[p]: e.cabac.state of its copy of the encoder
    bits,       \* bits[p]: what its copy of the writer holds
    subs,       \* subs[k]: the substream of row k, <<>> for nil
    recon,      \* the blocks reconstructed in the shared planes and tables
    result      \* what encodeWavefront returned

local == <<pc, row, col, state, bits>>
vars  == <<wave, badCTU, local, subs, recon, result>>

PCs == {"row", "init", "handoff", "load", "await", "tree", "terminate",
        "publish", "notify", "close", "fail", "failed", "exit"}

LastRow  == Rows - 1
Here(p)  == <<row[p], col[p]>>
AtEnd(p) == row[p] = LastRow /\ col[p] = Cols - 1      \* last

-----------------------------------------------------------------------------
Init ==
    /\ newWave
    /\ badCTU \in BadCTUs
    /\ pc = [p \in Procs |-> "row"]
    /\ row = [p \in Procs |-> p]
    /\ col = [p \in Procs |-> 0]
    /\ state = [p \in Procs |-> ZeroCtx]
    /\ bits = [p \in Procs |-> <<>>]
    /\ subs = [k \in RowIds |-> <<>>]
    /\ recon = {}
    /\ result = "none"

Goto(p, label) == pc' = [pc EXCEPT ![p] = label]
Write(p, sym)  == bits' = [bits EXCEPT ![p] = Append(@, sym)]

\* waveRow returned `sub` without an error: subs[k] = sub and k += workers.
NextRow(p, sub) == /\ subs' = [subs EXCEPT ![row[p]] = sub]
                   /\ row' = [row EXCEPT ![p] = @ + Workers]
                   /\ Goto(p, "row")

\* The loop condition, then v.failed().
Row(p) ==
    /\ pc[p] = "row"
    /\ Goto(p, IF row[p] < Rows /\ ~bad THEN "init" ELSE "exit")
    /\ UNCHANGED <<wave, badCTU, row, col, state, bits, subs, recon, result>>

\* A new writer, and e.cabac.init.
InitRow(p) ==
    /\ pc[p] = "init"
    /\ bits' = [bits EXCEPT ![p] = <<>>]
    /\ state' = [state EXCEPT ![p] = InitCtx]
    /\ col' = [col EXCEPT ![p] = 0]
    /\ Goto(p, IF row[p] = 0 THEN "tree" ELSE "handoff")
    /\ UNCHANGED <<wave, badCTU, row, subs, recon, result>>

\* await(k, n) seen from a goroutine that goes to `label` when it is true; a
\* row given up leaves a nil substream.
Await(p, k, n, label) ==
    /\ p \notin sleeping
    /\ \/ /\ awaitTrue(k, n)
          /\ Goto(p, label)
          /\ UNCHANGED <<wave, row, subs>>
       \/ /\ awaitFalse
          /\ NextRow(p, <<>>)
          /\ UNCHANGED wave
       \/ /\ awaitWaits(k, n)
          /\ Wait(p)
          /\ UNCHANGED <<pc, row, subs>>
    /\ UNCHANGED <<badCTU, col, state, bits, recon, result>>

\* Mutant of AwaitHandoff: the row above only has to have begun.
AwaitHandoff_one(p) == pc[p] = "handoff" /\ Await(p, row[p] - 1, 1, "load")

AwaitHandoff(p) == pc[p] = "handoff" /\ Await(p, row[p] - 1, Lag(0), "load")

\* e.cabac.state = v.ctx[k-1], read after the lock is released.
LoadContexts(p) ==
    /\ pc[p] = "load"
    /\ state' = [state EXCEPT ![p] = ctx[row[p] - 1]]
    /\ Goto(p, "await")
    /\ UNCHANGED <<wave, badCTU, row, col, bits, subs, recon, result>>

AwaitAbove(p) == pc[p] = "await" /\ Await(p, row[p] - 1, Lag(col[p]), "tree")

\* writeSAO and tree: the block is coded and reconstructed.
Tree(p) ==
    /\ pc[p] = "tree"
    /\ IF Here(p) \in badCTU
       THEN Goto(p, "fail") /\ UNCHANGED <<recon, state, bits>>
       ELSE /\ recon' = recon \cup {Here(p)}
            /\ state' = [state EXCEPT ![p] = <<row[p], col[p] + 1>>]
            /\ Write(p, <<"ctu", row[p], col[p]>>)
            /\ Goto(p, "terminate")
    /\ UNCHANGED <<wave, badCTU, row, col, subs, result>>

\* encodeTerminate(last), which leaves the contexts alone.
Terminate(p) ==
    /\ pc[p] = "terminate"
    /\ Write(p, <<"end", IF AtEnd(p) THEN 1 ELSE 0>>)
    /\ Goto(p, "publish")
    /\ UNCHANGED <<wave, badCTU, row, col, state, subs, recon, result>>

Publish(p) ==
    /\ pc[p] = "publish"
    /\ IF col[p] = 1 THEN saveCtx(row[p], state[p], 2)
                     ELSE advance(row[p], col[p] + 1)
    /\ Goto(p, "notify")
    /\ UNCHANGED <<badCTU, row, col, state, bits, subs, recon, result>>

\* Mutant of Notify: progress is published and nobody is woken.
Notify_silent(p) ==
    /\ pc[p] = "notify"
    /\ col' = [col EXCEPT ![p] = IF @ = Cols - 1 THEN @ ELSE @ + 1]
    /\ Goto(p, IF col[p] = Cols - 1 THEN "close"
               ELSE IF row[p] = 0 THEN "tree" ELSE "await")
    /\ UNCHANGED <<wave, badCTU, row, state, bits, subs, recon, result>>

\* The Broadcast, then the next turn of the loop over x or the end of it.
Notify(p) ==
    /\ pc[p] = "notify"
    /\ Broadcast
    /\ IF col[p] = Cols - 1
       THEN Goto(p, "close") /\ UNCHANGED col
       ELSE /\ col' = [col EXCEPT ![p] = @ + 1]
            /\ Goto(p, IF row[p] = 0 THEN "tree" ELSE "await")
    /\ UNCHANGED <<badCTU, row, state, bits, subs, recon, result>>

\* Mutant of Close: the last row is closed as a substream too.
Close_subset(p) ==
    /\ pc[p] = "close"
    /\ Write(p, <<"subset", 1>>)
    /\ NextRow(p, bits'[p])
    /\ UNCHANGED <<wave, badCTU, col, state, recon, result>>

\* encodeTerminate(1) behind every row but the last, and cabac.bytes().
Close(p) ==
    /\ pc[p] = "close"
    /\ IF AtEnd(p) THEN UNCHANGED bits ELSE Write(p, <<"subset", 1>>)
    /\ NextRow(p, bits'[p])
    /\ UNCHANGED <<wave, badCTU, col, state, recon, result>>

Fail(p) ==
    /\ pc[p] = "fail"
    /\ fail(row[p])
    /\ Goto(p, "failed")
    /\ UNCHANGED <<badCTU, row, col, state, bits, subs, recon, result>>

\* Mutant of Failed: a failure is recorded and nobody is woken.
Failed_silent(p) ==
    /\ pc[p] = "failed"
    /\ Goto(p, "exit")
    /\ UNCHANGED <<wave, badCTU, row, col, state, bits, subs, recon, result>>

Failed(p) ==
    /\ pc[p] = "failed"
    /\ Broadcast
    /\ Goto(p, "exit")
    /\ UNCHANGED <<badCTU, row, col, state, bits, subs, recon, result>>

\* wg.Wait() and the return.
Join ==
    /\ result = "none"
    /\ \A p \in Procs : pc[p] = "exit"
    /\ result' = IF err # NoErr THEN "error" ELSE "ok"
    /\ UNCHANGED <<wave, badCTU, local, subs, recon>>

Returned == result # "none" /\ UNCHANGED vars

Worker(p) ==
    \/ Row(p)
    \/ InitRow(p)
    \/ AwaitHandoff(p)
    \/ LoadContexts(p)
    \/ AwaitAbove(p)
    \/ Tree(p)
    \/ Terminate(p)
    \/ Publish(p)
    \/ Notify(p)
    \/ Close(p)
    \/ Fail(p)
    \/ Failed(p)

Next == Join \/ Returned \/ \E p \in Procs : Worker(p)

Spec == Init /\ [][Next]_vars

\* The Go scheduler runs every goroutine that can run.
Fairness == WF_vars(Join) /\ \A p \in Procs : WF_vars(Worker(p))
FairSpec == Spec /\ Fairness

-----------------------------------------------------------------------------
Symbols == ({"ctu"} \X RowIds \X ColIds) \cup ({"end", "subset"} \X {0, 1})

TypeOK ==
    /\ WaveTypeOK
    /\ badCTU \subseteq CTBs
    /\ pc \in [Procs -> PCs]
    /\ row \in [Procs -> Nat]
    /\ col \in [Procs -> ColIds]
    /\ state \in [Procs -> Contexts]
    /\ bits \in [Procs -> Seq(Symbols)]
    /\ subs \in [RowIds -> Seq(Symbols)]
    /\ recon \in SUBSET CTBs
    /\ result \in {"none", "ok", "error"}

Order == INSTANCE WaveOrder WITH recon <- recon

\* The encoder implements the abstract order: a block is coded once, and after
\* every block it predicts from is reconstructed.
ImplementsOrder == Order!Spec

\* 9.3.1: a row starts from the contexts the row above had after exactly two
\* blocks: what a decoder of the substream will start from.
CtxHandoff ==
    \A p \in Procs : pc[p] = "tree" /\ col[p] = 0 =>
        state[p] = IF row[p] = 0 THEN InitCtx ELSE <<row[p] - 1, 2>>

\* What 7.3.8.1 makes a decoder read from the substream of row k: for every
\* block its syntax and an end_of_slice_segment_flag, set on the very last, and
\* an end_of_subset_one_bit where another row follows.
Expected(k) ==
    [i \in 1 .. 2 * Cols + (IF k = LastRow THEN 0 ELSE 1) |->
        IF i > 2 * Cols THEN <<"subset", 1>>
        ELSE LET x == (i - 1) \div 2 IN
             IF i % 2 = 1 THEN <<"ctu", k, x>>
             ELSE <<"end", IF k = LastRow /\ x = Cols - 1 THEN 1 ELSE 0>>]

\* The picture is coded exactly when no block fails, whichever goroutine got
\* where; and then no substream is missing, cut short or another row's.
SubstreamsComplete ==
    result # "none" =>
        /\ result = "ok" <=> badCTU = {}
        /\ result = "ok" => \A k \in RowIds : subs[k] = Expected(k)

\* Encoding returns whatever happens: no row waits for ever for another.
Terminates == <>(result # "none")
=============================================================================
