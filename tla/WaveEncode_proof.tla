-------------------------- MODULE WaveEncode_proof --------------------------
(***************************************************************************)
(* Theorems about WaveEncode, for every size of the picture, every number  *)
(* of goroutines and every set of blocks that fail.                        *)
(***************************************************************************)
EXTENDS WaveEncode, SequenceTheorems, TLAPS

(* Rows, and who is dealt them.                                            *)

LEMMA LagType == \A c \in ColIds : Lag(c) \in 1 .. Cols /\ c < Lag(c)
  BY WaveAssumption DEF Lag, ColIds

LEMMA NextOwnRow == \A p \in Procs, r \in Nat : Owns(p, r) => Owns(p, r + Workers)
<1> SUFFICES ASSUME NEW p \in Procs, NEW i \in Nat
             PROVE Owns(p, p + i * Workers + Workers)
  BY DEF Owns
<1>1. Workers \in Nat /\ p \in Nat
  BY WaveAssumption DEF Procs
<1>2. i + 1 \in Nat /\ p + i * Workers + Workers = p + (i + 1) * Workers
  BY <1>1
<1> QED
  BY <1>2 DEF Owns

LEMMA EveryRowIsOwned == \A k \in Nat : \E p \in Procs : Owns(p, k)
<1> SUFFICES ASSUME NEW k \in Nat PROVE \E p \in Procs : Owns(p, k)
  OBVIOUS
<1>1. Workers \in Nat \ {0}
  BY WaveAssumption
<1>2. /\ k = (k % Workers) + (k \div Workers) * Workers
      /\ k % Workers \in 0 .. Workers - 1
      /\ k \div Workers \in Nat
  BY <1>1
<1>3. k % Workers \in Procs
  BY <1>2 DEF Procs
<1> QED
  BY <1>2, <1>3 DEF Owns

\* Nothing of goroutine p's lies between two rows it decodes in succession.
LEMMA NoRowBetween ==
    \A p \in Procs, r, k \in Nat : Owns(p, r) /\ Owns(p, k) /\ k < r + Workers => k <= r
<1> SUFFICES ASSUME NEW p \in Procs, NEW r \in Nat, NEW k \in Nat,
                    Owns(p, r), Owns(p, k), k < r + Workers, k > r
             PROVE FALSE
  OBVIOUS
<1>1. Workers \in Nat /\ p \in Nat
  BY WaveAssumption DEF Procs
<1>2. PICK i \in Nat : r = p + i * Workers
  BY DEF Owns
<1>3. PICK j \in Nat : k = p + j * Workers
  BY DEF Owns
<1>4. k - r = (j - i) * Workers /\ j - i \in Int
  BY <1>1, <1>2, <1>3
<1>5. \A x \in Int : (x <= 0 => x * Workers <= 0) /\ (x >= 1 => x * Workers >= Workers)
  BY <1>1
<1> QED
  BY <1>1, <1>4, <1>5

-----------------------------------------------------------------------------

InRow == {"init", "handoff", "load", "await", "tree", "terminate", "publish",
          "notify", "close", "fail", "failed"}

\* A goroutine that is inside waveRow is on a row of the picture, and waits
\* only for a row that exists.
OnARow ==
    \A p \in Procs :
        /\ pc[p] \in InRow => row[p] \in RowIds
        /\ pc[p] \in {"handoff", "load", "await"} => row[p] > 0

TypeInv == TypeOK /\ OnARow

LEMMA Places ==
    TypeInv => \A p \in Procs :
        /\ row[p] \in Nat /\ col[p] \in ColIds
        /\ col[p] \in Nat /\ col[p] + 1 \in 1 .. Cols
        /\ pc[p] \in InRow => row[p] \in RowIds
        /\ pc[p] \in {"handoff", "load", "await"} => row[p] - 1 \in RowIds
<1> SUFFICES ASSUME TypeInv, NEW p \in Procs
             PROVE  /\ row[p] \in Nat /\ col[p] \in ColIds
                    /\ col[p] \in Nat /\ col[p] + 1 \in 1 .. Cols
                    /\ pc[p] \in InRow => row[p] \in RowIds
                    /\ pc[p] \in {"handoff", "load", "await"} => row[p] - 1 \in RowIds
  OBVIOUS
<1>1. row[p] \in Nat /\ col[p] \in ColIds
  BY DEF TypeInv, TypeOK
<1>2. pc[p] \in InRow => row[p] \in RowIds
  BY DEF TypeInv, OnARow
<1>3. pc[p] \in {"handoff", "load", "await"} => row[p] \in RowIds /\ row[p] > 0
  BY DEF TypeInv, OnARow, InRow
<1> QED
  BY <1>1, <1>2, <1>3, WaveAssumption DEF ColIds, RowIds

LEMMA TypeInit == Init => TypeInv
<1>1. SUFFICES ASSUME Init PROVE TypeInv
  OBVIOUS
<1>2. WaveTypeOK
  <2>1. 0 \in 0 .. Cols /\ ZeroCtx \in Contexts
    BY WaveAssumption DEF Contexts
  <2> QED
    BY <1>1, <2>1 DEF Init, newWave, WaveTypeOK
<1>3. <<>> \in Seq(Symbols)
  OBVIOUS
<1>4. TypeOK
  BY <1>1, <1>2, <1>3, WaveAssumption, EncodeAssumption
  DEF Init, TypeOK, Procs, PCs, ColIds, Contexts
<1>5. OnARow
  BY <1>1 DEF Init, OnARow, InRow, PCs
<1> QED
  BY <1>4, <1>5 DEF TypeInv

\* A row given up or finished.
LEMMA TypeNextRow ==
    ASSUME TypeInv, NEW p \in Procs, NEW sub \in Seq(Symbols), NextRow(p, sub),
           pc[p] \in InRow
    PROVE  /\ pc' \in [Procs -> PCs]
           /\ row' \in [Procs -> Nat]
           /\ subs' \in [RowIds -> Seq(Symbols)]
<1>1. row[p] + Workers \in Nat
  BY WaveAssumption DEF TypeInv, TypeOK
<1> QED
  BY <1>1 DEF NextRow, Goto, TypeInv, TypeOK, PCs

LEMMA TypeNext == TypeInv /\ [Next]_vars => TypeInv'
<1> SUFFICES ASSUME TypeInv, [Next]_vars PROVE TypeInv'
  OBVIOUS
<1> USE WaveAssumption
<1> USE DEF TypeInv, wave, local
<1>1. ASSUME NEW p \in Procs, Worker(p) PROVE TypeInv'
  <2>1. CASE Row(p)
    <3>1. TypeOK'
      BY <2>1 DEF Row, Goto, TypeOK, WaveTypeOK, PCs
    <3>2. OnARow'
      BY <2>1 DEF Row, Goto, TypeOK, OnARow, InRow, RowIds
    <3> QED
      BY <3>1, <3>2
  <2>2. CASE InitRow(p)
    <3>1. col' \in [Procs -> ColIds] /\ state' \in [Procs -> Contexts]
      BY <2>2 DEF InitRow, TypeOK, ColIds, Contexts
    <3>2. bits' \in [Procs -> Seq(Symbols)]
      <4>1. <<>> \in Seq(Symbols)
        OBVIOUS
      <4> QED
        BY <2>2, <4>1 DEF InitRow, TypeOK
    <3>3. pc' \in [Procs -> PCs]
      BY <2>2 DEF InitRow, Goto, TypeOK, PCs
    <3>4. TypeOK'
      BY <2>2, <3>1, <3>2, <3>3 DEF InitRow, TypeOK, WaveTypeOK
    <3>5. OnARow'
      BY <2>2 DEF InitRow, Goto, TypeOK, OnARow, InRow, PCs, RowIds
    <3> QED
      BY <3>4, <3>5
  <2>3. ASSUME NEW k, NEW n, NEW label \in {"load", "tree"}, Await(p, k, n, label),
               pc[p] \in {"handoff", "await"}
        PROVE  TypeInv'
    <3>1. CASE awaitTrue(k, n) /\ Goto(p, label) /\ UNCHANGED <<wave, row, subs>>
      BY <2>3, <3>1 DEF Await, Goto, TypeOK, WaveTypeOK, OnARow, InRow, PCs
    <3>2. CASE awaitFalse /\ NextRow(p, <<>>) /\ UNCHANGED wave
      <4>1. <<>> \in Seq(Symbols) /\ pc[p] \in InRow
        BY <2>3 DEF InRow, PCs
      <4>2. TypeOK'
        BY <2>3, <3>2, <4>1, TypeNextRow DEF Await, TypeOK, WaveTypeOK
      <4> QED
        BY <2>3, <3>2, <4>2 DEF NextRow, Goto, TypeOK, OnARow, InRow
    <3>3. CASE awaitWaits(k, n) /\ Wait(p) /\ UNCHANGED <<pc, row, subs>>
      BY <2>3, <3>3 DEF Await, Wait, TypeOK, WaveTypeOK, OnARow
    <3> QED
      BY <2>3, <3>1, <3>2, <3>3 DEF Await
  <2>4. CASE AwaitHandoff(p) \/ AwaitAbove(p)
    BY <2>3, <2>4 DEF AwaitHandoff, AwaitAbove
  <2>5. CASE LoadContexts(p)
    <3>1. row[p] - 1 \in RowIds
      BY <2>5, Places DEF LoadContexts
    <3>2. state' \in [Procs -> Contexts]
      BY <2>5, <3>1 DEF LoadContexts, TypeOK, WaveTypeOK
    <3>3. pc' \in [Procs -> PCs]
      BY <2>5 DEF LoadContexts, Goto, TypeOK, PCs
    <3>4. OnARow'
      BY <2>5 DEF LoadContexts, Goto, TypeOK, OnARow, InRow, PCs
    <3> QED
      BY <2>5, <3>2, <3>3, <3>4 DEF LoadContexts, TypeOK, WaveTypeOK
  <2>6. CASE Tree(p)
    <3>1. row[p] \in RowIds /\ col[p] \in ColIds /\ col[p] + 1 \in 1 .. Cols
      BY <2>6, Places DEF Tree, InRow
    <3>2. recon' \in SUBSET CTBs
      BY <2>6, <3>1 DEF Tree, Here, CTBs, TypeOK
    <3>3. state' \in [Procs -> Contexts]
      BY <2>6, <3>1 DEF Tree, TypeOK, Contexts
    <3>4. bits' \in [Procs -> Seq(Symbols)]
      <4>1. <<"ctu", row[p], col[p]>> \in Symbols
        BY <3>1 DEF Symbols
      <4>2. Append(bits[p], <<"ctu", row[p], col[p]>>) \in Seq(Symbols)
        BY <4>1, AppendProperties DEF TypeOK
      <4> QED
        BY <2>6, <4>2 DEF Tree, Write, TypeOK
    <3>5. pc' \in [Procs -> PCs] /\ OnARow'
      BY <2>6 DEF Tree, Goto, TypeOK, OnARow, InRow, PCs
    <3> QED
      BY <2>6, <3>2, <3>3, <3>4, <3>5 DEF Tree, TypeOK, WaveTypeOK
  <2>7. CASE Terminate(p)
    <3>1. bits' \in [Procs -> Seq(Symbols)]
      <4> DEFINE sym == <<"end", IF AtEnd(p) THEN 1 ELSE 0>>
      <4>1. sym \in Symbols
        BY DEF Symbols
      <4>2. Append(bits[p], sym) \in Seq(Symbols)
        BY <4>1, AppendProperties DEF TypeOK
      <4> QED
        BY <2>7, <4>2 DEF Terminate, Write, TypeOK
    <3>2. pc' \in [Procs -> PCs] /\ OnARow'
      BY <2>7 DEF Terminate, Goto, TypeOK, OnARow, InRow, PCs
    <3> QED
      BY <2>7, <3>1, <3>2 DEF Terminate, TypeOK, WaveTypeOK
  <2>8. CASE Publish(p)
    <3>1. row[p] \in RowIds /\ col[p] + 1 \in 0 .. Cols /\ 2 \in 0 .. Cols
      BY <2>8, Places DEF Publish, InRow
    <3>2. WaveTypeOK'
      BY <2>8, <3>1 DEF Publish, saveCtx, advance, TypeOK, WaveTypeOK
    <3>3. pc' \in [Procs -> PCs] /\ OnARow'
      BY <2>8 DEF Publish, Goto, TypeOK, OnARow, InRow, PCs
    <3> QED
      BY <2>8, <3>2, <3>3 DEF Publish, TypeOK
  <2>9. CASE Notify(p)
    <3>1. col' \in [Procs -> ColIds]
      <4>1. col[p] # Cols - 1 => col[p] + 1 \in ColIds
        BY Places DEF ColIds
      <4>2. col \in [Procs -> ColIds]
        BY DEF TypeOK
      <4> QED
        BY <2>9, <4>1, <4>2 DEF Notify
    <3>2. pc' \in [Procs -> PCs] /\ OnARow'
      <4>1. /\ pc[p] = "notify" /\ row' = row
            /\ pc'[p] \in {"close", "tree", "await"}
            /\ pc'[p] = "await" => row[p] # 0
            /\ pc' = [pc EXCEPT ![p] = pc'[p]] /\ pc \in [Procs -> PCs]
        BY <2>9 DEF Notify, Goto, TypeOK
      <4>2. row[p] \in RowIds /\ row[p] \in Nat
        BY <4>1, Places DEF InRow
      <4> QED
        BY <4>1, <4>2 DEF OnARow, InRow, PCs
    <3> QED
      BY <2>9, <3>1, <3>2 DEF Notify, Broadcast, TypeOK, WaveTypeOK
  <2>10. CASE Close(p)
    <3>1. pc[p] \in InRow
      BY <2>10 DEF Close, InRow, PCs
    <3>2. bits' \in [Procs -> Seq(Symbols)]
      <4>1. <<"subset", 1>> \in Symbols
        BY DEF Symbols
      <4>2. Append(bits[p], <<"subset", 1>>) \in Seq(Symbols)
        BY <4>1, AppendProperties DEF TypeOK
      <4> QED
        BY <2>10, <4>2 DEF Close, Write, TypeOK
    <3>3. NextRow(p, bits'[p]) /\ bits'[p] \in Seq(Symbols)
      BY <2>10, <3>2 DEF Close
    <3>4. TypeOK'
      BY <2>10, <3>1, <3>2, <3>3, TypeNextRow DEF Close, TypeOK, WaveTypeOK
    <3>5. OnARow'
      BY <3>3 DEF NextRow, Goto, TypeOK, OnARow, InRow
    <3> QED
      BY <3>4, <3>5
  <2>11. CASE Fail(p)
    <3>1. row[p] \in RowIds
      BY <2>11 DEF Fail, OnARow, InRow, PCs
    <3> QED
      BY <2>11, <3>1 DEF Fail, Goto, fail, TypeOK, WaveTypeOK, OnARow, PCs, InRow
  <2>12. CASE Failed(p)
    BY <2>12 DEF Failed, Goto, Broadcast, TypeOK, WaveTypeOK, OnARow, PCs, InRow
  <2> QED
    BY <1>1, <2>1, <2>2, <2>4, <2>5, <2>6, <2>7, <2>8, <2>9, <2>10, <2>11, <2>12 DEF Worker
<1>2. CASE Join
  BY <1>2 DEF Join, TypeOK, WaveTypeOK, OnARow
<1>3. CASE UNCHANGED vars
  BY <1>3 DEF vars, TypeOK, WaveTypeOK, OnARow
<1> QED
  BY <1>1, <1>2, <1>3 DEF Next, Returned

\* Every variable holds what its declaration says it holds: among others, no
\* goroutine ever indexes the progress, the contexts or the substreams outside
\* the picture.
THEOREM TypeCorrect == Spec => []TypeOK
<1>1. TypeInv => TypeOK
  BY DEF TypeInv
<1> QED
  BY <1>1, TypeInit, TypeNext, PTL DEF Spec

\* What one pass through the loop of await does to the goroutines.
LEMMA AwaitOutcome ==
    ASSUME TypeInv, NEW p \in Procs, NEW k, NEW n, NEW label, Await(p, k, n, label)
    PROVE  /\ UNCHANGED <<done, ctx, err, bad, badCTU, col, state, bits, recon, result>>
           /\ \A q \in Procs : q # p => pc'[q] = pc[q] /\ row'[q] = row[q]
           /\ \/ pc'[p] = label /\ done[k] >= n /\ UNCHANGED <<row, subs>>
              \/ pc'[p] = "row" /\ bad /\ row'[p] = row[p] + Workers
              \/ UNCHANGED <<pc, row, subs>>
  BY DEF Await, awaitTrue, awaitFalse, Wait, NextRow, Goto, wave, TypeInv, TypeOK

-----------------------------------------------------------------------------
\* The row of goroutine p has gone past its second block.
PastSecond(p) ==
    \/ pc[p] \in {"await", "tree", "terminate", "publish"} /\ col[p] >= 2
    \/ pc[p] \in {"notify", "close"} /\ col[p] >= 1

\* What makes the hand-off right: progress of two implies saved contexts, and
\* they are never anything but the state after two blocks.
SavedContexts == \A k \in RowIds : done[k] >= 2 => ctx[k] = <<k, 2>>

RowContexts ==
    \A p \in Procs :
        /\ pc[p] \in {"handoff", "load"} => col[p] = 0
        /\ pc[p] \in {"terminate", "publish"} => state[p] = <<row[p], col[p] + 1>>
        /\ PastSecond(p) => ctx[row[p]] = <<row[p], 2>>
        /\ pc[p] = "load" => ctx[row[p] - 1] = <<row[p] - 1, 2>>
        /\ pc[p] \in {"await", "tree"} /\ col[p] = 0 =>
              state[p] = IF row[p] = 0 THEN InitCtx ELSE <<row[p] - 1, 2>>

ContextInv == SavedContexts /\ RowContexts

LEMMA ContextInit == Init => ContextInv
  BY WaveAssumption DEF Init, newWave, ContextInv, SavedContexts, RowContexts, PastSecond

LEMMA ContextNext == TypeInv /\ ContextInv /\ [Next]_vars => ContextInv'
<1> SUFFICES ASSUME TypeInv, ContextInv, [Next]_vars PROVE ContextInv'
  OBVIOUS
<1> USE WaveAssumption DEF ContextInv, wave, local
<1>0. pc \in [Procs -> PCs] /\ state \in [Procs -> Contexts] /\ col \in [Procs -> ColIds] /\ row \in [Procs -> Nat]
  BY DEF TypeInv, TypeOK
<1>1. ASSUME NEW p \in Procs, Worker(p) PROVE ContextInv'
  <2>0. /\ row[p] \in Nat /\ col[p] \in Nat
        /\ pc[p] = "publish" => row[p] \in RowIds
        /\ pc[p] \in {"handoff", "load"} => row[p] - 1 \in RowIds
    BY Places DEF InRow
  <2>1. CASE Row(p)
    BY <1>0, <2>1 DEF Row, Goto, SavedContexts, RowContexts, PastSecond
  <2>2. CASE InitRow(p)
    BY <1>0, <2>2 DEF InitRow, Goto, SavedContexts, RowContexts, PastSecond
  <2>3. CASE AwaitHandoff(p)
    <3>1. pc[p] = "handoff" /\ row[p] - 1 \in RowIds /\ Lag(0) = 2
      BY <1>0, <2>0, <2>3 DEF AwaitHandoff, Lag
    <3>2. done[row[p] - 1] >= 2 => ctx[row[p] - 1] = <<row[p] - 1, 2>>
      BY <3>1 DEF SavedContexts
    <3>3. Await(p, row[p] - 1, 2, "load")
      BY <2>3, <3>1 DEF AwaitHandoff
    <3> QED
      BY <1>0, <3>1, <3>2, <3>3, AwaitOutcome DEF SavedContexts, RowContexts, PastSecond
  <2>4. CASE LoadContexts(p)
    <3>1. row[p] # 0 /\ ctx[row[p] - 1] = <<row[p] - 1, 2>> /\ col[p] = 0
      BY <1>0, <2>0, <2>4 DEF LoadContexts, RowContexts, RowIds
    <3> QED
      BY <1>0, <2>4, <3>1 DEF LoadContexts, Goto, SavedContexts, RowContexts, PastSecond
  <2>5. CASE AwaitAbove(p)
    <3>1. pc[p] = "await" /\ Await(p, row[p] - 1, Lag(col[p]), "tree")
      BY <2>5 DEF AwaitAbove
    <3> QED
      BY <1>0, <3>1, AwaitOutcome DEF SavedContexts, RowContexts, PastSecond
  <2>6. CASE Tree(p)
    BY <1>0, <2>6 DEF Tree, Goto, SavedContexts, RowContexts, PastSecond
  <2>7. CASE Terminate(p)
    BY <1>0, <2>7 DEF Terminate, Goto, SavedContexts, RowContexts, PastSecond
  <2>8. CASE Publish(p)
    <3>1. /\ row[p] \in RowIds /\ col[p] \in Nat /\ pc[p] = "publish"
          /\ pc' = [pc EXCEPT ![p] = "notify"] /\ UNCHANGED <<row, col, state>>
          /\ col[p] = 1 => state[p] = <<row[p], 2>>
          /\ col[p] >= 2 => ctx[row[p]] = <<row[p], 2>>
      BY <1>0, <2>0, <2>8 DEF Publish, Goto, RowContexts, PastSecond
    <3>2. \/ /\ col[p] = 1
             /\ ctx' = [ctx EXCEPT ![row[p]] = <<row[p], 2>>]
             /\ done' = [done EXCEPT ![row[p]] = 2]
          \/ /\ col[p] # 1
             /\ ctx' = ctx
             /\ done' = [done EXCEPT ![row[p]] = col[p] + 1]
      BY <2>8, <3>1 DEF Publish, saveCtx, advance
    <3>3. done \in [RowIds -> 0 .. Cols] /\ ctx \in [RowIds -> Contexts]
      BY DEF TypeInv, TypeOK, WaveTypeOK
    <3>4. SavedContexts'
      BY <3>1, <3>2, <3>3 DEF SavedContexts
    <3>5. \A k \in RowIds : ctx[k] = <<k, 2>> => ctx'[k] = <<k, 2>>
      BY <3>1, <3>2, <3>3
    <3>6. PastSecond(p)' => ctx'[row[p]] = <<row[p], 2>>
      BY <1>0, <3>1, <3>2, <3>3 DEF PastSecond
    <3>7. RowContexts'
      <4> SUFFICES ASSUME NEW q \in Procs PROVE RowContexts!(q)'
        BY DEF RowContexts
      <4>1. CASE q = p
        BY <1>0, <3>1, <3>6, <4>1 DEF RowContexts
      <4>2. CASE q # p
        <5>1. UNCHANGED <<pc[q], row[q], col[q], state[q]>>
          BY <1>0, <3>1, <4>2
        <5>2. PastSecond(q) => row[q] \in RowIds
          BY Places DEF PastSecond, InRow
        <5>3. pc[q] = "load" => row[q] - 1 \in RowIds
          BY Places
        <5>4. PastSecond(q)' => PastSecond(q)
          BY <5>1 DEF PastSecond
        <5> QED
          BY <5>1, <5>2, <5>3, <5>4, <3>5 DEF RowContexts
      <4> QED
        BY <4>1, <4>2
    <3> QED
      BY <3>4, <3>7
  <2>9. CASE Notify(p)
    <3>1. col[p] \in Nat /\ (col[p] + 1 >= 2 => ctx[row[p]] = <<row[p], 2>>)
      BY <1>0, <2>0, <2>9 DEF Notify, RowContexts, PastSecond
    <3> QED
      BY <1>0, <2>9, <3>1 DEF Notify, Goto, Broadcast, SavedContexts, RowContexts, PastSecond
  <2>10. CASE Close(p)
    BY <1>0, <2>10 DEF Close, NextRow, Goto, SavedContexts, RowContexts, PastSecond
  <2>11. CASE Fail(p)
    BY <1>0, <2>11 DEF Fail, Goto, fail, SavedContexts, RowContexts, PastSecond
  <2>12. CASE Failed(p)
    BY <1>0, <2>12 DEF Failed, Goto, Broadcast, SavedContexts, RowContexts, PastSecond
  <2> QED
    BY <1>1, <2>1, <2>2, <2>3, <2>4, <2>5, <2>6, <2>7, <2>8, <2>9, <2>10, <2>11, <2>12 DEF Worker
<1>2. CASE Join
  BY <1>2 DEF Join, SavedContexts, RowContexts, PastSecond
<1>3. CASE UNCHANGED vars
  BY <1>3 DEF vars, SavedContexts, RowContexts, PastSecond
<1> QED
  BY <1>1, <1>2, <1>3 DEF Next, Returned

\* CtxHandoff for every picture: each row is coded from the contexts a decoder
\* of its substream will start from, whatever the interleaving.
THEOREM ContextHandoff == Spec => []CtxHandoff
<1>1. ContextInv => CtxHandoff
  BY DEF ContextInv, RowContexts, CtxHandoff
<1> QED
  BY <1>1, TypeInit, TypeNext, ContextInit, ContextNext, PTL DEF Spec

-----------------------------------------------------------------------------
\* What makes the prediction right: progress never runs ahead of the blocks,
\* and a goroutine in a row has all of it behind it.
DoneIsReconstructed ==
    \A k \in RowIds, c \in ColIds : c < done[k] => <<k, c>> \in recon

RowIsReconstructed ==
    \A p \in Procs, c \in ColIds :
        /\ pc[p] \in {"await", "tree"} /\ c < col[p] => <<row[p], c>> \in recon
        /\ pc[p] \in {"terminate", "publish", "notify", "close"} /\ c <= col[p] =>
              <<row[p], c>> \in recon
        /\ pc[p] = "tree" /\ row[p] > 0 /\ c < Lag(col[p]) =>
              <<row[p] - 1, c>> \in recon

PredictionInv == DoneIsReconstructed /\ RowIsReconstructed

LEMMA PredictionInit == Init => PredictionInv
  BY DEF Init, newWave, PredictionInv, DoneIsReconstructed, RowIsReconstructed, ColIds

\* A step that codes no block and publishes no progress.
LEMMA StepReconstructed ==
    ASSUME TypeInv, PredictionInv, NEW p \in Procs, UNCHANGED <<done, recon>>,
           \A q \in Procs : q # p => UNCHANGED <<pc[q], row[q], col[q]>>,
           \A c \in ColIds : RowIsReconstructed!(p, c)'
    PROVE  PredictionInv'
<1>1. DoneIsReconstructed'
  BY DEF PredictionInv, DoneIsReconstructed
<1>2. ASSUME NEW q \in Procs, NEW c \in ColIds PROVE RowIsReconstructed!(q, c)'
  BY DEF PredictionInv, RowIsReconstructed
<1>3. RowIsReconstructed'
  BY <1>2 DEF RowIsReconstructed
<1> QED
  BY <1>1, <1>3 DEF PredictionInv

LEMMA PredictionNext == TypeInv /\ ContextInv /\ PredictionInv /\ [Next]_vars => PredictionInv'
<1> SUFFICES ASSUME TypeInv, ContextInv, PredictionInv, [Next]_vars PROVE PredictionInv'
  OBVIOUS
<1> USE WaveAssumption DEF PredictionInv, wave, local
<1>0. /\ pc \in [Procs -> PCs] /\ row \in [Procs -> Nat] /\ col \in [Procs -> ColIds]
      /\ done \in [RowIds -> 0 .. Cols] /\ recon \in SUBSET CTBs
  BY DEF TypeInv, TypeOK, WaveTypeOK
<1>1. ASSUME NEW p \in Procs, Worker(p) PROVE PredictionInv'
  <2>0. /\ row[p] \in Nat /\ col[p] \in ColIds /\ col[p] \in Nat
        /\ pc[p] = "publish" => row[p] \in RowIds
        /\ pc[p] = "await" => row[p] - 1 \in RowIds
    BY Places DEF InRow
  <2>1. CASE Row(p)
    BY <1>0, <2>1 DEF Row, Goto, DoneIsReconstructed, RowIsReconstructed
  <2>2. CASE InitRow(p)
    BY <1>0, <2>2 DEF InitRow, Goto, DoneIsReconstructed, RowIsReconstructed, ColIds
  <2>3. CASE AwaitHandoff(p)
    <3>1. pc[p] = "handoff" /\ Await(p, row[p] - 1, Lag(0), "load")
      BY <2>3 DEF AwaitHandoff
    <3> QED
      BY <1>0, <3>1, AwaitOutcome DEF DoneIsReconstructed, RowIsReconstructed
  <2>4. CASE LoadContexts(p)
    <3>1. col[p] = 0
      BY <2>4 DEF LoadContexts, ContextInv, RowContexts
    <3> QED
      BY <1>0, <2>4, <3>1 DEF LoadContexts, Goto, DoneIsReconstructed, RowIsReconstructed, ColIds
  <2>5. CASE AwaitAbove(p)
    <3>1. pc[p] = "await" /\ row[p] - 1 \in RowIds /\ Await(p, row[p] - 1, Lag(col[p]), "tree")
      BY <2>0, <2>5 DEF AwaitAbove
    <3>2. ASSUME done[row[p] - 1] >= Lag(col[p]), NEW c \in ColIds, c < Lag(col[p])
          PROVE  <<row[p] - 1, c>> \in recon
      <4>1. c < done[row[p] - 1]
        BY <1>0, <2>0, <3>1, <3>2, LagType DEF ColIds
      <4> QED
        BY <3>1, <4>1 DEF DoneIsReconstructed
    <3>3. \A c \in ColIds : c < col[p] => <<row[p], c>> \in recon
      BY <3>1 DEF RowIsReconstructed
    <3>4. ASSUME NEW c \in ColIds PROVE RowIsReconstructed!(p, c)'
      <4>1. UNCHANGED <<done, col, recon>>
        BY <3>1, AwaitOutcome
      <4>2. \/ pc'[p] = "tree" /\ done[row[p] - 1] >= Lag(col[p]) /\ row' = row
            \/ pc'[p] = "row"
            \/ UNCHANGED <<pc, row>>
        BY <3>1, AwaitOutcome
      <4>3. CASE pc'[p] = "tree" /\ done[row[p] - 1] >= Lag(col[p]) /\ row' = row
        BY <3>2, <3>3, <4>1, <4>3 DEF Lag
      <4>4. CASE pc'[p] = "row"
        BY <4>4
      <4>5. CASE UNCHANGED <<pc, row>>
        BY <4>1, <4>5 DEF RowIsReconstructed
      <4> QED
        BY <4>2, <4>3, <4>4, <4>5
    <3> QED
      BY <3>1, <3>4, AwaitOutcome, StepReconstructed
  <2>6. CASE Tree(p)
    <3>1. /\ pc[p] = "tree" /\ pc' = [pc EXCEPT ![p] = pc'[p]]
          /\ pc'[p] \in {"fail", "terminate"}
          /\ pc'[p] = "terminate" => <<row[p], col[p]>> \in recon'
          /\ recon \subseteq recon' /\ UNCHANGED <<row, col, done>>
      BY <1>0, <2>6 DEF Tree, Goto, Here
    <3>2. DoneIsReconstructed'
      BY <3>1 DEF DoneIsReconstructed
    <3>3. ASSUME NEW q \in Procs, NEW c \in ColIds PROVE RowIsReconstructed!(q, c)'
      <4>1. CASE q # p
        BY <1>0, <3>1, <4>1 DEF RowIsReconstructed
      <4>2. CASE q = p
        <5>1. c <= col[p] => c < col[p] \/ c = col[p]
          BY <2>0 DEF ColIds
        <5> QED
          BY <1>0, <3>1, <4>2, <5>1 DEF RowIsReconstructed
      <4> QED
        BY <4>1, <4>2
    <3>4. RowIsReconstructed'
      BY <3>3 DEF RowIsReconstructed
    <3> QED
      BY <3>2, <3>4
  <2>7. CASE Terminate(p)
    BY <1>0, <2>7 DEF Terminate, Goto, DoneIsReconstructed, RowIsReconstructed
  <2>8. CASE Publish(p)
    <3>1. /\ pc[p] = "publish" /\ row[p] \in RowIds
          /\ done' = [done EXCEPT ![row[p]] = col[p] + 1]
          /\ recon' = recon
      BY <2>0, <2>8 DEF Publish, saveCtx, advance
    <3>2. ASSUME NEW c \in ColIds, c < col[p] + 1 PROVE <<row[p], c>> \in recon
      <4>1. c <= col[p]
        BY <2>0, <3>2 DEF ColIds
      <4> QED
        BY <3>1, <4>1 DEF RowIsReconstructed
    <3>3. DoneIsReconstructed'
      BY <1>0, <3>1, <3>2 DEF DoneIsReconstructed
    <3>4. RowIsReconstructed'
      BY <1>0, <2>8 DEF Publish, Goto, saveCtx, advance, RowIsReconstructed
    <3> QED
      BY <3>3, <3>4
  <2>9. CASE Notify(p)
    <3>1. DoneIsReconstructed'
      BY <2>9 DEF Notify, Broadcast, DoneIsReconstructed
    <3>2. \A c \in ColIds : c < col[p] + 1 => c <= col[p]
      BY <2>0 DEF ColIds
    <3>3. RowIsReconstructed'
      BY <1>0, <2>9, <3>2 DEF Notify, Broadcast, Goto, RowIsReconstructed
    <3> QED
      BY <3>1, <3>3
  <2>10. CASE Close(p)
    BY <1>0, <2>10 DEF Close, NextRow, Goto, DoneIsReconstructed, RowIsReconstructed
  <2>11. CASE Fail(p)
    BY <1>0, <2>11 DEF Fail, Goto, fail, DoneIsReconstructed, RowIsReconstructed
  <2>12. CASE Failed(p)
    BY <1>0, <2>12 DEF Failed, Goto, Broadcast, DoneIsReconstructed, RowIsReconstructed
  <2> QED
    BY <1>1, <2>1, <2>2, <2>3, <2>4, <2>5, <2>6, <2>7, <2>8, <2>9, <2>10, <2>11, <2>12 DEF Worker
<1>2. CASE Join
  BY <1>2 DEF Join, DoneIsReconstructed, RowIsReconstructed
<1>3. CASE UNCHANGED vars
  BY <1>3 DEF vars, DoneIsReconstructed, RowIsReconstructed
<1> QED
  BY <1>1, <1>2, <1>3 DEF Next, Returned

\* Inside tree every neighbour is in place: left by the row itself, the three
\* above by the progress it waited for.
LEMMA NeighboursInPlace ==
    ASSUME TypeInv, PredictionInv, NEW p \in Procs, pc[p] = "tree"
    PROVE  Order!Neighbours(Here(p)) \subseteq recon
<1> SUFFICES ASSUME NEW n \in Order!Neighbours(Here(p)) PROVE n \in recon
  OBVIOUS
<1>1. /\ row[p] \in RowIds /\ row[p] \in Nat
      /\ col[p] \in ColIds /\ col[p] \in Nat
      /\ Cols \in Nat
  BY WaveAssumption, Places DEF InRow
<1>2. PICK k \in RowIds, c \in ColIds : n = <<k, c>>
  BY DEF Order!Neighbours, Order!CTBs, Order!RowIds, Order!ColIds, RowIds, ColIds
<1>3. \/ k = row[p] /\ c = col[p] - 1
      \/ k = row[p] - 1 /\ c \in col[p] - 1 .. col[p] + 1
  BY <1>2 DEF Order!Neighbours, Here
<1>4. c \in Int /\ c < Cols /\ k \in Int /\ k >= 0
  BY WaveAssumption DEF ColIds, RowIds
<1>5. CASE k = row[p] /\ c = col[p] - 1
  <2>1. c < col[p]
    BY <1>1, <1>4, <1>5
  <2> QED
    BY <1>2, <1>5, <2>1 DEF PredictionInv, RowIsReconstructed
<1>6. CASE k = row[p] - 1 /\ c \in col[p] - 1 .. col[p] + 1
  <2>1. c < Lag(col[p]) /\ row[p] > 0
    BY <1>1, <1>4, <1>6 DEF Lag
  <2> QED
    BY <1>2, <1>6, <2>1 DEF PredictionInv, RowIsReconstructed
<1> QED
  BY <1>3, <1>5, <1>6

\* ImplementsOrder for every picture: encodeWavefront never codes a block before
\* the blocks it predicts from are reconstructed.
THEOREM Refinement == Spec => ImplementsOrder
<1>1. Init => Order!Init
  BY DEF Init, Order!Init
<1>2. TypeInv /\ PredictionInv /\ [Next]_vars => [Order!Next]_recon
  <2> SUFFICES ASSUME TypeInv, PredictionInv, [Next]_vars
               PROVE Order!Next \/ UNCHANGED recon
    OBVIOUS
  <2>1. ASSUME NEW p \in Procs, Tree(p), recon' # recon
        PROVE Order!Next
    <3>1. /\ pc[p] = "tree" /\ row[p] \in RowIds /\ col[p] \in ColIds
          /\ recon' = recon \cup {Here(p)}
      BY <2>1, Places DEF Tree, InRow
    <3>2. Here(p) \in Order!CTBs
      BY <3>1 DEF Here, Order!CTBs, Order!RowIds, Order!ColIds, RowIds, ColIds
    <3>3. Order!Neighbours(Here(p)) \subseteq recon
      BY <3>1, NeighboursInPlace
    <3>4. Here(p) \notin recon
      BY <2>1, <3>1
    <3> QED
      BY <3>1, <3>2, <3>3, <3>4 DEF Order!Next, Order!Reconstruct
  <2>2. ASSUME NEW p \in Procs, Worker(p), ~Tree(p)
        PROVE UNCHANGED recon
    BY <2>2 DEF Worker, Row, InitRow, AwaitHandoff, LoadContexts, AwaitAbove, Await,
                Terminate, Publish, Notify, Close, Fail, Failed
  <2> QED
    BY <2>1, <2>2 DEF Next, Join, Returned, vars
<1> QED
  BY <1>1, <1>2, TypeInit, TypeNext, ContextInit, ContextNext, PredictionInit,
     PredictionNext, PTL
  DEF Spec, ImplementsOrder, Order!Spec

-----------------------------------------------------------------------------
\* How many of the symbols of its row goroutine p has written.
Count(p) ==
    CASE pc[p] \in {"handoff", "load", "await", "tree"}  -> 2 * col[p]
      [] pc[p] = "terminate"                             -> 2 * col[p] + 1
      [] pc[p] \in {"publish", "notify", "close"}        -> 2 * col[p] + 2

Coding == {"handoff", "load", "await", "tree", "terminate", "publish", "notify", "close"}

\* What a goroutine has written is how the substream of its row begins.
WrittenBy(p) ==
    pc[p] \in Coding =>
        /\ Len(bits[p]) = Count(p)
        /\ \A i \in 1 .. Count(p) : bits[p][i] = Expected(row[p])[i]

Written == \A p \in Procs : WrittenBy(p)

\* Unless something failed, the rows a goroutine has behind it are complete.
RowsCoded ==
    /\ \A p \in Procs : Owns(p, row[p])
    /\ \A p \in Procs : pc[p] = "close" => col[p] = Cols - 1
    /\ ~bad => \A p \in Procs, k \in RowIds : Owns(p, k) /\ k < row[p] =>
                  /\ subs[k] = Expected(k)
                  /\ \A c \in ColIds : <<k, c>> \in recon
    /\ ~bad => \A p \in Procs : pc[p] = "exit" => row[p] >= Rows

\* A failure is recorded exactly when a block that fails has been met.
FailuresReal ==
    /\ bad <=> err # NoErr
    /\ bad => badCTU # {}
    /\ \A p \in Procs : pc[p] = "fail" => Here(p) \in badCTU
    /\ \A p \in Procs : pc[p] = "failed" => bad
    /\ recon \cap badCTU = {}

ReturnedRight ==
    result # "none" =>
        /\ \A p \in Procs : pc[p] = "exit"
        /\ result = IF err # NoErr THEN "error" ELSE "ok"

CompleteInv == Written /\ RowsCoded /\ FailuresReal /\ ReturnedRight

LEMMA ExpectedIs ==
    ASSUME NEW k \in RowIds
    PROVE  /\ Expected(k) \in Seq(Symbols)
           /\ Len(Expected(k)) = IF k = LastRow THEN 2 * Cols ELSE 2 * Cols + 1
           /\ \A c \in ColIds :
                 /\ Expected(k)[2 * c + 1] = <<"ctu", k, c>>
                 /\ Expected(k)[2 * c + 2] =
                       <<"end", IF k = LastRow /\ c = Cols - 1 THEN 1 ELSE 0>>
           /\ k # LastRow => Expected(k)[2 * Cols + 1] = <<"subset", 1>>
<1> DEFINE n == 2 * Cols + (IF k = LastRow THEN 0 ELSE 1)
           at(i) == IF i > 2 * Cols THEN <<"subset", 1>>
                    ELSE LET x == (i - 1) \div 2 IN
                         IF i % 2 = 1 THEN <<"ctu", k, x>>
                         ELSE <<"end", IF k = LastRow /\ x = Cols - 1 THEN 1 ELSE 0>>
<1>1. Cols \in Nat /\ Cols >= 2 /\ n \in Nat
  BY WaveAssumption
<1>2. Expected(k) = [i \in 1 .. n |-> at(i)]
  BY DEF Expected
<1>3. ASSUME NEW i \in 1 .. n PROVE at(i) \in Symbols
  <2>1. CASE i > 2 * Cols
    BY <2>1 DEF Symbols
  <2>2. CASE i <= 2 * Cols
    <3>1. (i - 1) \div 2 \in ColIds
      BY <1>1, <2>2 DEF ColIds
    <3> QED
      BY <1>1, <2>2, <3>1 DEF Symbols
  <2> QED
    BY <1>1, <2>1, <2>2
<1>4. Expected(k) \in Seq(Symbols) /\ Len(Expected(k)) = n
  <2>1. Expected(k) \in [1 .. n -> Symbols]
    BY <1>2, <1>3
  <2> QED
    BY <1>1, <2>1, SeqDef
<1>5. ASSUME NEW c \in ColIds
      PROVE  /\ Expected(k)[2 * c + 1] = <<"ctu", k, c>>
             /\ Expected(k)[2 * c + 2] =
                   <<"end", IF k = LastRow /\ c = Cols - 1 THEN 1 ELSE 0>>
  <2>1. ASSUME NEW i, i = 2 * c + 1 PROVE Expected(k)[i] = <<"ctu", k, c>>
    <3>1. i \in 1 .. n /\ ~(i > 2 * Cols) /\ i % 2 = 1 /\ (i - 1) \div 2 = c
      BY <1>1, <2>1 DEF ColIds
    <3>2. at(i) = <<"ctu", k, (i - 1) \div 2>>
      BY <3>1, Zenon
    <3> HIDE DEF n, at
    <3> QED
      BY <1>2, <3>1, <3>2
  <2>2. ASSUME NEW i, i = 2 * c + 2
        PROVE  Expected(k)[i] = <<"end", IF k = LastRow /\ c = Cols - 1 THEN 1 ELSE 0>>
    <3>1. i \in 1 .. n /\ ~(i > 2 * Cols) /\ i % 2 # 1 /\ (i - 1) \div 2 = c
      BY <1>1, <2>2 DEF ColIds
    <3>2. at(i) = <<"end", IF k = LastRow /\ (i - 1) \div 2 = Cols - 1 THEN 1 ELSE 0>>
      BY <3>1, Zenon
    <3> HIDE DEF n, at
    <3> QED
      BY <1>2, <3>1, <3>2
  <2> QED
    BY <2>1, <2>2
<1>6. k # LastRow => Expected(k)[2 * Cols + 1] = <<"subset", 1>>
  BY <1>1, <1>2
<1> QED
  BY <1>1, <1>4, <1>5, <1>6

\* A sequence that begins like e still does with e's next symbol behind it.
LEMMA AppendNext ==
    ASSUME NEW S, NEW s \in Seq(S), NEW x \in S, NEW e, NEW n \in Nat, Len(s) = n,
           \A i \in 1 .. n : s[i] = e[i], e[n + 1] = x
    PROVE  /\ Len(Append(s, x)) = n + 1
           /\ \A i \in 1 .. n + 1 : Append(s, x)[i] = e[i]
<1>1. Len(Append(s, x)) = n + 1 /\ Append(s, x)[n + 1] = x
  BY AppendProperties
<1>2. \A i \in 1 .. n : Append(s, x)[i] = s[i]
  BY AppendProperties
<1>3. \A i \in 1 .. n + 1 : i \in 1 .. n \/ i = n + 1
  OBVIOUS
<1> QED
  BY <1>1, <1>2, <1>3

\* What one goroutine does leaves the others' substreams alone.
LEMMA StepWritten ==
    ASSUME Written, NEW p \in Procs, WrittenBy(p)',
           \A q \in Procs : q # p => UNCHANGED <<pc[q], row[q], col[q], bits[q]>>
    PROVE  Written'
<1>1. ASSUME NEW q \in Procs, q # p PROVE WrittenBy(q)'
  <2>1. UNCHANGED <<pc[q], row[q], col[q], bits[q]>> /\ WrittenBy(q)
    BY <1>1 DEF Written
  <2>2. Expected(row[q])' = Expected(row[q]) /\ Count(q)' = Count(q)
    BY <2>1 DEF Expected, Count
  <2> QED
    BY <2>1, <2>2 DEF WrittenBy
<1> QED
  BY <1>1 DEF Written

LEMMA WrittenNext == TypeInv /\ Written /\ [Next]_vars => Written'
<1> SUFFICES ASSUME TypeInv, Written, [Next]_vars PROVE Written'
  OBVIOUS
<1> USE WaveAssumption DEF wave, local
<1>0. /\ pc \in [Procs -> PCs] /\ row \in [Procs -> Nat] /\ col \in [Procs -> ColIds]
      /\ bits \in [Procs -> Seq(Symbols)]
  BY DEF TypeInv, TypeOK
\* A step of p that writes nothing and keeps it on its row, if coding at all.
<1>1. ASSUME NEW p \in Procs,
             \A q \in Procs : q # p => UNCHANGED <<pc[q], row[q]>>,
             UNCHANGED <<col, bits>>,
             pc'[p] \in Coding => /\ pc[p] \in Coding /\ row'[p] = row[p]
                                  /\ Count(p)' = Count(p)
      PROVE  Written'
  <2>1. WrittenBy(p)'
    <3>1. SUFFICES ASSUME pc'[p] \in Coding PROVE WrittenBy(p)'
      BY DEF WrittenBy
    <3>2. Expected(row[p])' = Expected(row[p]) /\ Count(p)' = Count(p)
      BY <1>1, <3>1 DEF Expected
    <3> QED
      BY <1>1, <3>1, <3>2 DEF Written, WrittenBy
  <2> QED
    BY <1>1, <2>1, StepWritten
<1>2. ASSUME NEW p \in Procs, Worker(p) PROVE Written'
  <2>0. row[p] \in Nat /\ col[p] \in ColIds /\ col[p] \in Nat
    BY Places
  <2>1. CASE Row(p) \/ LoadContexts(p) \/ Publish(p) \/ Fail(p) \/ Failed(p)
    BY <1>0, <1>1, <2>1
    DEF Row, LoadContexts, Publish, Fail, Failed, Goto, Coding, Count
  <2>2. CASE InitRow(p)
    <3>1. bits'[p] = <<>> /\ col'[p] = 0 /\ pc'[p] \in {"tree", "handoff"}
      BY <1>0, <2>2 DEF InitRow, Goto
    <3>2. Count(p)' = 0 /\ Len(bits'[p]) = 0
      BY <3>1 DEF Count
    <3>3. WrittenBy(p)'
      BY <3>2 DEF WrittenBy
    <3> QED
      BY <1>0, <2>2, <3>3, StepWritten DEF InitRow, Goto
  <2>3. ASSUME NEW k, NEW n, NEW label, Await(p, k, n, label),
               pc[p] \in {"handoff", "await"}, label \in {"load", "tree"}
        PROVE  Written'
    BY <1>0, <1>1, <2>3, AwaitOutcome DEF Coding, Count
  <2>4. CASE AwaitHandoff(p) \/ AwaitAbove(p)
    BY <2>3, <2>4 DEF AwaitHandoff, AwaitAbove
  <2>5. CASE Tree(p)
    <3>1. CASE Here(p) \in badCTU
      BY <1>0, <1>1, <2>5, <3>1 DEF Tree, Goto, Coding
    <3>2. CASE Here(p) \notin badCTU
      <4> DEFINE sym == <<"ctu", row[p], col[p]>>
      <4>1. /\ pc[p] = "tree" /\ pc' = [pc EXCEPT ![p] = "terminate"]
            /\ bits' = [bits EXCEPT ![p] = Append(bits[p], sym)]
            /\ UNCHANGED <<row, col>> /\ row[p] \in RowIds
        BY <2>5, <3>2, Places DEF Tree, Goto, Write, InRow
      <4>2. sym \in Symbols /\ Expected(row[p])[2 * col[p] + 1] = sym
        BY <2>0, <4>1, ExpectedIs DEF Symbols
      <4>3. Count(p) = 2 * col[p] /\ Count(p)' = 2 * col[p] + 1 /\ 2 * col[p] \in Nat
        BY <1>0, <2>0, <4>1 DEF Count
      <4>4. /\ bits[p] \in Seq(Symbols) /\ Len(bits[p]) = 2 * col[p]
            /\ \A i \in 1 .. 2 * col[p] : bits[p][i] = Expected(row[p])[i]
        BY <1>0, <4>1, <4>3 DEF Written, WrittenBy, Coding
      <4> HIDE DEF sym
      <4>5. /\ Len(Append(bits[p], sym)) = 2 * col[p] + 1
            /\ \A i \in 1 .. 2 * col[p] + 1 : Append(bits[p], sym)[i] = Expected(row[p])[i]
        BY <4>2, <4>3, <4>4, AppendNext
      <4>6. Expected(row[p])' = Expected(row[p]) /\ bits'[p] = Append(bits[p], sym)
        BY <1>0, <4>1 DEF Expected
      <4>7. WrittenBy(p)'
        BY <4>3, <4>5, <4>6 DEF WrittenBy
      <4> QED
        BY <1>0, <4>1, <4>7, StepWritten
    <3> QED
      BY <3>1, <3>2
  <2>6. CASE Terminate(p)
    <3> DEFINE sym == <<"end", IF row[p] = LastRow /\ col[p] = Cols - 1 THEN 1 ELSE 0>>
    <3>1. /\ pc[p] = "terminate" /\ pc' = [pc EXCEPT ![p] = "publish"]
          /\ bits' = [bits EXCEPT ![p] = Append(bits[p], sym)]
          /\ UNCHANGED <<row, col>> /\ row[p] \in RowIds
      BY <2>6, Places DEF Terminate, AtEnd, Goto, Write, InRow
    <3>2. sym \in Symbols
      BY DEF Symbols
    <3>3. Expected(row[p])[2 * col[p] + 1 + 1] = sym
      <4>1. Expected(row[p])[2 * col[p] + 2] = sym
        BY <2>0, <3>1, ExpectedIs
      <4>2. 2 * col[p] + 2 = 2 * col[p] + 1 + 1
        BY <2>0
      <4> QED
        BY <4>1, <4>2
    <3>4. /\ Count(p) = 2 * col[p] + 1 /\ Count(p)' = 2 * col[p] + 1 + 1
          /\ 2 * col[p] + 1 \in Nat
      BY <1>0, <2>0, <3>1 DEF Count
    <3>5. /\ bits[p] \in Seq(Symbols) /\ Len(bits[p]) = 2 * col[p] + 1
          /\ \A i \in 1 .. 2 * col[p] + 1 : bits[p][i] = Expected(row[p])[i]
      BY <1>0, <3>1, <3>4 DEF Written, WrittenBy, Coding
    <3> HIDE DEF sym
    <3>6. /\ Len(Append(bits[p], sym)) = 2 * col[p] + 1 + 1
          /\ \A i \in 1 .. 2 * col[p] + 1 + 1 :
                Append(bits[p], sym)[i] = Expected(row[p])[i]
      BY <3>2, <3>3, <3>4, <3>5, AppendNext
    <3>7. Expected(row[p])' = Expected(row[p]) /\ bits'[p] = Append(bits[p], sym)
      BY <1>0, <3>1 DEF Expected
    <3>8. WrittenBy(p)'
      BY <3>4, <3>6, <3>7 DEF WrittenBy
    <3> QED
      BY <1>0, <3>1, <3>8, StepWritten
  <2>7. CASE Notify(p)
    <3>1. CASE col[p] = Cols - 1
      BY <1>0, <1>1, <2>7, <3>1 DEF Notify, Goto, Coding, Count
    <3>2. CASE col[p] # Cols - 1
      <4>1. /\ pc[p] = "notify" /\ pc'[p] \in {"tree", "await"}
            /\ col'[p] = col[p] + 1 /\ UNCHANGED <<row, bits>>
        BY <1>0, <2>7, <3>2 DEF Notify, Goto
      <4>2. Count(p)' = Count(p)
        BY <2>0, <4>1 DEF Count
      <4>3. Expected(row[p])' = Expected(row[p])
        BY <4>1 DEF Expected
      <4>4. WrittenBy(p)'
        BY <4>1, <4>2, <4>3 DEF Written, WrittenBy, Coding
      <4> QED
        BY <1>0, <2>7, <3>2, <4>1, <4>4, StepWritten DEF Notify, Goto
    <3> QED
      BY <3>1, <3>2
  <2>8. CASE Close(p)
    <3>1. pc'[p] = "row"
      BY <1>0, <2>8 DEF Close, NextRow, Goto
    <3>2. WrittenBy(p)'
      BY <3>1 DEF WrittenBy, Coding
    <3>3. \A q \in Procs : q # p => UNCHANGED <<pc[q], row[q], col[q], bits[q]>>
      BY <1>0, <2>8 DEF Close, NextRow, Goto, Write
    <3> QED
      BY <3>2, <3>3, StepWritten
  <2> QED
    BY <1>2, <2>1, <2>2, <2>4, <2>5, <2>6, <2>7, <2>8 DEF Worker
<1>3. CASE Join \/ UNCHANGED vars
  <2>1. UNCHANGED <<pc, row, col, bits>>
    BY <1>3 DEF Join, vars
  <2>2. 0 \in Procs
    BY DEF Procs
  <2> QED
    BY <1>1, <2>1, <2>2 DEF Count
<1> QED
  BY <1>2, <1>3 DEF Next, Returned

LEMMA FailuresNext == TypeInv /\ FailuresReal /\ [Next]_vars => FailuresReal'
<1> SUFFICES ASSUME TypeInv, FailuresReal, [Next]_vars PROVE FailuresReal'
  OBVIOUS
<1> USE DEF wave, local, FailuresReal, Here
<1>0. /\ pc \in [Procs -> PCs] /\ row \in [Procs -> Nat] /\ col \in [Procs -> ColIds]
  BY DEF TypeInv, TypeOK
<1>1. ASSUME NEW p \in Procs, Worker(p) PROVE FailuresReal'
  <2>1. CASE Row(p) \/ InitRow(p) \/ LoadContexts(p) \/ Terminate(p)
    BY <1>0, <2>1 DEF Row, InitRow, LoadContexts, Terminate, Goto
  <2>2. CASE Publish(p) \/ Notify(p) \/ Close(p) \/ Failed(p)
    BY <1>0, <2>2 DEF Publish, saveCtx, advance, Notify, Close, Failed, Broadcast, NextRow, Goto
  <2>6. ASSUME NEW k, NEW n, NEW label \in {"load", "tree"}, Await(p, k, n, label),
               pc[p] \in {"handoff", "await"}
        PROVE  FailuresReal'
    BY <1>0, <2>6, AwaitOutcome
  <2>3. CASE AwaitHandoff(p) \/ AwaitAbove(p)
    BY <2>6, <2>3 DEF AwaitHandoff, AwaitAbove
  <2>4. CASE Tree(p)
    BY <1>0, <2>4 DEF Tree, Goto
  <2>5. CASE Fail(p)
    <3>1. row[p] # NoErr
      BY <1>0 DEF NoErr
    <3> QED
      BY <1>0, <2>5, <3>1 DEF Fail, fail, Goto
  <2> QED
    BY <1>1, <2>1, <2>2, <2>3, <2>4, <2>5 DEF Worker
<1>2. CASE Join \/ UNCHANGED vars
  BY <1>2 DEF Join, vars
<1> QED
  BY <1>1, <1>2 DEF Next, Returned

LEMMA RowsNext ==
    TypeInv /\ PredictionInv /\ Written /\ FailuresReal /\ RowsCoded /\ [Next]_vars
        => RowsCoded'
<1> SUFFICES ASSUME TypeInv, PredictionInv, Written, FailuresReal, RowsCoded, [Next]_vars
             PROVE  RowsCoded'
  OBVIOUS
<1> USE WaveAssumption DEF wave, local
<1>0. /\ pc \in [Procs -> PCs] /\ row \in [Procs -> Nat] /\ col \in [Procs -> ColIds]
      /\ subs \in [RowIds -> Seq(Symbols)] /\ Workers \in Nat
  BY DEF TypeInv, TypeOK
<1>1. \A p \in Procs : Owns(p, row[p] + Workers)
  BY <1>0, NextOwnRow DEF RowsCoded
\* A step that finishes no row.
<1>2. ASSUME UNCHANGED <<row, subs>>, recon \subseteq recon', bad' = bad \/ bad',
             \A p \in Procs : pc'[p] = "close" => col'[p] = Cols - 1,
             ~bad' => \A p \in Procs : pc'[p] = "exit" => pc[p] = "exit" \/ row[p] >= Rows
      PROVE  RowsCoded'
  <2>1. \A p \in Procs : Owns(p, row'[p])
    BY <1>2 DEF RowsCoded
  <2>2. ~bad' => \A p \in Procs, k \in RowIds : Owns(p, k) /\ k < row'[p] =>
            /\ subs'[k] = Expected(k)
            /\ \A c \in ColIds : <<k, c>> \in recon'
    BY <1>2 DEF RowsCoded
  <2>3. ~bad' => \A p \in Procs : pc'[p] = "exit" => row'[p] >= Rows
    BY <1>2 DEF RowsCoded
  <2> QED
    BY <1>2, <2>1, <2>2, <2>3 DEF RowsCoded, Owns, Expected
<1>3. ASSUME NEW p \in Procs, Worker(p) PROVE RowsCoded'
  <2>1. CASE Row(p)
    BY <1>0, <1>2, <2>1 DEF Row, Goto, RowsCoded
  <2>2. CASE InitRow(p) \/ LoadContexts(p) \/ Tree(p) \/ Terminate(p)
    BY <1>0, <1>2, <2>2 DEF InitRow, LoadContexts, Tree, Terminate, Goto, RowsCoded
  <2>3. CASE Publish(p)
    BY <1>0, <1>2, <2>3 DEF Publish, saveCtx, advance, Goto, RowsCoded
  <2>4. CASE Notify(p)
    BY <1>0, <1>2, <2>4 DEF Notify, Broadcast, Goto, RowsCoded
  <2>9. ASSUME NEW k, NEW n, NEW label \in {"load", "tree"}, Await(p, k, n, label),
               pc[p] \in {"handoff", "await"}
        PROVE  RowsCoded'
    <3>3. CASE UNCHANGED <<row, subs>>
      <4>1. \A q \in Procs : pc'[q] \in {"close", "exit"} => pc'[q] = pc[q]
        BY <1>0, <2>9, AwaitOutcome
      <4> QED
        BY <1>2, <2>9, <3>3, <4>1, AwaitOutcome DEF RowsCoded
    <3>4. CASE bad /\ pc'[p] = "row" /\ row'[p] = row[p] + Workers
      <4>1. \A q \in Procs : Owns(q, row'[q])
        BY <1>1, <2>9, <3>4, AwaitOutcome DEF RowsCoded
      <4>2. bad' /\ \A q \in Procs : pc'[q] = "close" => col'[q] = Cols - 1
        BY <2>9, <3>4, AwaitOutcome DEF RowsCoded
      <4> QED
        BY <4>1, <4>2 DEF RowsCoded, Owns
    <3> QED
      BY <2>9, <3>3, <3>4, AwaitOutcome
  <2>5. CASE AwaitHandoff(p) \/ AwaitAbove(p)
    BY <2>5, <2>9 DEF AwaitHandoff, AwaitAbove
  <2>6. CASE Close(p)
    <3>1. /\ pc[p] = "close" /\ col[p] = Cols - 1 /\ row[p] \in RowIds
          /\ pc' = [pc EXCEPT ![p] = "row"] /\ row' = [row EXCEPT ![p] = row[p] + Workers]
          /\ subs' = [subs EXCEPT ![row[p]] = bits'[p]]
          /\ UNCHANGED <<bad, col, recon>>
      BY <2>6, Places DEF Close, NextRow, Goto, RowsCoded, InRow
    <3>2. /\ bits[p] \in Seq(Symbols) /\ Len(bits[p]) = 2 * Cols
          /\ \A i \in 1 .. 2 * Cols : bits[p][i] = Expected(row[p])[i]
      <4>1. Count(p) = 2 * Cols
        BY <3>1 DEF Count
      <4> QED
        BY <3>1, <4>1 DEF Written, WrittenBy, Coding, TypeInv, TypeOK
    <3>3. bits'[p] = Expected(row[p])
      <4>1. Expected(row[p]) \in Seq(Symbols)
        BY <3>1, ExpectedIs
      <4>2. CASE row[p] = LastRow
        <5>1. bits'[p] = bits[p] /\ Len(Expected(row[p])) = 2 * Cols
          BY <2>6, <3>1, <4>2, ExpectedIs DEF Close, AtEnd
        <5> QED
          BY <3>2, <4>1, <5>1, SeqEqual
      <4>3. CASE row[p] # LastRow
        <5> DEFINE sym == <<"subset", 1>>
        <5>1. sym \in Symbols /\ 2 * Cols \in Nat
          BY DEF Symbols
        <5>2. /\ Len(Expected(row[p])) = 2 * Cols + 1
              /\ Expected(row[p])[2 * Cols + 1] = sym
          BY <3>1, <4>3, ExpectedIs
        <5>3. bits'[p] = Append(bits[p], sym)
          BY <2>6, <4>3 DEF Close, AtEnd, Write, TypeInv, TypeOK
        <5> HIDE DEF sym
        <5>4. /\ Len(Append(bits[p], sym)) = 2 * Cols + 1
              /\ \A i \in 1 .. 2 * Cols + 1 : Append(bits[p], sym)[i] = Expected(row[p])[i]
          BY <3>2, <5>1, <5>2, AppendNext
        <5>5. Append(bits[p], sym) \in Seq(Symbols)
          BY <3>2, <5>1, AppendProperties
        <5> QED
          BY <4>1, <5>2, <5>3, <5>4, <5>5, SeqEqual
      <4> QED
        BY <4>2, <4>3
    <3>4. \A c \in ColIds : <<row[p], c>> \in recon
      <4>1. \A c \in ColIds : c <= col[p]
        BY <3>1 DEF ColIds
      <4> QED
        BY <3>1, <4>1 DEF PredictionInv, RowIsReconstructed
    <3>5. \A q \in Procs : Owns(q, row'[q])
      BY <1>0, <1>1, <3>1 DEF RowsCoded
    <3>6. ASSUME ~bad, NEW q \in Procs, NEW k \in RowIds, Owns(q, k), k < row'[q]
          PROVE  subs'[k] = Expected(k) /\ \A c \in ColIds : <<k, c>> \in recon
      <4>1. CASE k = row[p]
        BY <1>0, <3>1, <3>3, <3>4, <4>1
      <4>2. CASE k # row[p]
        <5>1. k < row[q]
          <6>1. CASE q = p
            <7>1. k \in Nat /\ k < row[p] + Workers
              BY <1>0, <3>1, <3>6, <6>1 DEF RowIds
            <7>2. k <= row[p]
              BY <1>0, <3>6, <6>1, <7>1, NoRowBetween DEF RowsCoded
            <7> QED
              BY <1>0, <4>2, <6>1, <7>1, <7>2
          <6>2. CASE q # p
            BY <1>0, <3>1, <3>6, <6>2
          <6> QED
            BY <6>1, <6>2
        <5> QED
          BY <1>0, <3>1, <3>6, <4>2, <5>1 DEF RowsCoded
      <4> QED
        BY <4>1, <4>2
    <3>7. ~bad => \A q \in Procs : pc'[q] = "exit" => row'[q] >= Rows
      BY <1>0, <3>1 DEF RowsCoded
    <3>8. \A q \in Procs : pc'[q] = "close" => col'[q] = Cols - 1
      BY <1>0, <3>1 DEF RowsCoded
    <3> QED
      BY <3>1, <3>5, <3>6, <3>7, <3>8 DEF RowsCoded, Owns, Expected
  <2>7. CASE Fail(p)
    BY <1>0, <1>2, <2>7 DEF Fail, fail, Goto, RowsCoded
  <2>8. CASE Failed(p)
    BY <1>0, <1>2, <2>8 DEF Failed, Broadcast, Goto, RowsCoded, FailuresReal
  <2> QED
    BY <1>3, <2>1, <2>2, <2>3, <2>4, <2>5, <2>6, <2>7, <2>8 DEF Worker
<1>4. CASE Join \/ UNCHANGED vars
  BY <1>2, <1>4 DEF Join, vars, RowsCoded
<1> QED
  BY <1>3, <1>4 DEF Next, Returned

LEMMA ReturnNext == TypeInv /\ ReturnedRight /\ [Next]_vars => ReturnedRight'
<1> SUFFICES ASSUME TypeInv, ReturnedRight, [Next]_vars PROVE ReturnedRight'
  OBVIOUS
<1>1. ASSUME NEW p \in Procs, Worker(p) PROVE ReturnedRight'
  <2>1. pc[p] # "exit" /\ result' = result
    BY <1>1 DEF Worker, Row, InitRow, AwaitHandoff, AwaitAbove, Await, LoadContexts, Tree,
                Terminate, Publish, Notify, Close, Fail, Failed
  <2> QED
    BY <2>1 DEF ReturnedRight
<1>2. CASE Join
  BY <1>2 DEF Join, ReturnedRight, wave, local
<1>3. CASE UNCHANGED vars
  BY <1>3 DEF vars, ReturnedRight, wave, local
<1> QED
  BY <1>1, <1>2, <1>3 DEF Next, Returned

LEMMA CompleteInit == Init => CompleteInv
<1> SUFFICES ASSUME Init PROVE CompleteInv
  OBVIOUS
<1>1. Written
  BY DEF Init, Written, WrittenBy, Coding
<1>2. RowsCoded
  <2>1. \A p \in Procs : Owns(p, p)
    BY WaveAssumption DEF Procs, Owns
  <2>2. ASSUME NEW p \in Procs, NEW k \in RowIds, Owns(p, k) PROVE ~(k < p)
    <3>1. PICK i \in Nat : k = p + i * Workers
      BY <2>2 DEF Owns
    <3>2. i * Workers >= 0 /\ i * Workers \in Nat /\ p \in Nat
      BY WaveAssumption DEF Procs
    <3> QED
      BY <3>1, <3>2
  <2> QED
    BY <2>1, <2>2 DEF Init, RowsCoded
<1>3. FailuresReal /\ ReturnedRight
  BY DEF Init, newWave, FailuresReal, ReturnedRight
<1> QED
  BY <1>1, <1>2, <1>3 DEF CompleteInv

LEMMA CompleteNext ==
    TypeInv /\ PredictionInv /\ CompleteInv /\ [Next]_vars => CompleteInv'
  BY WrittenNext, RowsNext, FailuresNext, ReturnNext DEF CompleteInv

\* SubstreamsComplete for every picture: encodeWavefront succeeds exactly when
\* no block fails, and then every substream holds what a decoder reads of its
\* row, whoever coded it and in whatever order the rows were finished.
THEOREM SubstreamsAreComplete == Spec => []SubstreamsComplete
<1>1. TypeInv /\ CompleteInv => SubstreamsComplete
  <2> SUFFICES ASSUME TypeInv, CompleteInv, result # "none" PROVE SubstreamsComplete
    BY DEF SubstreamsComplete
  <2>1. /\ \A p \in Procs : pc[p] = "exit"
        /\ result = IF bad THEN "error" ELSE "ok"
    BY DEF CompleteInv, ReturnedRight, FailuresReal
  <2>2. CASE bad
    BY <2>1, <2>2 DEF CompleteInv, FailuresReal, SubstreamsComplete
  <2>3. CASE ~bad
    <3>1. ASSUME NEW k \in RowIds
          PROVE  subs[k] = Expected(k) /\ \A c \in ColIds : <<k, c>> \in recon
      <4>1. k \in Nat /\ k < Rows
        BY WaveAssumption DEF RowIds
      <4>2. PICK p \in Procs : Owns(p, k)
        BY <4>1, EveryRowIsOwned
      <4>3. row[p] >= Rows /\ row[p] \in Nat
        BY <2>1, <2>3 DEF CompleteInv, RowsCoded, TypeInv, TypeOK
      <4>4. k < row[p]
        BY <4>1, <4>3, WaveAssumption
      <4> QED
        BY <2>3, <4>2, <4>4 DEF CompleteInv, RowsCoded
    <3>2. badCTU = {}
      <4>1. badCTU \subseteq recon
        BY <3>1 DEF CTBs, TypeInv, TypeOK
      <4> QED
        BY <4>1 DEF CompleteInv, FailuresReal
    <3> QED
      BY <2>1, <2>3, <3>1, <3>2 DEF SubstreamsComplete
  <2> QED
    BY <2>2, <2>3
<1> QED
  BY <1>1, TypeInit, TypeNext, ContextInit, ContextNext, PredictionInit, PredictionNext,
     CompleteInit, CompleteNext, PTL DEF Spec
=============================================================================
