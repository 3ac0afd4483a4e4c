-------------------------- MODULE WaveDecode_proof --------------------------
(***************************************************************************)
(* Theorems about WaveDecode, for every segment shape, every number of     *)
(* goroutines and every content of the segment.                            *)
(***************************************************************************)
EXTENDS WaveDecode, TLAPS

(* Rows, and who is dealt them.                                            *)

LEMMA LagType == \A c \in ColIds : Lag(c) \in 1 .. Cols /\ c < Lag(c)
  BY WaveAssumption DEF Lag, ColIds

LEMMA NextOwnRow == \A p \in Procs, r \in Nat : Owns(p, r) => Owns(p, r + Workers)
<1> SUFFICES ASSUME NEW p \in Procs, NEW i \in Nat
             PROVE Owns(p, p + i * Workers + Workers)
  BY DEF Owns
<1>1. Workers \in Nat /\ p \in Nat
  BY WaveAssumption DEF Procs
<1>2. i + 1 \in Nat /\ p + i * Workers + Workers = p + (i + 1) * Workers
  BY <1>1
<1> QED
  BY <1>2 DEF Owns

LEMMA OneOwner == \A p, q \in Procs, k \in Nat : Owns(p, k) /\ Owns(q, k) => p = q
<1>1. \A p, q \in Procs, i, j \in Nat : i < j => p + i * Workers # q + j * Workers
  <2> SUFFICES ASSUME NEW p \in Procs, NEW q \in Procs, NEW i \in Nat, NEW j \in Nat, i < j,
                      p + i * Workers = q + j * Workers
               PROVE FALSE
    OBVIOUS
  <2>1. Workers \in Nat /\ p \in 0 .. Workers - 1 /\ q \in 0 .. Workers - 1
    BY WaveAssumption DEF Procs
  <2>2. j - i - 1 \in Nat /\ \A x, y \in Nat : x * y \in Nat
    OBVIOUS
  <2>3. (j - i - 1) * Workers \in Nat
    BY <2>1, <2>2
  <2>4. p - q = (j - i - 1) * Workers + Workers
    BY <2>1
  <2> QED
    BY <2>1, <2>3, <2>4
<1> SUFFICES ASSUME NEW p \in Procs, NEW q \in Procs, NEW k \in Nat, Owns(p, k), Owns(q, k)
             PROVE p = q
  OBVIOUS
<1>2. PICK i \in Nat : k = p + i * Workers
  BY DEF Owns
<1>3. PICK j \in Nat : k = q + j * Workers
  BY DEF Owns
<1>4. i = j
  BY <1>1, <1>2, <1>3
<1>5. Workers \in Nat /\ p \in Nat /\ q \in Nat
  BY WaveAssumption DEF Procs
<1> QED
  BY <1>2, <1>3, <1>4, <1>5

LEMMA EveryRowIsOwned == \A k \in Nat : \E p \in Procs : Owns(p, k)
<1> SUFFICES ASSUME NEW k \in Nat PROVE \E p \in Procs : Owns(p, k)
  OBVIOUS
<1>1. Workers \in Nat \ {0}
  BY WaveAssumption
<1>2. /\ k = (k % Workers) + (k \div Workers) * Workers
      /\ k % Workers \in 0 .. Workers - 1
      /\ k \div Workers \in Nat
  BY <1>1
<1>3. k % Workers \in Procs
  BY <1>2 DEF Procs
<1> QED
  BY <1>2, <1>3 DEF Owns

\* Nothing of goroutine p's lies between two rows it decodes in succession.
LEMMA NoRowBetween ==
    \A p \in Procs, r, k \in Nat : Owns(p, r) /\ Owns(p, k) /\ k < r + Workers => k <= r
<1> SUFFICES ASSUME NEW p \in Procs, NEW r \in Nat, NEW k \in Nat,
                    Owns(p, r), Owns(p, k), k < r + Workers, k > r
             PROVE FALSE
  OBVIOUS
<1>1. Workers \in Nat /\ p \in Nat
  BY WaveAssumption DEF Procs
<1>2. PICK i \in Nat : r = p + i * Workers
  BY DEF Owns
<1>3. PICK j \in Nat : k = p + j * Workers
  BY DEF Owns
<1>4. k - r = (j - i) * Workers /\ j - i \in Int
  BY <1>1, <1>2, <1>3
<1>5. \A x \in Int : (x <= 0 => x * Workers <= 0) /\ (x >= 1 => x * Workers >= Workers)
  BY <1>1
<1> QED
  BY <1>1, <1>4, <1>5

-----------------------------------------------------------------------------

InRow == {"start", "handoff", "load", "await", "ctu", "publish", "notify",
          "terminate", "close", "closed", "fail", "failed"}

\* A goroutine that is inside decodeWaveRow is on a row of the segment, and
\* waits only for a row that exists.
OnARow ==
    \A p \in Procs :
        /\ pc[p] \in InRow => row[p] \in RowIds
        /\ pc[p] \in {"handoff", "load", "await"} => row[p] > 0

TypeInv == TypeOK /\ OnARow

LEMMA RsType == \A b \in CTBs : Rs(b) \in Nat
<1>1. SUFFICES ASSUME NEW b \in CTBs PROVE Rs(b) \in Nat
  OBVIOUS
<1>2. b[1] \in Nat /\ b[2] \in Nat /\ Cols \in Nat /\ FirstRow \in Nat
  BY <1>1, WaveAssumption, DecodeAssumption DEF CTBs, RowIds, ColIds
<1>3. \A x, y \in Nat : x * y \in Nat
  OBVIOUS
<1>4. (FirstRow + b[1]) * Cols \in Nat
  BY <1>2, <1>3
<1> QED
  BY <1>2, <1>4 DEF Rs

LEMMA TypeInit == Init => TypeInv
<1>1. SUFFICES ASSUME Init PROVE TypeInv
  OBVIOUS
<1>2. FirstRow * Cols \in Nat
  BY WaveAssumption, DecodeAssumption
<1>3. WaveTypeOK
  <2>1. 0 \in 0 .. Cols /\ ZeroCtx \in Contexts
    BY WaveAssumption DEF Contexts
  <2> QED
    BY <1>1, <2>1 DEF Init, newWave, WaveTypeOK
<1>4. TypeOK
  BY <1>1, <1>2, <1>3, WaveAssumption, DecodeAssumption
  DEF Init, TypeOK, Procs, PCs, ColIds, Contexts
<1>5. OnARow
  BY <1>1 DEF Init, OnARow, InRow
<1> QED
  BY <1>4, <1>5 DEF TypeInv

LEMMA TypeNext == TypeInv /\ [Next]_vars => TypeInv'
<1> SUFFICES ASSUME TypeInv, [Next]_vars PROVE TypeInv'
  OBVIOUS
<1> USE WaveAssumption
<1> USE DEF TypeInv, wave, local, main
<1>1. ASSUME NEW p \in Procs, Worker(p) PROVE TypeInv'
  <2>1. CASE Row(p)
    <3>1. TypeOK'
      BY <2>1 DEF Row, Goto, TypeOK, WaveTypeOK, PCs
    <3>2. OnARow'
      BY <2>1 DEF Row, Goto, TypeOK, OnARow, InRow, RowIds
    <3> QED
      BY <3>1, <3>2
  <2>2. CASE StartSubstream(p)
    <3>1. TypeOK'
      <4>1. col' \in [Procs -> ColIds]
        BY <2>2 DEF StartSubstream, TypeOK, ColIds
      <4>2. state' \in [Procs -> Contexts]
        BY <2>2 DEF StartSubstream, TypeOK, Contexts
      <4>3. pc' \in [Procs -> PCs]
        BY <2>2 DEF StartSubstream, Goto, TypeOK, PCs
      <4> QED
        BY <2>2, <4>1, <4>2, <4>3 DEF StartSubstream, TypeOK, WaveTypeOK
    <3>2. OnARow'
      BY <2>2 DEF StartSubstream, Goto, RowIds, TypeOK, OnARow, InRow
    <3> QED
      BY <3>1, <3>2
  <2>3. CASE AwaitHandoff(p)
    <3>1. TypeOK'
      BY <2>3 DEF AwaitHandoff, Goto, Await, awaitTrue, awaitFalse, awaitWaits, Wait, NextRow, TypeOK, WaveTypeOK, OnARow, PCs, InRow
    <3>2. OnARow'
      BY <2>3 DEF AwaitHandoff, Goto, Await, awaitTrue, awaitFalse, awaitWaits, Wait, NextRow, TypeOK, OnARow, InRow
    <3> QED
      BY <3>1, <3>2
  <2>4. CASE LoadContexts(p)
    <3>1. TypeOK'
      <4>1. row[p] - 1 \in RowIds
        BY <2>4 DEF LoadContexts, TypeOK, OnARow, InRow, RowIds
      <4>2. state' \in [Procs -> Contexts]
        BY <2>4, <4>1 DEF LoadContexts, TypeOK, WaveTypeOK
      <4>3. pc' \in [Procs -> PCs]
        BY <2>4 DEF LoadContexts, Goto, TypeOK, PCs
      <4> QED
        BY <2>4, <4>2, <4>3 DEF LoadContexts, TypeOK, WaveTypeOK
    <3>2. OnARow'
      BY <2>4 DEF LoadContexts, Goto, TypeOK, OnARow, InRow
    <3> QED
      BY <3>1, <3>2
  <2>5. CASE AwaitAbove(p)
    <3>1. TypeOK'
      BY <2>5 DEF AwaitAbove, Goto, Await, awaitTrue, awaitFalse, awaitWaits, Wait, NextRow, TypeOK, WaveTypeOK, OnARow, PCs, InRow
    <3>2. OnARow'
      BY <2>5 DEF AwaitAbove, Goto, Await, awaitTrue, awaitFalse, awaitWaits, Wait, NextRow, TypeOK, OnARow, InRow
    <3> QED
      BY <3>1, <3>2
  <2>6. CASE CodingTreeUnit(p)
    <3>1. TypeOK'
      <4>1. row[p] \in RowIds /\ col[p] \in ColIds /\ col[p] + 1 \in 1 .. Cols
        BY <2>6 DEF CodingTreeUnit, TypeOK, OnARow, InRow, ColIds
      <4>2. recon' \in SUBSET CTBs
        BY <2>6, <4>1 DEF CodingTreeUnit, Here, CTBs, TypeOK
      <4>3. state' \in [Procs -> Contexts]
        BY <2>6, <4>1 DEF CodingTreeUnit, TypeOK, Contexts
      <4>4. pc' \in [Procs -> PCs]
        BY <2>6 DEF CodingTreeUnit, Goto, TypeOK, PCs
      <4> QED
        BY <2>6, <4>2, <4>3, <4>4 DEF CodingTreeUnit, TypeOK, WaveTypeOK
    <3>2. OnARow'
      BY <2>6 DEF CodingTreeUnit, Goto, TypeOK, OnARow, InRow
    <3> QED
      BY <3>1, <3>2
  <2>7. CASE Publish(p)
    <3>1. TypeOK'
      <4>1. row[p] \in RowIds /\ col[p] + 1 \in 0 .. Cols /\ 2 \in 0 .. Cols
        BY <2>7 DEF Publish, TypeOK, OnARow, InRow, ColIds
      <4>2. WaveTypeOK'
        BY <2>7, <4>1 DEF Publish, saveCtx, advance, TypeOK, WaveTypeOK
      <4>3. pc' \in [Procs -> PCs]
        BY <2>7 DEF Publish, Goto, TypeOK, PCs
      <4> QED
        BY <2>7, <4>2, <4>3 DEF Publish, TypeOK
    <3>2. OnARow'
      BY <2>7 DEF Publish, Goto, TypeOK, OnARow, InRow
    <3> QED
      BY <3>1, <3>2
  <2>8. CASE Notify(p)
    <3>1. TypeOK'
      BY <2>8 DEF Notify, Goto, Broadcast, TypeOK, WaveTypeOK, OnARow, PCs, InRow
    <3>2. OnARow'
      BY <2>8 DEF Notify, Goto, Broadcast, TypeOK, OnARow, InRow
    <3> QED
      BY <3>1, <3>2
  <2>9. CASE EndOfSlice(p)
    <3>1. TypeOK'
      <4>1. Rs(Here(p)) \in Nat
        BY <2>9, RsType DEF EndOfSlice, Here, TypeOK, OnARow, InRow, CTBs
      <4>2. end' \in Nat
        BY <2>9, <4>1 DEF EndOfSlice, TypeOK
      <4>3. pc' \in [Procs -> PCs]
        BY <2>9 DEF EndOfSlice, Goto, TypeOK, PCs
      <4> QED
        BY <2>9, <4>2, <4>3 DEF EndOfSlice, TypeOK, WaveTypeOK
    <3>2. OnARow'
      BY <2>9 DEF EndOfSlice, Goto, TypeOK, OnARow, InRow
    <3> QED
      BY <3>1, <3>2
  <2>10. CASE EndOfRow(p)
    <3>1. TypeOK'
      BY <2>10 DEF EndOfRow, Goto, TypeOK, WaveTypeOK, OnARow, PCs, InRow
    <3>2. OnARow'
      BY <2>10 DEF EndOfRow, Goto, TypeOK, OnARow, InRow
    <3> QED
      BY <3>1, <3>2
  <2>11. CASE NextBlock(p)
    <3>1. TypeOK'
      <4>1. col' \in [Procs -> ColIds]
        BY <2>11 DEF NextBlock, TypeOK, ColIds
      <4>2. pc' \in [Procs -> PCs]
        BY <2>11 DEF NextBlock, Goto, TypeOK, PCs
      <4> QED
        BY <2>11, <4>1, <4>2 DEF NextBlock, TypeOK, WaveTypeOK
    <3>2. OnARow'
      BY <2>11 DEF NextBlock, Goto, TypeOK, OnARow, InRow, RowIds
    <3> QED
      BY <3>1, <3>2
  <2>12. CASE Close(p)
    <3>1. TypeOK'
      BY <2>12 DEF Close, Goto, advance, TypeOK, WaveTypeOK, OnARow, PCs, InRow
    <3>2. OnARow'
      BY <2>12 DEF Close, Goto, advance, TypeOK, OnARow, InRow
    <3> QED
      BY <3>1, <3>2
  <2>13. CASE Closed(p)
    <3>1. TypeOK'
      BY <2>13 DEF Closed, Goto, Broadcast, NextRow, TypeOK, WaveTypeOK, OnARow, PCs, InRow
    <3>2. OnARow'
      BY <2>13 DEF Closed, Goto, Broadcast, NextRow, TypeOK, OnARow, InRow
    <3> QED
      BY <3>1, <3>2
  <2>14. CASE Fail(p)
    <3>1. TypeOK'
      BY <2>14 DEF Fail, Goto, fail, TypeOK, WaveTypeOK, OnARow, PCs, InRow
    <3>2. OnARow'
      BY <2>14 DEF Fail, Goto, fail, TypeOK, OnARow, InRow
    <3> QED
      BY <3>1, <3>2
  <2>15. CASE Failed(p)
    <3>1. TypeOK'
      BY <2>15 DEF Failed, Goto, Broadcast, TypeOK, WaveTypeOK, OnARow, PCs, InRow
    <3>2. OnARow'
      BY <2>15 DEF Failed, Goto, Broadcast, TypeOK, OnARow, InRow
    <3> QED
      BY <3>1, <3>2
  <2> QED
    BY <1>1, <2>1, <2>2, <2>3, <2>4, <2>5, <2>6, <2>7, <2>8, <2>9, <2>10, <2>11, <2>12, <2>13, <2>14, <2>15 DEF Worker
<1>2. CASE Join
  BY <1>2 DEF Join, TypeOK, WaveTypeOK, OnARow, RowIds, LastRow
<1>3. CASE UNCHANGED vars
  BY <1>3 DEF vars, TypeOK, WaveTypeOK, OnARow
<1> QED
  BY <1>1, <1>2, <1>3 DEF Next, Returned

\* Every variable holds what its declaration says it holds: among others, no
\* goroutine ever indexes the progress or the contexts outside the segment.
THEOREM TypeCorrect == Spec => []TypeOK
<1>1. TypeInv => TypeOK
  BY DEF TypeInv
<1> QED
  BY <1>1, TypeInit, TypeNext, PTL DEF Spec

-----------------------------------------------------------------------------
\* The row of goroutine p has gone past its second block.
PastSecond(p) ==
    \/ pc[p] \in {"await", "ctu", "publish"} /\ col[p] >= 2
    \/ pc[p] \in {"notify", "terminate", "close"} /\ col[p] >= 1

\* What makes the hand-off right: progress of two implies saved contexts, and
\* they are never anything but the state after two blocks.  The last row is
\* left out, since it may announce its full width when it ends early.
SavedContexts ==
    \A k \in RowIds : k # LastRow /\ done[k] >= 2 => ctx[k] = <<k, 2>>

RowContexts ==
    \A p \in Procs :
        /\ pc[p] \in {"handoff", "load"} => col[p] = 0
        /\ pc[p] = "close" /\ row[p] # LastRow => col[p] = Cols - 1
        /\ pc[p] = "publish" => state[p] = <<row[p], col[p] + 1>>
        /\ PastSecond(p) => ctx[row[p]] = <<row[p], 2>>
        /\ pc[p] = "load" => ctx[row[p] - 1] = <<row[p] - 1, 2>>
        /\ pc[p] \in {"await", "ctu"} /\ col[p] = 0 =>
              state[p] = IF row[p] = 0 THEN InitCtx ELSE <<row[p] - 1, 2>>

ContextInv == SavedContexts /\ RowContexts

LEMMA ContextInit == Init => ContextInv
  BY WaveAssumption DEF Init, newWave, ContextInv, SavedContexts, RowContexts, PastSecond

LEMMA ContextNext == TypeInv /\ ContextInv /\ [Next]_vars => ContextInv'
<1> SUFFICES ASSUME TypeInv, ContextInv, [Next]_vars PROVE ContextInv'
  OBVIOUS
<1> USE WaveAssumption
<1> USE DEF TypeInv, ContextInv, wave, local, main
<1>1. ASSUME NEW p \in Procs, Worker(p) PROVE ContextInv'
  <2>1. CASE Row(p)
    <3>1. SavedContexts'
      BY <2>1 DEF Row, SavedContexts
    <3>2. RowContexts'
      BY <2>1 DEF Row, Goto, RowContexts, PastSecond, TypeOK
    <3> QED
      BY <3>1, <3>2
  <2>2. CASE StartSubstream(p)
    <3>1. SavedContexts'
      BY <2>2 DEF StartSubstream, SavedContexts
    <3>2. RowContexts'
      BY <2>2 DEF StartSubstream, Goto, RowContexts, PastSecond, TypeOK
    <3> QED
      BY <3>1, <3>2
  <2>3. CASE AwaitHandoff(p)
    <3>1. SavedContexts'
      BY <2>3 DEF AwaitHandoff, Await, awaitTrue, awaitFalse, awaitWaits, Wait, NextRow, SavedContexts
    <3>2. done[row[p] - 1] >= 2 => ctx[row[p] - 1] = <<row[p] - 1, 2>>
      BY <2>3 DEF AwaitHandoff, SavedContexts, OnARow, InRow, RowIds, LastRow
    <3>3. RowContexts'
      BY <2>3, <3>2 DEF AwaitHandoff, Await, awaitTrue, awaitFalse, awaitWaits, Wait, NextRow, Goto, RowContexts, PastSecond, TypeOK
    <3> QED
      BY <3>1, <3>3
  <2>4. CASE LoadContexts(p)
    <3>1. SavedContexts'
      BY <2>4 DEF LoadContexts, SavedContexts
    <3>2. row[p] # 0 /\ ctx[row[p] - 1] = <<row[p] - 1, 2>> /\ col[p] = 0
      BY <2>4 DEF LoadContexts, RowContexts, OnARow, TypeOK
    <3>3. RowContexts'
      BY <2>4, <3>2 DEF LoadContexts, Goto, RowContexts, PastSecond, TypeOK
    <3> QED
      BY <3>1, <3>3
  <2>5. CASE AwaitAbove(p)
    <3>1. SavedContexts'
      BY <2>5 DEF AwaitAbove, Await, awaitTrue, awaitFalse, awaitWaits, Wait, NextRow, SavedContexts
    <3>2. RowContexts'
      BY <2>5 DEF AwaitAbove, Goto, Await, awaitTrue, awaitFalse, awaitWaits, Wait, NextRow, RowContexts, PastSecond, TypeOK
    <3> QED
      BY <3>1, <3>2
  <2>6. CASE CodingTreeUnit(p)
    <3>1. SavedContexts'
      BY <2>6 DEF CodingTreeUnit, SavedContexts
    <3>2. RowContexts'
      BY <2>6 DEF CodingTreeUnit, Goto, RowContexts, PastSecond, TypeOK
    <3> QED
      BY <3>1, <3>2
  <2>7. CASE Publish(p)
    <3>1. /\ row[p] \in RowIds /\ col[p] \in ColIds
          /\ col[p] = 1 => state[p] = <<row[p], 2>>
          /\ col[p] >= 2 => ctx[row[p]] = <<row[p], 2>>
      BY <2>7 DEF Publish, RowContexts, PastSecond, OnARow, InRow, TypeOK
    <3>2. \/ /\ col[p] = 1
             /\ ctx' = [ctx EXCEPT ![row[p]] = <<row[p], 2>>]
             /\ done' = [done EXCEPT ![row[p]] = 2]
          \/ /\ col[p] # 1
             /\ ctx' = ctx
             /\ done' = [done EXCEPT ![row[p]] = col[p] + 1]
      BY <2>7, <3>1 DEF Publish, saveCtx, advance
    <3>3. /\ done \in [RowIds -> 0 .. Cols] /\ ctx \in [RowIds -> Contexts]
          /\ pc \in [Procs -> PCs] /\ pc' = [pc EXCEPT ![p] = "notify"]
          /\ UNCHANGED <<row, col, state>>
      BY <2>7 DEF Publish, Goto, TypeOK, WaveTypeOK
    <3>4. SavedContexts'
      <4> SUFFICES ASSUME NEW k \in RowIds, k # LastRow, done'[k] >= 2
                   PROVE ctx'[k] = <<k, 2>>
        BY DEF SavedContexts, RowIds, LastRow
      <4>1. CASE k = row[p]
        <5>1. CASE col[p] = 1
          BY <4>1, <5>1, <3>2, <3>3
        <5>2. CASE col[p] # 1
          <6>1. done'[k] = col[p] + 1 /\ ctx'[k] = ctx[k]
            BY <4>1, <5>2, <3>2, <3>3
          <6>2. col[p] >= 2
            BY <6>1, <5>2, <3>1 DEF ColIds
          <6> QED
            BY <6>1, <6>2, <4>1, <3>1
        <5> QED
          BY <5>1, <5>2
      <4>2. CASE k # row[p]
        BY <4>2, <3>2, <3>3 DEF SavedContexts
      <4> QED
        BY <4>1, <4>2
    <3>5. \A k \in RowIds : ctx[k] = <<k, 2>> => ctx'[k] = <<k, 2>>
      BY <3>1, <3>2, <3>3
    <3>6. PastSecond(p)' => ctx'[row[p]] = <<row[p], 2>>
      BY <3>1, <3>2, <3>3 DEF PastSecond, ColIds
    <3>7. RowContexts'
      <4> SUFFICES ASSUME NEW q \in Procs
                   PROVE RowContexts!(q)'
        BY DEF RowContexts
      <4>1. CASE q = p
        BY <4>1, <3>3, <3>6 DEF RowContexts
      <4>2. CASE q # p
        <5>1. pc'[q] = pc[q] /\ row'[q] = row[q] /\ col'[q] = col[q] /\ state'[q] = state[q]
          BY <4>2, <3>3
        <5>2. PastSecond(q) => row[q] \in RowIds
          BY DEF PastSecond, OnARow, InRow
        <5>3. pc[q] = "load" => row[q] - 1 \in RowIds
          BY DEF OnARow, InRow, RowIds
        <5>4. PastSecond(q)' => PastSecond(q)
          BY <5>1 DEF PastSecond
        <5> QED
          BY <5>1, <5>2, <5>3, <5>4, <3>5 DEF RowContexts
      <4> QED
        BY <4>1, <4>2
    <3> QED
      BY <3>4, <3>7
  <2>8. CASE Notify(p)
    <3>1. SavedContexts'
      BY <2>8 DEF Notify, Broadcast, SavedContexts
    <3>2. RowContexts'
      BY <2>8 DEF Notify, Goto, Broadcast, RowContexts, PastSecond, TypeOK
    <3> QED
      BY <3>1, <3>2
  <2>9. CASE EndOfSlice(p)
    <3>1. SavedContexts'
      BY <2>9 DEF EndOfSlice, SavedContexts
    <3>2. RowContexts'
      BY <2>9 DEF EndOfSlice, Goto, RowContexts, PastSecond, TypeOK
    <3> QED
      BY <3>1, <3>2
  <2>10. CASE EndOfRow(p)
    <3>1. SavedContexts'
      BY <2>10 DEF EndOfRow, SavedContexts
    <3>2. RowContexts'
      BY <2>10 DEF EndOfRow, Goto, RowContexts, PastSecond, TypeOK
    <3> QED
      BY <3>1, <3>2
  <2>11. CASE NextBlock(p)
    <3>1. SavedContexts'
      BY <2>11 DEF NextBlock, SavedContexts
    <3>2. col[p] \in ColIds /\ (col[p] + 1 >= 2 => ctx[row[p]] = <<row[p], 2>>)
      BY <2>11 DEF NextBlock, RowContexts, PastSecond, TypeOK, ColIds
    <3>3. RowContexts'
      BY <2>11, <3>2 DEF NextBlock, Goto, RowContexts, PastSecond, TypeOK, ColIds
    <3> QED
      BY <3>1, <3>3
  <2>12. CASE Close(p)
    <3>1. row[p] # LastRow => ctx[row[p]] = <<row[p], 2>>
      <4>1. pc[p] = "close" /\ (row[p] # LastRow => col[p] = Cols - 1)
        BY <2>12 DEF Close, RowContexts
      <4>2. Cols - 1 >= 1
        OBVIOUS
      <4>3. row[p] # LastRow => PastSecond(p)
        BY <4>1, <4>2 DEF PastSecond
      <4> QED
        BY <4>3 DEF RowContexts
    <3>2. SavedContexts'
      BY <2>12, <3>1 DEF Close, advance, SavedContexts, TypeOK, WaveTypeOK, OnARow, InRow
    <3>3. RowContexts'
      BY <2>12 DEF Close, Goto, advance, RowContexts, PastSecond, TypeOK
    <3> QED
      BY <3>2, <3>3
  <2>13. CASE Closed(p)
    <3>1. SavedContexts'
      BY <2>13 DEF Closed, Broadcast, NextRow, SavedContexts
    <3>2. RowContexts'
      BY <2>13 DEF Closed, Goto, Broadcast, NextRow, RowContexts, PastSecond, TypeOK
    <3> QED
      BY <3>1, <3>2
  <2>14. CASE Fail(p)
    <3>1. SavedContexts'
      BY <2>14 DEF Fail, fail, SavedContexts
    <3>2. RowContexts'
      BY <2>14 DEF Fail, Goto, fail, RowContexts, PastSecond, TypeOK
    <3> QED
      BY <3>1, <3>2
  <2>15. CASE Failed(p)
    <3>1. SavedContexts'
      BY <2>15 DEF Failed, Broadcast, SavedContexts
    <3>2. RowContexts'
      BY <2>15 DEF Failed, Goto, Broadcast, RowContexts, PastSecond, TypeOK
    <3> QED
      BY <3>1, <3>2
  <2> QED
    BY <1>1, <2>1, <2>2, <2>3, <2>4, <2>5, <2>6, <2>7, <2>8, <2>9, <2>10, <2>11, <2>12, <2>13, <2>14, <2>15 DEF Worker
<1>2. CASE Join
  BY <1>2 DEF Join, SavedContexts, RowContexts, PastSecond
<1>3. CASE UNCHANGED vars
  BY <1>3 DEF vars, SavedContexts, RowContexts, PastSecond
<1> QED
  BY <1>1, <1>2, <1>3 DEF Next, Returned

\* CtxHandoff for every segment: 9.3.1's contexts reach the row below whatever
\* the interleaving, although nothing but the progress count guards the copy.
THEOREM ContextHandoff == Spec => []CtxHandoff
<1>1. ContextInv => CtxHandoff
  BY DEF ContextInv, RowContexts, CtxHandoff
<1> QED
  BY <1>1, TypeInit, TypeNext, ContextInit, ContextNext, PTL DEF Spec

-----------------------------------------------------------------------------
\* What makes the prediction right: progress never runs ahead of the blocks,
\* and a goroutine in a row has all of it behind it.
DoneIsReconstructed ==
    \A k \in RowIds, c \in ColIds :
        k # LastRow /\ c < done[k] => <<k, c>> \in recon

RowIsReconstructed ==
    \A p \in Procs, c \in ColIds :
        /\ pc[p] \in {"await", "ctu"} /\ c < col[p] => <<row[p], c>> \in recon
        /\ pc[p] \in {"publish", "notify", "terminate", "close"} /\ c <= col[p] =>
              <<row[p], c>> \in recon
        /\ pc[p] = "ctu" /\ row[p] > 0 /\ c < Lag(col[p]) =>
              <<row[p] - 1, c>> \in recon

PredictionInv == DoneIsReconstructed /\ RowIsReconstructed

LEMMA PredictionInit == Init => PredictionInv
  BY DEF Init, newWave, PredictionInv, DoneIsReconstructed, RowIsReconstructed, ColIds

LEMMA PredictionNext == TypeInv /\ ContextInv /\ PredictionInv /\ [Next]_vars => PredictionInv'
<1> SUFFICES ASSUME TypeInv, ContextInv, PredictionInv, [Next]_vars PROVE PredictionInv'
  OBVIOUS
<1> USE WaveAssumption
<1> USE DEF TypeInv, PredictionInv, wave, local, main
<1>1. ASSUME NEW p \in Procs, Worker(p) PROVE PredictionInv'
  <2>1. CASE Row(p)
    <3>1. DoneIsReconstructed'
      BY <2>1 DEF Row, DoneIsReconstructed
    <3>2. RowIsReconstructed'
      BY <2>1 DEF Row, Goto, RowIsReconstructed, TypeOK, ColIds
    <3> QED
      BY <3>1, <3>2
  <2>2. CASE StartSubstream(p)
    <3>1. DoneIsReconstructed'
      BY <2>2 DEF StartSubstream, DoneIsReconstructed
    <3>2. RowIsReconstructed'
      BY <2>2 DEF StartSubstream, Goto, RowIsReconstructed, TypeOK, ColIds
    <3> QED
      BY <3>1, <3>2
  <2>3. CASE AwaitHandoff(p)
    <3>1. DoneIsReconstructed'
      BY <2>3 DEF AwaitHandoff, Await, awaitTrue, awaitFalse, awaitWaits, Wait, NextRow, DoneIsReconstructed
    <3>2. RowIsReconstructed'
      BY <2>3 DEF AwaitHandoff, Goto, Await, awaitTrue, awaitFalse, awaitWaits, Wait, NextRow, RowIsReconstructed, TypeOK, ColIds
    <3> QED
      BY <3>1, <3>2
  <2>4. CASE LoadContexts(p)
    <3>1. DoneIsReconstructed'
      BY <2>4 DEF LoadContexts, DoneIsReconstructed
    <3>2. col[p] = 0
      BY <2>4 DEF LoadContexts, ContextInv, RowContexts
    <3>3. RowIsReconstructed'
      BY <2>4, <3>2 DEF LoadContexts, Goto, RowIsReconstructed, TypeOK, ColIds
    <3> QED
      BY <3>1, <3>3
  <2>5. CASE AwaitAbove(p)
    <3>1. DoneIsReconstructed'
      BY <2>5 DEF AwaitAbove, Await, awaitTrue, awaitFalse, awaitWaits, Wait, NextRow, DoneIsReconstructed
    <3>2. pc[p] = "await" /\ row[p] - 1 \in RowIds /\ row[p] - 1 # LastRow
      BY <2>5 DEF AwaitAbove, OnARow, InRow, RowIds, LastRow
    <3>3. ASSUME NEW c \in ColIds, done[row[p] - 1] >= Lag(col[p]), c < Lag(col[p])
          PROVE <<row[p] - 1, c>> \in recon
      <4>1. Lag(col[p]) \in Nat /\ done[row[p] - 1] \in Nat /\ c \in Nat
        BY <3>2, LagType DEF TypeOK, WaveTypeOK, ColIds
      <4>2. c < done[row[p] - 1]
        BY <3>3, <4>1
      <4> QED
        BY <3>2, <4>2 DEF DoneIsReconstructed
    <3>4. RowIsReconstructed'
      <4> SUFFICES ASSUME NEW q \in Procs, NEW c \in ColIds
                   PROVE RowIsReconstructed!(q, c)'
        BY DEF RowIsReconstructed
      <4>1. UNCHANGED <<col, recon>> /\ pc \in [Procs -> PCs]
        BY <2>5 DEF AwaitAbove, Await, awaitTrue, awaitFalse, awaitWaits, Wait, NextRow, TypeOK
      <4>2. CASE q # p
        <5>1. pc'[q] = pc[q] /\ row'[q] = row[q]
          BY <2>5, <4>2 DEF AwaitAbove, Await, awaitTrue, awaitFalse, awaitWaits, Wait, NextRow, Goto, TypeOK
        <5> QED
          BY <4>1, <5>1 DEF RowIsReconstructed
      <4>3. CASE q = p
        <5>1. CASE pc'[p] = "ctu"
          <6>1. done[row[p] - 1] >= Lag(col[p]) /\ row' = row
            BY <2>5, <5>1 DEF AwaitAbove, Await, awaitTrue, awaitFalse, awaitWaits, Wait, NextRow, Goto, TypeOK
          <6> QED
            BY <3>2, <3>3, <4>1, <4>3, <5>1, <6>1 DEF RowIsReconstructed, Lag
        <5>2. CASE pc'[p] = "await"
          <6>1. row' = row
            BY <2>5, <5>2 DEF AwaitAbove, Await, awaitTrue, awaitFalse, awaitWaits, Wait, NextRow, Goto, TypeOK
          <6> QED
            BY <3>2, <4>1, <4>3, <5>2, <6>1 DEF RowIsReconstructed
        <5>3. CASE pc'[p] = "row"
          BY <4>3, <5>3
        <5>4. pc'[p] \in {"ctu", "await", "row"}
          BY <2>5 DEF AwaitAbove, Await, awaitTrue, awaitFalse, awaitWaits, Wait, NextRow, Goto, TypeOK
        <5> QED
          BY <5>1, <5>2, <5>3, <5>4
      <4> QED
        BY <4>2, <4>3
    <3> QED
      BY <3>1, <3>4
  <2>6. CASE CodingTreeUnit(p)
    <3>1. recon \subseteq recon' /\ UNCHANGED <<row, col, done>>
      BY <2>6 DEF CodingTreeUnit
    <3>2. DoneIsReconstructed'
      BY <3>1 DEF DoneIsReconstructed
    <3>3. /\ pc[p] = "ctu" /\ pc' = [pc EXCEPT ![p] = pc'[p]] /\ pc \in [Procs -> PCs]
          /\ pc'[p] \in {"fail", "publish"}
          /\ pc'[p] = "publish" => <<row[p], col[p]>> \in recon'
      BY <2>6 DEF CodingTreeUnit, Goto, Here, TypeOK
    <3>4. RowIsReconstructed'
      <4> SUFFICES ASSUME NEW q \in Procs, NEW c \in ColIds
                   PROVE RowIsReconstructed!(q, c)'
        BY DEF RowIsReconstructed
      <4>1. CASE q # p
        BY <4>1, <3>1, <3>3 DEF RowIsReconstructed
      <4>2. CASE q = p
        <5>1. c <= col[p] => c < col[p] \/ c = col[p]
          BY DEF TypeOK, ColIds
        <5> QED
          BY <4>2, <5>1, <3>1, <3>3 DEF RowIsReconstructed
      <4> QED
        BY <4>1, <4>2
    <3> QED
      BY <3>2, <3>4
  <2>7. CASE Publish(p)
    <3>1. /\ pc[p] = "publish" /\ row[p] \in RowIds /\ col[p] \in ColIds
          /\ done' = [done EXCEPT ![row[p]] = col[p] + 1]
          /\ done \in [RowIds -> 0 .. Cols]
          /\ recon' = recon
      BY <2>7 DEF Publish, saveCtx, advance, OnARow, InRow, TypeOK, WaveTypeOK
    <3>2. ASSUME NEW c \in ColIds, c < col[p] + 1 PROVE <<row[p], c>> \in recon
      <4>1. c <= col[p]
        BY <3>1, <3>2 DEF ColIds
      <4> QED
        BY <3>1, <4>1 DEF RowIsReconstructed
    <3>3. DoneIsReconstructed'
      BY <3>1, <3>2 DEF DoneIsReconstructed, RowIds, LastRow
    <3>4. RowIsReconstructed'
      BY <2>7 DEF Publish, Goto, saveCtx, advance, RowIsReconstructed, TypeOK, ColIds
    <3> QED
      BY <3>3, <3>4
  <2>8. CASE Notify(p)
    <3>1. DoneIsReconstructed'
      BY <2>8 DEF Notify, Broadcast, DoneIsReconstructed
    <3>2. RowIsReconstructed'
      BY <2>8 DEF Notify, Goto, Broadcast, RowIsReconstructed, TypeOK, ColIds
    <3> QED
      BY <3>1, <3>2
  <2>9. CASE EndOfSlice(p)
    <3>1. DoneIsReconstructed'
      BY <2>9 DEF EndOfSlice, DoneIsReconstructed
    <3>2. RowIsReconstructed'
      BY <2>9 DEF EndOfSlice, Goto, RowIsReconstructed, TypeOK, ColIds
    <3> QED
      BY <3>1, <3>2
  <2>10. CASE EndOfRow(p)
    <3>1. DoneIsReconstructed'
      BY <2>10 DEF EndOfRow, DoneIsReconstructed
    <3>2. RowIsReconstructed'
      BY <2>10 DEF EndOfRow, Goto, RowIsReconstructed, TypeOK, ColIds
    <3> QED
      BY <3>1, <3>2
  <2>11. CASE NextBlock(p)
    <3>1. DoneIsReconstructed'
      BY <2>11 DEF NextBlock, DoneIsReconstructed
    <3>2. RowIsReconstructed'
      BY <2>11 DEF NextBlock, Goto, RowIsReconstructed, TypeOK, ColIds
    <3> QED
      BY <3>1, <3>2
  <2>12. CASE Close(p)
    <3>1. /\ pc[p] = "close" /\ row[p] \in RowIds /\ col[p] \in ColIds
          /\ row[p] # LastRow => col[p] = Cols - 1
          /\ done' = [done EXCEPT ![row[p]] = Cols]
          /\ done \in [RowIds -> 0 .. Cols]
          /\ recon' = recon
      BY <2>12 DEF Close, advance, ContextInv, RowContexts, OnARow, InRow, TypeOK, WaveTypeOK
    <3>2. ASSUME NEW c \in ColIds, row[p] # LastRow PROVE <<row[p], c>> \in recon
      <4>1. c <= col[p]
        BY <3>1, <3>2 DEF ColIds
      <4> QED
        BY <3>1, <4>1 DEF RowIsReconstructed
    <3>3. DoneIsReconstructed'
      BY <3>1, <3>2 DEF DoneIsReconstructed, RowIds, LastRow
    <3>4. RowIsReconstructed'
      BY <2>12 DEF Close, Goto, advance, RowIsReconstructed, TypeOK, ColIds
    <3> QED
      BY <3>3, <3>4
  <2>13. CASE Closed(p)
    <3>1. DoneIsReconstructed'
      BY <2>13 DEF Closed, Broadcast, NextRow, DoneIsReconstructed
    <3>2. RowIsReconstructed'
      BY <2>13 DEF Closed, Goto, Broadcast, NextRow, RowIsReconstructed, TypeOK, ColIds
    <3> QED
      BY <3>1, <3>2
  <2>14. CASE Fail(p)
    <3>1. DoneIsReconstructed'
      BY <2>14 DEF Fail, fail, DoneIsReconstructed
    <3>2. RowIsReconstructed'
      BY <2>14 DEF Fail, Goto, fail, RowIsReconstructed, TypeOK, ColIds
    <3> QED
      BY <3>1, <3>2
  <2>15. CASE Failed(p)
    <3>1. DoneIsReconstructed'
      BY <2>15 DEF Failed, Broadcast, DoneIsReconstructed
    <3>2. RowIsReconstructed'
      BY <2>15 DEF Failed, Goto, Broadcast, RowIsReconstructed, TypeOK, ColIds
    <3> QED
      BY <3>1, <3>2
  <2> QED
    BY <1>1, <2>1, <2>2, <2>3, <2>4, <2>5, <2>6, <2>7, <2>8, <2>9, <2>10, <2>11, <2>12, <2>13, <2>14, <2>15 DEF Worker
<1>2. CASE Join
  BY <1>2 DEF Join, DoneIsReconstructed, RowIsReconstructed
<1>3. CASE UNCHANGED vars
  BY <1>3 DEF vars, DoneIsReconstructed, RowIsReconstructed
<1> QED
  BY <1>1, <1>2, <1>3 DEF Next, Returned

\* Inside codingTreeUnit every neighbour is in place: left by the row itself,
\* the three above by the progress it waited for.
LEMMA NeighboursInPlace == TypeInv /\ PredictionInv => NeighboursReady
<1> SUFFICES ASSUME TypeInv, PredictionInv, NEW p \in Procs, pc[p] = "ctu",
                    NEW n \in Order!Neighbours(Here(p))
             PROVE n \in recon
  BY DEF NeighboursReady
<1>1. /\ row[p] \in RowIds /\ row[p] \in Nat
      /\ col[p] \in ColIds /\ col[p] \in Int
      /\ Cols \in Nat
  BY WaveAssumption DEF TypeInv, TypeOK, OnARow, InRow, ColIds
<1>2. PICK k \in RowIds, c \in ColIds : n = <<k, c>>
  BY DEF Order!Neighbours, Order!CTBs, Order!RowIds, Order!ColIds, RowIds, ColIds
<1>3. \/ k = row[p] /\ c = col[p] - 1
      \/ k = row[p] - 1 /\ c \in col[p] - 1 .. col[p] + 1
  BY <1>2 DEF Order!Neighbours, Here
<1>4. c \in Int /\ c < Cols /\ k \in Int /\ k >= 0
  BY WaveAssumption DEF ColIds, RowIds
<1>5. CASE k = row[p] /\ c = col[p] - 1
  <2>1. c < col[p]
    BY <1>1, <1>4, <1>5
  <2> QED
    BY <1>2, <1>5, <2>1 DEF PredictionInv, RowIsReconstructed
<1>6. CASE k = row[p] - 1 /\ c \in col[p] - 1 .. col[p] + 1
  <2>1. c < Lag(col[p]) /\ row[p] > 0
    BY <1>1, <1>4, <1>6 DEF Lag
  <2> QED
    BY <1>2, <1>6, <2>1 DEF PredictionInv, RowIsReconstructed
<1> QED
  BY <1>3, <1>5, <1>6

\* NeighboursReady for every segment: no row ever reads a block that another
\* row is still writing.
THEOREM NoTornRead == Spec => []NeighboursReady
BY TypeInit, TypeNext, ContextInit, ContextNext, PredictionInit, PredictionNext,
   NeighboursInPlace, PTL DEF Spec

-----------------------------------------------------------------------------
\* What makes it once: the rows p, p + Workers, p + 2*Workers... are dealt to
\* goroutine p alone, and nobody has touched what is still ahead of it.
OwnRows == \A p \in Procs : Owns(p, row[p])

Ahead ==
    \A p \in Procs, k \in RowIds, c \in ColIds :
        \/ Owns(p, k) /\ k > row[p]
        \/ k = row[p] /\ pc[p] \in {"row", "start", "handoff", "load"}
        \/ k = row[p] /\ pc[p] \in {"await", "ctu"} /\ c >= col[p]
        \/ k = row[p] /\ pc[p] \in {"publish", "notify", "terminate"} /\ c > col[p]
        => <<k, c>> \notin recon

OnceInv == OwnRows /\ Ahead

LEMMA OnceInit == Init => OnceInv
<1> SUFFICES ASSUME Init PROVE OnceInv
  OBVIOUS
<1>1. \A p \in Procs : Owns(p, p)
  BY WaveAssumption DEF Procs, Owns
<1> QED
  BY <1>1 DEF Init, OnceInv, OwnRows, Ahead

\* A step that decodes nothing and leaves a goroutine on its row, or moves it
\* to the next row it owns.
LEMMA StepOnce ==
    ASSUME TypeInv, OnceInv, NEW p \in Procs,
           UNCHANGED <<col, recon>>,
           \A q \in Procs : q # p => pc'[q] = pc[q] /\ row'[q] = row[q],
           \/ pc'[p] = "row" /\ row'[p] = row[p] + Workers
           \/ pc'[p] \in {pc[p], "load", "ctu", "fail"} /\ row'[p] = row[p],
           pc[p] = "handoff" => pc'[p] \in {"handoff", "load", "row"},
           pc[p] = "await" => pc'[p] \in {"await", "ctu", "row"},
           pc[p] = "closed" => pc'[p] \in {"fail", "row"},
           pc[p] \in {"handoff", "await", "closed"}
    PROVE OnceInv'
<1> USE DEF OnceInv
<1>1. row[p] \in Nat /\ Workers \in Nat /\ Workers >= 1
  BY WaveAssumption DEF TypeInv, TypeOK
<1>2. \A q \in Procs : Owns(q, row'[q])
  BY <1>1, NextOwnRow DEF OwnRows
<1>3. Ahead'
  <2> SUFFICES ASSUME NEW q \in Procs, NEW k \in RowIds, NEW c \in ColIds,
                      \/ Owns(q, k) /\ k > row'[q]
                      \/ k = row'[q] /\ pc'[q] \in {"row", "start", "handoff", "load"}
                      \/ k = row'[q] /\ pc'[q] \in {"await", "ctu"} /\ c >= col[q]
                      \/ k = row'[q] /\ pc'[q] \in {"publish", "notify", "terminate"} /\ c > col[q]
               PROVE <<k, c>> \notin recon
    BY DEF Ahead, Owns
  <2>1. CASE q # p
    BY <2>1 DEF Ahead
  <2>2. CASE q = p /\ row'[p] = row[p]
    <3>1. \/ pc[p] = "handoff" /\ pc'[p] \in {"handoff", "load"}
          \/ pc[p] = "await" /\ pc'[p] \in {"await", "ctu"}
          \/ pc[p] = "closed" /\ pc'[p] = "fail"
      BY <1>1, <2>2
    <3> QED
      BY <2>2, <3>1 DEF Ahead
  <2>3. CASE q = p /\ pc'[p] = "row" /\ row'[p] = row[p] + Workers
    <3>1. CASE k = row'[p]
      <4>1. Owns(p, k)
        BY <1>2, <3>1
      <4>2. k > row[p]
        BY <1>1, <2>3, <3>1
      <4> QED
        BY <4>1, <4>2 DEF Ahead
    <3>2. CASE k # row'[p]
      <4>1. Owns(p, k) /\ k > row'[p]
        BY <2>3, <3>2
      <4>2. k > row[p]
        BY <1>1, <2>3, <4>1 DEF RowIds
      <4> QED
        BY <4>1, <4>2 DEF Ahead
    <3> QED
      BY <3>1, <3>2
  <2> QED
    BY <2>1, <2>2, <2>3
<1>4. OwnRows'
  BY <1>2 DEF OwnRows, Owns
<1> QED
  BY <1>3, <1>4

LEMMA OnceNext == TypeInv /\ OnceInv /\ [Next]_vars => OnceInv'
<1> SUFFICES ASSUME TypeInv, OnceInv, [Next]_vars PROVE OnceInv'
  OBVIOUS
<1> USE WaveAssumption
<1> USE DEF TypeInv, OnceInv, wave, local, main
<1>1. ASSUME NEW p \in Procs, Worker(p) PROVE OnceInv'
  <2>1. CASE Row(p)
    <3>1. OwnRows'
      BY <2>1 DEF Row, OwnRows, TypeOK
    <3>2. Ahead'
      BY <2>1 DEF Row, Goto, Ahead, TypeOK, ColIds, RowIds
    <3> QED
      BY <3>1, <3>2
  <2>2. CASE StartSubstream(p)
    <3>1. OwnRows'
      BY <2>2 DEF StartSubstream, OwnRows, TypeOK
    <3>2. Ahead'
      BY <2>2 DEF StartSubstream, Goto, Ahead, TypeOK, ColIds, RowIds
    <3> QED
      BY <3>1, <3>2
  <2>3. CASE AwaitHandoff(p)
    <3>1. /\ UNCHANGED <<col, recon>> /\ pc \in [Procs -> PCs] /\ row \in [Procs -> Nat]
          /\ \A q \in Procs : q # p => pc'[q] = pc[q] /\ row'[q] = row[q]
          /\ \/ pc'[p] = "row" /\ row'[p] = row[p] + Workers
             \/ pc'[p] \in {pc[p], "load", "ctu", "fail"} /\ row'[p] = row[p]
          /\ pc[p] = "handoff" => pc'[p] \in {"handoff", "load", "row"}
          /\ pc[p] = "await" => pc'[p] \in {"await", "ctu", "row"}
          /\ pc[p] = "closed" => pc'[p] \in {"fail", "row"}
          /\ pc[p] \in {"handoff", "await", "closed"}
      BY <2>3 DEF AwaitHandoff, Goto, Await, awaitTrue, awaitFalse, awaitWaits, Wait, NextRow, TypeOK
    <3> QED
      BY <3>1, StepOnce
  <2>4. CASE LoadContexts(p)
    <3>1. OwnRows'
      BY <2>4 DEF LoadContexts, OwnRows, TypeOK
    <3>2. Ahead'
      BY <2>4 DEF LoadContexts, Goto, Ahead, TypeOK, ColIds, RowIds
    <3> QED
      BY <3>1, <3>2
  <2>5. CASE AwaitAbove(p)
    <3>1. /\ UNCHANGED <<col, recon>> /\ pc \in [Procs -> PCs] /\ row \in [Procs -> Nat]
          /\ \A q \in Procs : q # p => pc'[q] = pc[q] /\ row'[q] = row[q]
          /\ \/ pc'[p] = "row" /\ row'[p] = row[p] + Workers
             \/ pc'[p] \in {pc[p], "load", "ctu", "fail"} /\ row'[p] = row[p]
          /\ pc[p] = "handoff" => pc'[p] \in {"handoff", "load", "row"}
          /\ pc[p] = "await" => pc'[p] \in {"await", "ctu", "row"}
          /\ pc[p] = "closed" => pc'[p] \in {"fail", "row"}
          /\ pc[p] \in {"handoff", "await", "closed"}
      BY <2>5 DEF AwaitAbove, Goto, Await, awaitTrue, awaitFalse, awaitWaits, Wait, NextRow, TypeOK
    <3> QED
      BY <3>1, StepOnce
  <2>6. CASE CodingTreeUnit(p)
    <3>1. OwnRows'
      BY <2>6 DEF CodingTreeUnit, OwnRows
    <3>2. /\ pc \in [Procs -> PCs] /\ pc[p] = "ctu" /\ UNCHANGED <<row, col>>
          /\ pc' = [pc EXCEPT ![p] = pc'[p]] /\ pc'[p] \in {"fail", "publish"}
          /\ recon' \subseteq recon \cup {<<row[p], col[p]>>}
          /\ row[p] \in Nat /\ col[p] \in Int
      BY <2>6 DEF CodingTreeUnit, Goto, Here, TypeOK, ColIds
    <3>3. Ahead'
      <4> SUFFICES ASSUME NEW q \in Procs, NEW k \in RowIds, NEW c \in ColIds,
                          <<k, c>> \in recon',
                          \/ Owns(q, k) /\ k > row[q]
                          \/ k = row[q] /\ pc'[q] \in {"row", "start", "handoff", "load"}
                          \/ k = row[q] /\ pc'[q] \in {"await", "ctu"} /\ c >= col[q]
                          \/ k = row[q] /\ pc'[q] \in {"publish", "notify", "terminate"} /\ c > col[q]
                   PROVE FALSE
        BY <3>2 DEF Ahead
      <4>1. CASE q # p
        <5>1. Owns(q, k) /\ k \in Nat
          BY DEF OwnRows, RowIds
        <5>2. k # row[p]
          BY <4>1, <5>1, OneOwner DEF OwnRows
        <5>3. <<k, c>> \in recon
          BY <5>2, <3>2
        <5>4. pc'[q] = pc[q]
          BY <3>2, <4>1
        <5> QED
          BY <5>3, <5>4 DEF Ahead
      <4>2. CASE q = p
        <5>1. k > row[p] \/ (k = row[p] /\ c > col[p])
          BY <3>2, <4>2
        <5>2. <<k, c>> # <<row[p], col[p]>> /\ c \in Int /\ k \in Int
          BY <5>1, <3>2 DEF ColIds, RowIds
        <5>3. <<k, c>> \in recon
          BY <5>2, <3>2
        <5>4. CASE k > row[p]
          BY <3>2, <4>2, <5>3, <5>4 DEF Ahead
        <5>5. CASE k = row[p] /\ c > col[p]
          <6>1. c >= col[p]
            BY <5>5, <5>2, <3>2
          <6> QED
            BY <3>2, <4>2, <5>3, <5>5, <6>1 DEF Ahead
        <5> QED
          BY <5>1, <5>4, <5>5
      <4> QED
        BY <4>1, <4>2
    <3> QED
      BY <3>1, <3>3
  <2>7. CASE Publish(p)
    <3>1. OwnRows'
      BY <2>7 DEF Publish, saveCtx, advance, OwnRows, TypeOK
    <3>2. Ahead'
      BY <2>7 DEF Publish, Goto, saveCtx, advance, Ahead, TypeOK, ColIds, RowIds
    <3> QED
      BY <3>1, <3>2
  <2>8. CASE Notify(p)
    <3>1. OwnRows'
      BY <2>8 DEF Notify, Broadcast, OwnRows, TypeOK
    <3>2. Ahead'
      BY <2>8 DEF Notify, Goto, Broadcast, Ahead, TypeOK, ColIds, RowIds
    <3> QED
      BY <3>1, <3>2
  <2>9. CASE EndOfSlice(p)
    <3>1. OwnRows'
      BY <2>9 DEF EndOfSlice, OwnRows, TypeOK
    <3>2. Ahead'
      BY <2>9 DEF EndOfSlice, Goto, Ahead, TypeOK, ColIds, RowIds
    <3> QED
      BY <3>1, <3>2
  <2>10. CASE EndOfRow(p)
    <3>1. OwnRows'
      BY <2>10 DEF EndOfRow, OwnRows, TypeOK
    <3>2. Ahead'
      BY <2>10 DEF EndOfRow, Goto, Ahead, TypeOK, ColIds, RowIds
    <3> QED
      BY <3>1, <3>2
  <2>11. CASE NextBlock(p)
    <3>1. OwnRows'
      BY <2>11 DEF NextBlock, OwnRows, TypeOK
    <3>2. Ahead'
      BY <2>11 DEF NextBlock, Goto, Ahead, TypeOK, ColIds, RowIds
    <3> QED
      BY <3>1, <3>2
  <2>12. CASE Close(p)
    <3>1. OwnRows'
      BY <2>12 DEF Close, advance, OwnRows, TypeOK
    <3>2. Ahead'
      BY <2>12 DEF Close, Goto, advance, Ahead, TypeOK, ColIds, RowIds
    <3> QED
      BY <3>1, <3>2
  <2>13. CASE Closed(p)
    <3>1. /\ UNCHANGED <<col, recon>> /\ pc \in [Procs -> PCs] /\ row \in [Procs -> Nat]
          /\ \A q \in Procs : q # p => pc'[q] = pc[q] /\ row'[q] = row[q]
          /\ \/ pc'[p] = "row" /\ row'[p] = row[p] + Workers
             \/ pc'[p] \in {pc[p], "load", "ctu", "fail"} /\ row'[p] = row[p]
          /\ pc[p] = "handoff" => pc'[p] \in {"handoff", "load", "row"}
          /\ pc[p] = "await" => pc'[p] \in {"await", "ctu", "row"}
          /\ pc[p] = "closed" => pc'[p] \in {"fail", "row"}
          /\ pc[p] \in {"handoff", "await", "closed"}
      BY <2>13 DEF Closed, Goto, Broadcast, NextRow, TypeOK
    <3> QED
      BY <3>1, StepOnce
  <2>14. CASE Fail(p)
    <3>1. OwnRows'
      BY <2>14 DEF Fail, fail, OwnRows, TypeOK
    <3>2. Ahead'
      BY <2>14 DEF Fail, Goto, fail, Ahead, TypeOK, ColIds, RowIds
    <3> QED
      BY <3>1, <3>2
  <2>15. CASE Failed(p)
    <3>1. OwnRows'
      BY <2>15 DEF Failed, Broadcast, OwnRows, TypeOK
    <3>2. Ahead'
      BY <2>15 DEF Failed, Goto, Broadcast, Ahead, TypeOK, ColIds, RowIds
    <3> QED
      BY <3>1, <3>2
  <2> QED
    BY <1>1, <2>1, <2>2, <2>3, <2>4, <2>5, <2>6, <2>7, <2>8, <2>9, <2>10, <2>11, <2>12, <2>13, <2>14, <2>15 DEF Worker
<1>2. CASE Join
  BY <1>2 DEF Join, OwnRows, Ahead
<1>3. CASE UNCHANGED vars
  BY <1>3 DEF vars, OwnRows, Ahead
<1> QED
  BY <1>1, <1>2, <1>3 DEF Next, Returned

\* DecodedOnce for every segment: with the rows dealt round robin, no block is
\* ever written by two goroutines, or twice by one.
THEOREM DecodesOnce == Spec => []DecodedOnce
<1>1. TypeInv /\ OnceInv => DecodedOnce
  <2> SUFFICES ASSUME TypeInv, OnceInv, NEW p \in Procs, pc[p] = "ctu"
               PROVE <<row[p], col[p]>> \notin recon
    BY DEF DecodedOnce, Here
  <2>1. row[p] \in RowIds /\ col[p] \in ColIds /\ col[p] >= col[p]
    BY DEF TypeInv, TypeOK, OnARow, InRow, ColIds
  <2> QED
    BY <2>1 DEF OnceInv, Ahead
<1> QED
  BY <1>1, TypeInit, TypeNext, OnceInit, OnceNext, PTL DEF Spec

\* ImplementsOrder for every segment: decodeWavefront never reconstructs a block
\* before the blocks it predicts from.
THEOREM Refinement == Spec => ImplementsOrder
<1>1. Init => Order!Init
  BY DEF Init, Order!Init
<1>2. TypeInv /\ PredictionInv /\ [Next]_vars => [Order!Next]_recon
  <2> SUFFICES ASSUME TypeInv, PredictionInv, [Next]_vars
               PROVE Order!Next \/ UNCHANGED recon
    OBVIOUS
  <2>1. ASSUME NEW p \in Procs, CodingTreeUnit(p), recon' # recon
        PROVE Order!Next
    <3>1. /\ pc[p] = "ctu" /\ row[p] \in RowIds /\ col[p] \in ColIds
          /\ recon' = recon \cup {Here(p)}
      BY <2>1 DEF CodingTreeUnit, TypeInv, TypeOK, OnARow, InRow
    <3>2. Here(p) \in Order!CTBs
      BY <3>1 DEF Here, Order!CTBs, Order!RowIds, Order!ColIds, RowIds, ColIds
    <3>3. Order!Neighbours(Here(p)) \subseteq recon
      BY <3>1, NeighboursInPlace DEF NeighboursReady
    <3>4. Here(p) \notin recon
      BY <2>1, <3>1
    <3> QED
      BY <3>1, <3>2, <3>3, <3>4 DEF Order!Next, Order!Reconstruct
  <2>2. ASSUME NEW p \in Procs, Worker(p), ~CodingTreeUnit(p)
        PROVE UNCHANGED recon
    BY <2>2 DEF Worker, Row, StartSubstream, AwaitHandoff, LoadContexts, AwaitAbove,
                Await, Publish, Notify, EndOfSlice, EndOfRow, NextBlock, Close,
                Closed, Fail, Failed
  <2> QED
    BY <2>1, <2>2 DEF Next, Join, Returned, vars
<1> QED
  BY <1>1, <1>2, TypeInit, TypeNext, ContextInit, ContextNext, PredictionInit,
     PredictionNext, PTL
  DEF Spec, ImplementsOrder, Order!Spec

-----------------------------------------------------------------------------
\* What makes NoLostWakeup inductive: only a goroutine at one of the two waits
\* sleeps, and a sleeper takes no step.
Asleep == \A p \in sleeping : p \in Procs /\ pc[p] \in {"handoff", "await"}

WakeupInv == Asleep /\ NoLostWakeup

LEMMA WakeupInit == Init => WakeupInv
BY DEF Init, newWave, WakeupInv, Asleep, NoLostWakeup

\* Whoever broadcasts leaves nobody asleep.
LEMMA AfterBroadcast == Broadcast => WakeupInv'
BY DEF Broadcast, WakeupInv, Asleep, NoLostWakeup

\* A goroutine that is awake and moves, with the monitor as it was.
LEMMA StepAwake ==
    ASSUME WakeupInv, NEW p \in Procs, p \notin sleeping,
           UNCHANGED <<done, bad, sleeping>>,
           pc[p] \notin {"notify", "closed", "failed"},
           \A q \in Procs : q # p => pc'[q] = pc[q] /\ row'[q] = row[q] /\ col'[q] = col[q]
    PROVE WakeupInv'
<1>1. Asleep'
  BY DEF WakeupInv, Asleep
<1>2. ASSUME NEW q \in sleeping PROVE /\ q # p /\ q \in Procs /\ pc'[q] = pc[q]
                                      /\ AwaitedRow(q)' = AwaitedRow(q)
                                      /\ AwaitedCount(q)' = AwaitedCount(q)
  BY <1>2 DEF WakeupInv, Asleep, AwaitedRow, AwaitedCount, Lag
<1>3. NoLostWakeup'
  <2> SUFFICES ASSUME NEW q \in sleeping, ~awaitWaits(AwaitedRow(q), AwaitedCount(q))
               PROVE \E r \in Procs : pc'[r] \in {"notify", "closed", "failed"}
    BY <1>2 DEF NoLostWakeup, awaitWaits
  <2>1. PICK r \in Procs : pc[r] \in {"notify", "closed", "failed"}
    BY DEF WakeupInv, NoLostWakeup
  <2>2. r # p
    BY <2>1
  <2> QED
    BY <2>1, <2>2
<1> QED
  BY <1>1, <1>3 DEF WakeupInv

\* A goroutine that is about to broadcast covers for every sleeper.
LEMMA StepCovered ==
    ASSUME WakeupInv, NEW p \in Procs, pc[p] \notin {"handoff", "await"},
           UNCHANGED sleeping, pc'[p] \in {"notify", "closed", "failed"},
           \A q \in Procs : q # p => pc'[q] = pc[q]
    PROVE WakeupInv'
<1>1. Asleep'
  BY DEF WakeupInv, Asleep
<1>2. NoLostWakeup'
  BY DEF NoLostWakeup
<1> QED
  BY <1>1, <1>2 DEF WakeupInv

\* One pass through the loop of await: on, out, or to sleep.
LEMMA StepAwait ==
    ASSUME WakeupInv, NEW p \in Procs, NEW k, NEW c, NEW label,
           pc \in [Procs -> PCs], row \in [Procs -> Nat],
           pc[p] \in {"handoff", "await"}, Await(p, k, c, label),
           k = AwaitedRow(p), c = AwaitedCount(p)
    PROVE WakeupInv'
<1>1. CASE awaitWaits(k, c) /\ Wait(p) /\ UNCHANGED <<pc, row>>
  <2>1. UNCHANGED <<done, bad, pc, row, col>> /\ sleeping' = sleeping \cup {p}
    BY <1>1 DEF Await, Wait
  <2>2. Asleep'
    BY <2>1 DEF WakeupInv, Asleep
  <2>3. ASSUME NEW q \in sleeping' PROVE awaitWaits(AwaitedRow(q), AwaitedCount(q))'
                                         <=> awaitWaits(AwaitedRow(q), AwaitedCount(q))
    BY <2>1 DEF awaitWaits, AwaitedRow, AwaitedCount, Lag
  <2>4. NoLostWakeup'
    BY <1>1, <2>1, <2>3 DEF WakeupInv, NoLostWakeup
  <2> QED
    BY <2>2, <2>4 DEF WakeupInv
<1>2. CASE ~(awaitWaits(k, c) /\ Wait(p) /\ UNCHANGED <<pc, row>>)
  <2>1. /\ UNCHANGED <<done, bad, sleeping>> /\ p \notin sleeping
        /\ \A q \in Procs : q # p => pc'[q] = pc[q] /\ row'[q] = row[q] /\ col'[q] = col[q]
    BY <1>2 DEF Await, Goto, NextRow, wave
  <2> QED
    BY <2>1, StepAwake
<1> QED
  BY <1>1, <1>2

LEMMA WakeupNext == TypeInv /\ WakeupInv /\ [Next]_vars => WakeupInv'
<1> SUFFICES ASSUME TypeInv, WakeupInv, [Next]_vars PROVE WakeupInv'
  OBVIOUS
<1> USE DEF wave, local, main
<1>0. /\ pc \in [Procs -> PCs] /\ row \in [Procs -> Nat] /\ col \in [Procs -> ColIds]
  BY DEF TypeInv, TypeOK
<1>1. ASSUME NEW p \in Procs, Worker(p) PROVE WakeupInv'
  <2>1. CASE Row(p)
    <3>1. /\ UNCHANGED <<done, bad, sleeping>>
          /\ pc[p] \notin {"handoff", "await", "notify", "closed", "failed"}
          /\ \A q \in Procs : q # p => pc'[q] = pc[q] /\ row'[q] = row[q] /\ col'[q] = col[q]
      BY <1>0, <2>1 DEF Row, Goto
    <3> QED
      BY <3>1, StepAwake DEF WakeupInv, Asleep
  <2>2. CASE StartSubstream(p)
    <3>1. /\ UNCHANGED <<done, bad, sleeping>>
          /\ pc[p] \notin {"handoff", "await", "notify", "closed", "failed"}
          /\ \A q \in Procs : q # p => pc'[q] = pc[q] /\ row'[q] = row[q] /\ col'[q] = col[q]
      BY <1>0, <2>2 DEF StartSubstream, Goto
    <3> QED
      BY <3>1, StepAwake DEF WakeupInv, Asleep
  <2>3. CASE LoadContexts(p)
    <3>1. /\ UNCHANGED <<done, bad, sleeping>>
          /\ pc[p] \notin {"handoff", "await", "notify", "closed", "failed"}
          /\ \A q \in Procs : q # p => pc'[q] = pc[q] /\ row'[q] = row[q] /\ col'[q] = col[q]
      BY <1>0, <2>3 DEF LoadContexts, Goto
    <3> QED
      BY <3>1, StepAwake DEF WakeupInv, Asleep
  <2>4. CASE CodingTreeUnit(p)
    <3>1. /\ UNCHANGED <<done, bad, sleeping>>
          /\ pc[p] \notin {"handoff", "await", "notify", "closed", "failed"}
          /\ \A q \in Procs : q # p => pc'[q] = pc[q] /\ row'[q] = row[q] /\ col'[q] = col[q]
      BY <1>0, <2>4 DEF CodingTreeUnit, Goto
    <3> QED
      BY <3>1, StepAwake DEF WakeupInv, Asleep
  <2>5. CASE EndOfSlice(p)
    <3>1. /\ UNCHANGED <<done, bad, sleeping>>
          /\ pc[p] \notin {"handoff", "await", "notify", "closed", "failed"}
          /\ \A q \in Procs : q # p => pc'[q] = pc[q] /\ row'[q] = row[q] /\ col'[q] = col[q]
      BY <1>0, <2>5 DEF EndOfSlice, Goto
    <3> QED
      BY <3>1, StepAwake DEF WakeupInv, Asleep
  <2>6. CASE EndOfRow(p)
    <3>1. /\ UNCHANGED <<done, bad, sleeping>>
          /\ pc[p] \notin {"handoff", "await", "notify", "closed", "failed"}
          /\ \A q \in Procs : q # p => pc'[q] = pc[q] /\ row'[q] = row[q] /\ col'[q] = col[q]
      BY <1>0, <2>6 DEF EndOfRow, Goto
    <3> QED
      BY <3>1, StepAwake DEF WakeupInv, Asleep
  <2>7. CASE NextBlock(p)
    <3>1. /\ UNCHANGED <<done, bad, sleeping>>
          /\ pc[p] \notin {"handoff", "await", "notify", "closed", "failed"}
          /\ \A q \in Procs : q # p => pc'[q] = pc[q] /\ row'[q] = row[q] /\ col'[q] = col[q]
      BY <1>0, <2>7 DEF NextBlock, Goto
    <3> QED
      BY <3>1, StepAwake DEF WakeupInv, Asleep
  <2>8. CASE Publish(p)
    <3>1. /\ UNCHANGED sleeping
          /\ pc[p] \notin {"handoff", "await"} /\ pc'[p] \in {"notify", "closed", "failed"}
          /\ \A q \in Procs : q # p => pc'[q] = pc[q]
      BY <1>0, <2>8 DEF Publish, Goto, advance, saveCtx
    <3> QED
      BY <3>1, StepCovered
  <2>9. CASE Close(p)
    <3>1. /\ UNCHANGED sleeping
          /\ pc[p] \notin {"handoff", "await"} /\ pc'[p] \in {"notify", "closed", "failed"}
          /\ \A q \in Procs : q # p => pc'[q] = pc[q]
      BY <1>0, <2>9 DEF Close, Goto, advance
    <3> QED
      BY <3>1, StepCovered
  <2>10. CASE Fail(p)
    <3>1. /\ UNCHANGED sleeping
          /\ pc[p] \notin {"handoff", "await"} /\ pc'[p] \in {"notify", "closed", "failed"}
          /\ \A q \in Procs : q # p => pc'[q] = pc[q]
      BY <1>0, <2>10 DEF Fail, Goto, fail
    <3> QED
      BY <3>1, StepCovered
  <2>11. CASE Notify(p)
    BY <2>11, AfterBroadcast DEF Notify
  <2>12. CASE Closed(p)
    BY <2>12, AfterBroadcast DEF Closed
  <2>13. CASE Failed(p)
    BY <2>13, AfterBroadcast DEF Failed
  <2>14. CASE AwaitHandoff(p)
    <3>1. PICK k, c, label : pc[p] \in {"handoff", "await"} /\ Await(p, k, c, label)
                            /\ k = AwaitedRow(p) /\ c = AwaitedCount(p)
      BY <2>14 DEF AwaitHandoff, AwaitedRow, AwaitedCount
    <3> QED
      BY <1>0, <3>1, StepAwait
  <2>15. CASE AwaitAbove(p)
    <3>1. PICK k, c, label : pc[p] \in {"handoff", "await"} /\ Await(p, k, c, label)
                            /\ k = AwaitedRow(p) /\ c = AwaitedCount(p)
      BY <2>15 DEF AwaitAbove, AwaitedRow, AwaitedCount
    <3> QED
      BY <1>0, <3>1, StepAwait
  <2> QED
    BY <1>1, <2>1, <2>2, <2>3, <2>4, <2>5, <2>6, <2>7, <2>8, <2>9, <2>10, <2>11, <2>12, <2>13, <2>14, <2>15 DEF Worker
<1>2. CASE Join
  BY <1>2 DEF Join, WakeupInv, Asleep, NoLostWakeup, awaitWaits, AwaitedRow, AwaitedCount
<1>3. CASE UNCHANGED vars
  BY <1>3 DEF vars, WakeupInv, Asleep, NoLostWakeup, awaitWaits, AwaitedRow, AwaitedCount
<1> QED
  BY <1>1, <1>2, <1>3 DEF Next, Returned

\* NoLostWakeup for every segment: a Broadcast sent after Unlock never leaves a
\* row asleep that could go on.
THEOREM NoWakeupIsLost == Spec => []NoLostWakeup
<1>1. WakeupInv => NoLostWakeup
  BY DEF WakeupInv
<1> QED
  BY <1>1, TypeInit, TypeNext, WakeupInit, WakeupNext, PTL DEF Spec

-----------------------------------------------------------------------------
\* What the bits of the segment decide: it ends where it should.
WellFormed == \E b \in CTBs : EndsAt(b)

\* A recorded failure is one the bits call for.
FailuresReal ==
    /\ bad <=> err # NoErr
    /\ bad => ~WellFormed
    /\ \A p \in Procs : /\ pc[p] = "fail" => ~WellFormed
                        /\ pc[p] = "failed" => bad

Sound(b) == b \in recon /\ b \notin stream.badCTU

\* Every block goroutine p has left behind in the row it is on parsed, and did
\* not end the segment; how far the block it is on has got.
SoFar(p) ==
    /\ pc[p] \in {"handoff", "load", "await", "ctu", "publish", "notify", "terminate",
                  "close", "closed"} =>
          /\ row[p] \notin stream.badStart
          /\ \A c \in ColIds : c < col[p] =>
                Sound(<<row[p], c>>) /\ <<row[p], c>> \notin stream.ends
    /\ pc[p] \in {"publish", "notify", "terminate", "close", "closed"} => Sound(Here(p))
    /\ pc[p] \in {"close", "closed"} =>
          \/ row[p] = LastRow /\ Here(p) \in stream.ends /\ end = Rs(Here(p)) + 1
          \/ /\ Here(p) \notin stream.ends
             /\ col[p] = Cols - 1
             /\ row[p] \notin stream.noSubset
             /\ row[p] = LastRow => end = 0

RowSoFar == \A p \in Procs : SoFar(p)

\* Only whoever owns the last row ends the segment, and then is done with it;
\* nothing is reconstructed beyond the end.
EndIsLast ==
    end # 0 =>
        /\ \A p \in Procs : Owns(p, LastRow) =>
              \/ row[p] > LastRow
              \/ row[p] = LastRow /\ pc[p] \in {"close", "closed"}
        /\ \A c \in ColIds : <<LastRow, c>> \in recon => Rs(<<LastRow, c>>) < end

\* A row that has been gone through from its start to its end.
RowDone(k) ==
    /\ k \notin stream.badStart
    /\ k # LastRow =>
          /\ k \notin stream.noSubset
          /\ \A c \in ColIds : Sound(<<k, c>>) /\ <<k, c>> \notin stream.ends
    /\ k = LastRow => \E c \in ColIds :
          /\ end = Rs(<<k, c>>) + 1
          /\ <<k, c>> \in stream.ends
          /\ \A d \in ColIds : d <= c => Sound(<<k, d>>)
          /\ \A d \in ColIds : d < c => <<k, d>> \notin stream.ends

\* As long as nothing fails, a goroutine finishes its rows in order and leaves
\* only when it has no more.
RowsDone ==
    ~bad => \A p \in Procs :
        /\ \A k \in RowIds : Owns(p, k) /\ k < row[p] => RowDone(k)
        /\ pc[p] = "exit" => row[p] >= Rows

\* What decodeWavefront returned, and what it has touched.
ReturnedWith ==
    /\ result # "none" => \A p \in Procs : pc[p] = "exit"
    /\ result = "ok" => err = NoErr /\ nextCTU = end
    /\ result = "error" => err # NoErr
    /\ result # "ok" => nextCTU = FirstRow * Cols

OutcomeInv == FailuresReal /\ RowSoFar /\ EndIsLast /\ RowsDone /\ ReturnedWith

\* Raster order is row order, then column order.
LEMMA RsOrder ==
    \A k, l \in RowIds, c, d \in ColIds :
        Rs(<<k, c>>) <= Rs(<<l, d>>) <=> k < l \/ (k = l /\ c <= d)
<1> SUFFICES ASSUME NEW k \in RowIds, NEW l \in RowIds, NEW c \in ColIds, NEW d \in ColIds
             PROVE  Rs(<<k, c>>) <= Rs(<<l, d>>) <=> k < l \/ (k = l /\ c <= d)
  OBVIOUS
<1>1. /\ Cols \in Nat /\ FirstRow \in Nat /\ k \in Int /\ l \in Int
      /\ c \in 0 .. Cols - 1 /\ d \in 0 .. Cols - 1
  BY WaveAssumption, DecodeAssumption DEF RowIds, ColIds
<1>2. \A x \in Int : (x >= 1 => x * Cols >= Cols) /\ (x <= -1 => x * Cols <= -Cols)
  BY <1>1
<1>3. l - k \in Int /\ (FirstRow + l) * Cols - (FirstRow + k) * Cols = (l - k) * Cols
  BY <1>1
<1>4. (FirstRow + l) * Cols \in Int /\ (FirstRow + k) * Cols \in Int
  BY <1>1
<1>5. Rs(<<k, c>>) = (FirstRow + k) * Cols + c /\ Rs(<<l, d>>) = (FirstRow + l) * Cols + d
  BY DEF Rs
<1>6. CASE k < l
  <2>1. (l - k) * Cols >= Cols
    BY <1>1, <1>2, <1>6
  <2> HIDE DEF Rs
  <2> QED
    BY <1>1, <1>3, <1>4, <1>5, <1>6, <2>1
<1>7. CASE k > l
  <2>1. (l - k) * Cols <= -Cols
    BY <1>1, <1>2, <1>7
  <2> QED
    BY <1>1, <1>3, <1>4, <1>5, <1>7, <2>1
<1>8. CASE k = l
  BY <1>1, <1>4, <1>5, <1>8
<1> QED
  BY <1>1, <1>6, <1>7, <1>8

\* The five ways a goroutine comes to `fail`, each of them a segment that does
\* not end where it should.
LEMMA Malformed ==
    ASSUME NEW k \in RowIds, stream \in StreamType
    PROVE  /\ k \in stream.badStart => ~WellFormed
           /\ \A c \in ColIds : k # LastRow /\ <<k, c>> \in stream.ends => ~WellFormed
           /\ \A c \in ColIds :
                  /\ <<k, c>> \in stream.badCTU
                  /\ \A d \in ColIds : d < c => <<k, d>> \notin stream.ends
                  => ~WellFormed
           /\ k \in stream.noSubset /\ (\A c \in ColIds : <<k, c>> \notin stream.ends)
                  => ~WellFormed
           /\ k = LastRow /\ (\A c \in ColIds : <<k, c>> \notin stream.ends) => ~WellFormed
<1> SUFFICES ASSUME NEW b \in CTBs, EndsAt(b)
             PROVE  /\ k \notin stream.badStart
                    /\ \A c \in ColIds : ~(k # LastRow /\ <<k, c>> \in stream.ends)
                    /\ \A c \in ColIds :
                           ~(/\ <<k, c>> \in stream.badCTU
                             /\ \A d \in ColIds : d < c => <<k, d>> \notin stream.ends)
                    /\ ~(k \in stream.noSubset /\ \A c \in ColIds : <<k, c>> \notin stream.ends)
                    /\ ~(k = LastRow /\ \A c \in ColIds : <<k, c>> \notin stream.ends)
  BY DEF WellFormed
<1>1. PICK e \in ColIds : b = <<LastRow, e>>
  BY DEF CTBs, EndsAt
<1>2. /\ LastRow \in RowIds /\ k \in Int /\ LastRow \in Int /\ k <= LastRow
      /\ \A c \in ColIds : c \in Int
  BY WaveAssumption DEF LastRow, RowIds, ColIds
<1>3. /\ stream.badStart = {} /\ stream.noSubset \subseteq {LastRow}
      /\ <<LastRow, e>> \in stream.ends
      /\ \A l \in RowIds, c \in ColIds : Rs(<<l, c>>) <= Rs(<<LastRow, e>>) =>
             /\ <<l, c>> \notin stream.badCTU
             /\ <<l, c>> \in stream.ends => <<l, c>> = <<LastRow, e>>
  <2>1. \A l \in RowIds, c \in ColIds : <<l, c>> \in CTBs
    BY DEF CTBs
  <2> QED
    BY <1>1, <2>1 DEF EndsAt
<1>4. \A c \in ColIds : k # LastRow \/ c <= e => Rs(<<k, c>>) <= Rs(<<LastRow, e>>)
  BY <1>2, RsOrder
<1>5. ASSUME NEW c \in ColIds, k # LastRow, <<k, c>> \in stream.ends PROVE FALSE
  BY <1>3, <1>4, <1>5
<1>6. ASSUME NEW c \in ColIds, <<k, c>> \in stream.badCTU,
             \A d \in ColIds : d < c => <<k, d>> \notin stream.ends
      PROVE  FALSE
  <2>1. k = LastRow /\ ~(c <= e)
    BY <1>3, <1>4, <1>6
  <2>2. e < c
    BY <1>2, <2>1
  <2> QED
    BY <1>3, <1>6, <2>1, <2>2
<1> QED
  BY <1>3, <1>5, <1>6

\* A segment whose every row has been gone through is well formed.
LEMMA AllRowsDone ==
    ASSUME TypeInv, \A k \in RowIds : RowDone(k),
           EndIsLast
    PROVE  WellFormed /\ recon = {b \in CTBs : Rs(b) < end}
<1>1. LastRow \in RowIds /\ \A k \in RowIds : k \in Int /\ k <= LastRow
  BY WaveAssumption DEF LastRow, RowIds
<1>2. PICK e \in ColIds :
          /\ end = Rs(<<LastRow, e>>) + 1
          /\ <<LastRow, e>> \in stream.ends
          /\ \A d \in ColIds : d <= e => Sound(<<LastRow, d>>)
          /\ \A d \in ColIds : d < e => <<LastRow, d>> \notin stream.ends
  BY <1>1 DEF RowDone
<1>3. /\ <<LastRow, e>> \in CTBs
      /\ \A b \in CTBs : Rs(b) \in Nat
  BY <1>1, RsType DEF CTBs
<1>4. ASSUME NEW k \in RowIds, NEW c \in ColIds, Rs(<<k, c>>) <= Rs(<<LastRow, e>>)
      PROVE  /\ Sound(<<k, c>>)
             /\ <<k, c>> \in stream.ends => <<k, c>> = <<LastRow, e>>
  <2>1. CASE k # LastRow
    BY <1>4, <2>1 DEF RowDone
  <2>2. CASE k = LastRow
    <3>1. c <= e /\ c \in Int /\ e \in Int
      BY <1>1, <1>4, <2>2, RsOrder DEF ColIds
    <3> QED
      BY <1>2, <2>2, <3>1
  <2> QED
    BY <2>1, <2>2
<1>5. EndsAt(<<LastRow, e>>)
  <2>1. stream.badStart = {} /\ stream.noSubset \subseteq {LastRow}
    BY DEF RowDone, TypeInv, TypeOK, StreamType
  <2>2. \A b \in CTBs : Rs(b) <= Rs(<<LastRow, e>>) =>
            /\ b \notin stream.badCTU
            /\ b \in stream.ends => b = <<LastRow, e>>
    BY <1>4 DEF CTBs, Sound
  <2>3. Rs(<<LastRow, e>>) <= Rs(<<LastRow, e>>)
    BY <1>3
  <2> QED
    BY <1>2, <1>3, <2>1, <2>2, <2>3 DEF EndsAt
<1>6. recon = {b \in CTBs : Rs(b) < end}
  <2>1. \A b \in CTBs : Rs(b) < end => b \in recon
    <3> SUFFICES ASSUME NEW k \in RowIds, NEW c \in ColIds, Rs(<<k, c>>) < end
                 PROVE  <<k, c>> \in recon
      BY DEF CTBs
    <3>1. <<k, c>> \in CTBs
      BY DEF CTBs
    <3>2. Rs(<<k, c>>) <= Rs(<<LastRow, e>>)
      BY <1>2, <1>3, <3>1
    <3> QED
      BY <1>4, <3>2 DEF Sound
  <2>2. \A b \in recon : b \in CTBs /\ Rs(b) < end
    <3> SUFFICES ASSUME NEW k \in RowIds, NEW c \in ColIds, <<k, c>> \in recon
                 PROVE  Rs(<<k, c>>) < end
      BY DEF CTBs, TypeInv, TypeOK
    <3>1. <<k, c>> \in CTBs /\ end # 0
      BY <1>2, <1>3 DEF CTBs
    <3>2. CASE k = LastRow
      BY <3>1, <3>2 DEF EndIsLast
    <3>3. CASE k # LastRow
      <4>1. k < LastRow
        BY <1>1, <3>3
      <4>2. Rs(<<k, c>>) <= Rs(<<LastRow, e>>)
        BY <1>1, <4>1, RsOrder
      <4> QED
        BY <1>2, <1>3, <3>1, <4>2
    <3> QED
      BY <3>2, <3>3
  <2> QED
    BY <2>1, <2>2
<1> QED
  BY <1>3, <1>5, <1>6 DEF WellFormed

-----------------------------------------------------------------------------
\* One pass through the loop of await, for what Outcome looks at.
LEMMA AwaitOutcome ==
    ASSUME NEW p \in Procs, NEW k, NEW n, NEW label \in {"load", "ctu"},
           pc \in [Procs -> PCs], row \in [Procs -> Nat],
           pc[p] \in {"handoff", "await"}, Await(p, k, n, label)
    PROVE  /\ UNCHANGED <<err, bad, stream, col, end, recon, main>>
           /\ \A q \in Procs : q # p => pc'[q] = pc[q] /\ row'[q] = row[q]
           /\ \/ pc'[p] \in {"handoff", "load", "await", "ctu"} /\ row' = row
              \/ bad /\ pc'[p] = "row" /\ row'[p] = row[p] + Workers
  BY DEF Await, awaitFalse, Wait, Goto, NextRow, wave, main

LEMMA OutcomeInit == Init => OutcomeInv
<1> SUFFICES ASSUME Init PROVE OutcomeInv
  OBVIOUS
<1>1. /\ bad = FALSE /\ err = NoErr /\ end = 0 /\ result = "none"
      /\ nextCTU = FirstRow * Cols
      /\ \A p \in Procs : pc[p] = "row" /\ row[p] = p
  BY DEF Init, newWave
<1>2. FailuresReal /\ RowSoFar /\ EndIsLast /\ ReturnedWith
  <2>1. FailuresReal
    BY <1>1, Zenon DEF FailuresReal
  <2> QED
    BY <1>1, <2>1 DEF RowSoFar, SoFar, EndIsLast, ReturnedWith
<1>3. RowsDone
  <2> SUFFICES ASSUME NEW p \in Procs, NEW k \in RowIds, Owns(p, k), k < p
               PROVE  FALSE
    BY <1>1 DEF RowsDone
  <2>1. PICK i \in Nat : k = p + i * Workers
    BY DEF Owns
  <2>2. Workers \in Nat /\ p \in Nat
    BY WaveAssumption DEF Procs
  <2>3. \A x, y \in Nat : x * y \in Nat
    OBVIOUS
  <2>4. i * Workers \in Nat
    BY <2>2, <2>3
  <2> QED
    BY <2>1, <2>2, <2>4
<1> QED
  BY <1>2, <1>3 DEF OutcomeInv

\* A step that records no failure and comes to `fail` only for a reason.
LEMMA StepFailures ==
    ASSUME FailuresReal, NEW p \in Procs, UNCHANGED <<err, bad, stream>>,
           \A q \in Procs : q # p => pc'[q] = pc[q],
           pc'[p] = "fail" => ~WellFormed, pc'[p] # "failed"
    PROVE  FailuresReal'
<1>1. WellFormed' <=> WellFormed
  BY DEF WellFormed, EndsAt
<1> QED
  BY <1>1 DEF FailuresReal

LEMMA FailuresNext ==
    TypeInv /\ RowSoFar /\ FailuresReal /\ [Next]_vars => FailuresReal'
<1> SUFFICES ASSUME TypeInv, RowSoFar, FailuresReal, [Next]_vars PROVE FailuresReal'
  OBVIOUS
<1> USE DEF wave, local, main
<1>0. /\ pc \in [Procs -> PCs] /\ row \in [Procs -> Nat] /\ col \in [Procs -> ColIds]
      /\ stream \in StreamType /\ end \in Nat
  BY DEF TypeInv, TypeOK
<1>1. ASSUME NEW p \in Procs, Worker(p) PROVE FailuresReal'
  <2> DEFINE Quiet == /\ UNCHANGED <<err, bad, stream>>
                      /\ \A q \in Procs : q # p => pc'[q] = pc[q]
                      /\ pc'[p] # "failed"
  <2>0. ASSUME Quiet, pc'[p] = "fail" => ~WellFormed PROVE FailuresReal'
    BY <2>0, StepFailures
  <2>1. CASE Row(p) \/ LoadContexts(p) \/ NextBlock(p)
    <3>1. Quiet /\ pc'[p] # "fail"
      BY <1>0, <2>1 DEF Row, LoadContexts, NextBlock, Goto
    <3> QED
      BY <2>0, <3>1
  <2>2. CASE Publish(p) \/ Notify(p) \/ Close(p)
    <3>1. Quiet /\ pc'[p] # "fail"
      BY <1>0, <2>2 DEF Publish, saveCtx, advance, Notify, Close, Broadcast, Goto
    <3> QED
      BY <2>0, <3>1
  <2>3. ASSUME NEW k, NEW n, NEW label \in {"load", "ctu"}, Await(p, k, n, label),
               pc[p] \in {"handoff", "await"}
        PROVE  FailuresReal'
    <3>1. Quiet /\ pc'[p] # "fail"
      BY <1>0, <2>3, AwaitOutcome
    <3> QED
      BY <2>0, <3>1
  <2>4. CASE AwaitHandoff(p) \/ AwaitAbove(p)
    BY <2>3, <2>4 DEF AwaitHandoff, AwaitAbove
  <2>5. CASE StartSubstream(p)
    <3>1. Quiet /\ row[p] \in RowIds /\ (pc'[p] = "fail" => row[p] \in stream.badStart)
      BY <1>0, <2>5 DEF StartSubstream, Goto, TypeInv, OnARow, InRow
    <3> QED
      BY <1>0, <2>0, <3>1, Malformed
  <2>6. CASE CodingTreeUnit(p)
    <3>1. /\ Quiet /\ row[p] \in RowIds /\ col[p] \in ColIds
          /\ pc'[p] = "fail" => <<row[p], col[p]>> \in stream.badCTU
      BY <1>0, <2>6 DEF CodingTreeUnit, Goto, Here, TypeInv, OnARow, InRow
    <3>2. \A d \in ColIds : d < col[p] => <<row[p], d>> \notin stream.ends
      BY <2>6 DEF CodingTreeUnit, RowSoFar, SoFar
    <3> QED
      BY <1>0, <2>0, <3>1, <3>2, Malformed
  <2>7. CASE EndOfSlice(p)
    <3>1. /\ Quiet /\ row[p] \in RowIds /\ col[p] \in ColIds
          /\ pc'[p] = "fail" => row[p] # LastRow /\ <<row[p], col[p]>> \in stream.ends
      BY <1>0, <2>7 DEF EndOfSlice, Goto, Here, TypeInv, OnARow, InRow
    <3> QED
      BY <1>0, <2>0, <3>1, Malformed
  <2>8. CASE EndOfRow(p)
    <3>1. /\ Quiet /\ row[p] \in RowIds /\ col[p] = Cols - 1
          /\ <<row[p], col[p]>> \notin stream.ends
          /\ pc'[p] = "fail" => row[p] \in stream.noSubset
      BY <1>0, <2>8 DEF EndOfRow, Goto, Here, TypeInv, OnARow, InRow
    <3>2. \A d \in ColIds : <<row[p], d>> \notin stream.ends
      <4>1. \A d \in ColIds : d < col[p] => <<row[p], d>> \notin stream.ends
        BY <2>8 DEF EndOfRow, RowSoFar, SoFar
      <4> QED
        BY <3>1, <4>1, WaveAssumption DEF ColIds
    <3> QED
      BY <1>0, <2>0, <3>1, <3>2, Malformed
  <2>9. CASE Closed(p)
    <3>1. /\ Quiet /\ row[p] \in RowIds /\ col[p] \in ColIds /\ pc[p] = "closed"
          /\ pc'[p] = "fail" => row[p] = LastRow /\ end = 0
      BY <1>0, <2>9 DEF Closed, Broadcast, NextRow, Goto, TypeInv, OnARow, InRow
    <3>2. ASSUME row[p] = LastRow, end = 0
          PROVE  \A d \in ColIds : <<row[p], d>> \notin stream.ends
      <4>1. Rs(Here(p)) \in Nat
        BY <3>1, RsType DEF Here, CTBs
      <4>2. /\ \A d \in ColIds : d < col[p] => <<row[p], d>> \notin stream.ends
            /\ <<row[p], col[p]>> \notin stream.ends /\ col[p] = Cols - 1
        BY <3>1, <3>2, <4>1 DEF RowSoFar, SoFar, Here
      <4> QED
        BY <4>2, WaveAssumption DEF ColIds
    <3> QED
      BY <1>0, <2>0, <3>1, <3>2, Malformed
  <2>10. CASE Fail(p)
    <3>1. /\ pc[p] = "fail" /\ pc'[p] = "failed" /\ bad' = TRUE /\ err' # NoErr
          /\ UNCHANGED stream /\ \A q \in Procs : q # p => pc'[q] = pc[q]
      <4>1. row[p] # NoErr
        BY <1>0 DEF NoErr
      <4> QED
        BY <1>0, <2>10, <4>1 DEF Fail, fail, Goto
    <3>2. ~WellFormed'
      BY <3>1 DEF FailuresReal, WellFormed, EndsAt
    <3> QED
      BY <3>1, <3>2 DEF FailuresReal
  <2>11. CASE Failed(p)
    <3>1. Quiet /\ pc'[p] # "fail"
      BY <1>0, <2>11 DEF Failed, Broadcast, Goto
    <3> QED
      BY <2>0, <3>1
  <2> QED
    BY <1>1, <2>1, <2>2, <2>4, <2>5, <2>6, <2>7, <2>8, <2>9, <2>10, <2>11 DEF Worker
<1>2. CASE Join \/ UNCHANGED vars
  <2>1. UNCHANGED <<err, bad, stream, pc>>
    BY <1>2 DEF Join, vars
  <2>2. WellFormed' <=> WellFormed
    BY <2>1 DEF WellFormed, EndsAt
  <2> QED
    BY <2>1, <2>2 DEF FailuresReal
<1> QED
  BY <1>1, <1>2 DEF Next, Returned

\* What one goroutine does leaves the others' rows as they were.
LEMMA StepSoFar ==
    ASSUME OwnRows, RowSoFar, NEW p \in Procs, LastRow \in Nat,
           UNCHANGED stream, recon \subseteq recon',
           end' = end \/ row[p] = LastRow,
           \A q \in Procs : q # p => pc'[q] = pc[q] /\ row'[q] = row[q] /\ col'[q] = col[q],
           SoFar(p)'
    PROVE  RowSoFar'
<1> SUFFICES ASSUME NEW q \in Procs, q # p PROVE SoFar(q)'
  BY DEF RowSoFar
<1>1. row[q] # LastRow \/ end' = end
  BY OneOwner DEF OwnRows
<1> QED
  BY <1>1 DEF RowSoFar, SoFar, Sound, Here, Rs

LEMMA SoFarNext ==
    TypeInv /\ OwnRows /\ EndIsLast /\ RowSoFar /\ [Next]_vars => RowSoFar'
<1> SUFFICES ASSUME TypeInv, OwnRows, EndIsLast, RowSoFar, [Next]_vars PROVE RowSoFar'
  OBVIOUS
<1> USE DEF wave, local, main
<1>0. /\ pc \in [Procs -> PCs] /\ row \in [Procs -> Nat] /\ col \in [Procs -> ColIds]
      /\ stream \in StreamType /\ end \in Nat /\ LastRow \in Nat /\ Cols \in Nat
  BY WaveAssumption DEF TypeInv, TypeOK, LastRow
<1>1. ASSUME NEW p \in Procs, Worker(p) PROVE RowSoFar'
  <2> DEFINE Apart == /\ UNCHANGED stream
                      /\ recon \subseteq recon'
                      /\ \A q \in Procs : q # p => /\ pc'[q] = pc[q] /\ row'[q] = row[q]
                                                   /\ col'[q] = col[q]
  <2>0. ASSUME Apart, SoFar(p)', end' = end \/ row[p] = LastRow PROVE RowSoFar'
    BY <1>0, <2>0, StepSoFar
  <2>a. SoFar(p)
    BY DEF RowSoFar
  \* A step that leaves the goroutine on its block.
  <2>b. ASSUME Apart, UNCHANGED <<end, row, col, recon>>,
               \/ pc[p] \in {"handoff", "load", "await", "ctu"}
                  /\ pc'[p] \in {"handoff", "load", "await", "ctu"}
               \/ pc[p] \in {"publish", "notify"} /\ pc'[p] \in {"notify", "terminate"}
               \/ pc[p] = "close" /\ pc'[p] = "closed"
               \/ pc'[p] \in {"row", "start", "fail", "failed", "exit"}
        PROVE  RowSoFar'
    <3>1. SoFar(p)'
      BY <1>0, <2>a, <2>b DEF SoFar, Sound, Here, Rs
    <3> QED
      BY <2>0, <2>b, <3>1
  \* A step that sends it on to its next row, or out.
  <2>c. ASSUME Apart, pc'[p] = "row", UNCHANGED end PROVE RowSoFar'
    BY <2>0, <2>c DEF SoFar
  <2>1. CASE Row(p) \/ Fail(p) \/ Failed(p)
    BY <1>0, <2>1, <2>b DEF Row, Fail, fail, Failed, Broadcast, Goto
  <2>2. CASE LoadContexts(p) \/ Notify(p)
    BY <1>0, <2>2, <2>b DEF LoadContexts, Notify, Broadcast, Goto
  <2>3. CASE Publish(p) \/ Close(p)
    BY <1>0, <2>3, <2>b DEF Publish, saveCtx, advance, Close, Goto
  <2>4. ASSUME NEW k, NEW n, NEW label \in {"load", "ctu"}, Await(p, k, n, label),
               pc[p] \in {"handoff", "await"}
        PROVE  RowSoFar'
    <3>1. pc[p] \in {"handoff", "load", "await", "ctu"}
      BY <2>4
    <3>2. Apart /\ UNCHANGED <<end, col, recon>>
      BY <1>0, <2>4, AwaitOutcome
    <3>3. CASE pc'[p] \in {"handoff", "load", "await", "ctu"} /\ row' = row
      BY <2>b, <3>1, <3>2, <3>3
    <3>4. CASE pc'[p] = "row"
      BY <2>c, <3>2, <3>4
    <3> QED
      BY <1>0, <2>4, <3>3, <3>4, AwaitOutcome
  <2>5. CASE AwaitHandoff(p) \/ AwaitAbove(p)
    BY <2>4, <2>5 DEF AwaitHandoff, AwaitAbove
  <2>6. CASE StartSubstream(p)
    <3>1. /\ Apart /\ UNCHANGED <<end, row, recon>>
          /\ \/ pc'[p] = "fail"
             \/ /\ pc'[p] \in {"handoff", "ctu"} /\ col'[p] = 0
                /\ row[p] \notin stream.badStart
      BY <1>0, <2>6 DEF StartSubstream, Goto
    <3>2. SoFar(p)'
      BY <3>1 DEF SoFar, ColIds
    <3> QED
      BY <2>0, <3>1, <3>2
  <2>7. CASE CodingTreeUnit(p)
    <3>1. /\ Apart /\ UNCHANGED <<end, row, col>> /\ pc[p] = "ctu"
          /\ \/ pc'[p] = "fail"
             \/ /\ pc'[p] = "publish" /\ Here(p) \in recon'
                /\ Here(p) \notin stream.badCTU
      BY <1>0, <2>7 DEF CodingTreeUnit, Goto
    <3>2. SoFar(p)'
      BY <2>a, <3>1 DEF SoFar, Sound, Here
    <3> QED
      BY <2>0, <3>1, <3>2
  <2>8. CASE EndOfSlice(p)
    <3>1. /\ Apart /\ UNCHANGED <<row, col, recon>> /\ pc[p] = "terminate"
          /\ \/ pc'[p] = "fail" /\ UNCHANGED end
             \/ /\ pc'[p] = "close" /\ row[p] = LastRow /\ Here(p) \in stream.ends
                /\ end' = Rs(Here(p)) + 1
      BY <1>0, <2>8 DEF EndOfSlice, Goto
    <3>2. SoFar(p)'
      BY <2>a, <3>1 DEF SoFar, Sound, Here, Rs
    <3> QED
      BY <2>0, <3>1, <3>2
  <2>9. CASE EndOfRow(p)
    <3>1. /\ Apart /\ UNCHANGED <<row, col, recon, end>> /\ pc[p] = "terminate"
          /\ Here(p) \notin stream.ends /\ col[p] = Cols - 1
          /\ \/ pc'[p] = "fail"
             \/ pc'[p] = "close" /\ row[p] \notin stream.noSubset
      BY <1>0, <2>9 DEF EndOfRow, Goto
    <3>2. row[p] = LastRow => end = 0
      <4> SUFFICES ASSUME row[p] = LastRow, end # 0 PROVE FALSE
        OBVIOUS
      <4>1. Owns(p, LastRow)
        BY DEF OwnRows
      <4>2. row[p] > LastRow \/ pc[p] \in {"close", "closed"}
        BY <4>1 DEF EndIsLast
      <4> QED
        BY <1>0, <3>1, <4>2
    <3>3. SoFar(p)'
      BY <2>a, <3>1, <3>2 DEF SoFar, Sound, Here
    <3> QED
      BY <2>0, <3>1, <3>3
  <2>10. CASE NextBlock(p)
    <3>1. /\ Apart /\ UNCHANGED <<row, recon, end>> /\ pc[p] = "terminate"
          /\ Here(p) \notin stream.ends /\ col'[p] = col[p] + 1
          /\ pc'[p] \in {"ctu", "await"} /\ col[p] \in ColIds
      BY <1>0, <2>10 DEF NextBlock, Goto
    <3>2. \A c \in ColIds : c < col'[p] => c < col[p] \/ c = col[p]
      BY <3>1 DEF ColIds
    <3>3. SoFar(p)'
      BY <2>a, <3>1, <3>2 DEF SoFar, Sound, Here
    <3> QED
      BY <2>0, <3>1, <3>3
  <2>11. CASE Closed(p)
    <3>1. /\ Apart /\ UNCHANGED <<col, recon, end>>
          /\ \/ pc'[p] = "fail" /\ row' = row
             \/ pc'[p] = "row"
      BY <1>0, <2>11 DEF Closed, Broadcast, NextRow, Goto
    <3> QED
      BY <2>b, <2>c, <3>1
  <2> QED
    BY <1>1, <2>1, <2>2, <2>3, <2>5, <2>6, <2>7, <2>8, <2>9, <2>10, <2>11 DEF Worker
<1>2. CASE Join \/ UNCHANGED vars
  BY <1>2 DEF Join, vars, RowSoFar, SoFar, Sound, Here, Rs
<1> QED
  BY <1>1, <1>2 DEF Next, Returned

\* A step that leaves the end open, or has gone past it.
LEMMA StepEnd ==
    ASSUME EndIsLast, NEW p \in Procs, UNCHANGED <<end, recon>>, LastRow \in Nat,
           \A q \in Procs : row'[q] \in Nat /\ row[q] \in Nat /\ row'[q] >= row[q],
           \A q \in Procs : q # p => pc'[q] = pc[q] /\ row'[q] = row[q],
           pc[p] \in {"close", "closed"} =>
               end = 0 \/ pc'[p] \in {"close", "closed"} \/ row'[p] > row[p]
    PROVE  EndIsLast'
<1> SUFFICES ASSUME end # 0, NEW q \in Procs, Owns(q, LastRow)
             PROVE  \/ row'[q] > LastRow
                    \/ row'[q] = LastRow /\ pc'[q] \in {"close", "closed"}
  BY DEF EndIsLast, Owns, Rs, LastRow
<1>1. \/ row[q] > LastRow
      \/ row[q] = LastRow /\ pc[q] \in {"close", "closed"}
  BY DEF EndIsLast
<1>2. row'[q] >= row[q] /\ row'[q] \in Nat /\ row[q] \in Nat
  OBVIOUS
<1>3. CASE row[q] > LastRow
  BY <1>2, <1>3
<1>4. CASE row[q] = LastRow /\ pc[q] \in {"close", "closed"} /\ q # p
  BY <1>4
<1>5. CASE row[q] = LastRow /\ pc[q] \in {"close", "closed"} /\ q = p
  BY <1>2, <1>5
<1> QED
  BY <1>1, <1>3, <1>4, <1>5

LEMMA EndNext ==
    TypeInv /\ OnceInv /\ EndIsLast /\ [Next]_vars => EndIsLast'
<1> SUFFICES ASSUME TypeInv, OnceInv, EndIsLast, [Next]_vars PROVE EndIsLast'
  OBVIOUS
<1> USE DEF wave, local, main
<1>0. /\ pc \in [Procs -> PCs] /\ row \in [Procs -> Nat] /\ col \in [Procs -> ColIds]
      /\ LastRow \in Nat /\ LastRow \in RowIds /\ Workers \in Nat /\ Workers >= 1
  BY WaveAssumption DEF TypeInv, TypeOK, LastRow, RowIds
<1>1. ASSUME NEW p \in Procs, Worker(p) PROVE EndIsLast'
  <2> DEFINE Apart == /\ UNCHANGED <<end, recon>>
                      /\ \A q \in Procs : q # p => pc'[q] = pc[q] /\ row'[q] = row[q]
  <2>a. ASSUME Apart, row' = row,
               pc[p] \notin {"close", "closed"} \/ pc'[p] \in {"close", "closed"} \/ end = 0
        PROVE  EndIsLast'
    BY <1>0, <2>a, StepEnd
  <2>b. ASSUME Apart, row' = [row EXCEPT ![p] = row[p] + Workers] PROVE EndIsLast'
    <3>1. \A q \in Procs : row'[q] \in Nat /\ row[q] \in Nat /\ row'[q] >= row[q]
      BY <1>0, <2>b
    <3>2. row'[p] > row[p]
      BY <1>0, <2>b
    <3> QED
      BY <1>0, <2>b, <3>1, <3>2, StepEnd
  <2>1. CASE Row(p) \/ StartSubstream(p) \/ LoadContexts(p)
    BY <1>0, <2>1, <2>a DEF Row, StartSubstream, LoadContexts, Goto
  <2>2. CASE Publish(p) \/ Notify(p) \/ EndOfRow(p) \/ NextBlock(p)
    BY <1>0, <2>2, <2>a DEF Publish, saveCtx, advance, Notify, Broadcast, EndOfRow, NextBlock,
                            Goto
  <2>3. CASE Close(p) \/ Fail(p) \/ Failed(p)
    BY <1>0, <2>3, <2>a DEF Close, advance, Fail, fail, Failed, Broadcast, Goto
  <2>4. CASE Closed(p)
    <3>1. Apart
      BY <1>0, <2>4 DEF Closed, Broadcast, NextRow, Goto
    <3>2. CASE row' = row /\ end = 0
      BY <2>a, <3>1, <3>2
    <3>3. CASE row' = [row EXCEPT ![p] = row[p] + Workers]
      BY <2>b, <3>1, <3>3
    <3> QED
      BY <2>4, <3>2, <3>3 DEF Closed, NextRow
  <2>5. ASSUME NEW k, NEW n, NEW label \in {"load", "ctu"}, Await(p, k, n, label),
               pc[p] \in {"handoff", "await"}
        PROVE  EndIsLast'
    <3>1. Apart
      BY <1>0, <2>5, AwaitOutcome
    <3>2. row' = row \/ row' = [row EXCEPT ![p] = row[p] + Workers]
      BY <2>5 DEF Await, NextRow
    <3> QED
      BY <2>5, <2>a, <2>b, <3>1, <3>2
  <2>6. CASE AwaitHandoff(p) \/ AwaitAbove(p)
    BY <2>5, <2>6 DEF AwaitHandoff, AwaitAbove
  <2>7. CASE CodingTreeUnit(p)
    <3>1. /\ pc[p] = "ctu" /\ UNCHANGED <<end, row>>
          /\ recon' = recon \/ recon' = recon \cup {Here(p)}
          /\ \A q \in Procs : q # p => pc'[q] = pc[q]
      BY <1>0, <2>7 DEF CodingTreeUnit, Goto
    <3>2. CASE end = 0
      BY <3>1, <3>2 DEF EndIsLast
    <3>3. CASE end # 0
      <4>1. \A q \in Procs : Owns(q, LastRow) =>
                \/ row[q] > LastRow
                \/ row[q] = LastRow /\ pc[q] \in {"close", "closed"}
        BY <3>3 DEF EndIsLast
      <4>2. row[p] # LastRow
        BY <1>0, <3>1, <4>1 DEF OnceInv, OwnRows
      <4>3. \A c \in ColIds : <<LastRow, c>> \in recon' => <<LastRow, c>> \in recon
        BY <3>1, <4>2 DEF Here
      <4>4. \A q \in Procs : Owns(q, LastRow) =>
                \/ row'[q] > LastRow
                \/ row'[q] = LastRow /\ pc'[q] \in {"close", "closed"}
        BY <3>1, <4>1, <4>2
      <4> QED
        BY <3>1, <3>3, <4>3, <4>4 DEF EndIsLast, Owns, Rs, LastRow
    <3> QED
      BY <3>2, <3>3
  <2>8. CASE EndOfSlice(p)
    <3>1. CASE pc'[p] = "fail"
      BY <1>0, <2>8, <2>a, <3>1 DEF EndOfSlice, Goto
    <3>2. CASE pc'[p] # "fail"
      <4>1. /\ pc[p] = "terminate" /\ pc'[p] = "close" /\ row[p] = LastRow
            /\ end' = Rs(Here(p)) + 1 /\ UNCHANGED <<row, col, recon>>
            /\ \A q \in Procs : q # p => pc'[q] = pc[q]
        BY <1>0, <2>8, <3>2 DEF EndOfSlice, Goto
      <4>2. \A q \in Procs : Owns(q, LastRow) => q = p
        BY <1>0, <4>1, OneOwner DEF OnceInv, OwnRows
      <4>3. ASSUME NEW c \in ColIds, <<LastRow, c>> \in recon
            PROVE  Rs(<<LastRow, c>>) < end'
        <5>1. ~(c > col[p])
          BY <1>0, <4>1, <4>3 DEF OnceInv, Ahead
        <5>2. c <= col[p] /\ col[p] \in ColIds
          BY <1>0, <5>1 DEF ColIds
        <5>3. Rs(<<LastRow, c>>) <= Rs(<<LastRow, col[p]>>)
          BY <1>0, <5>2, RsOrder
        <5>4. Rs(<<LastRow, c>>) \in Nat /\ Rs(<<LastRow, col[p]>>) \in Nat
          BY <1>0, <5>2, RsType DEF CTBs
        <5> QED
          BY <4>1, <5>3, <5>4 DEF Here
      <4>4. \A c \in ColIds : <<LastRow, c>> \in recon' => Rs(<<LastRow, c>>)' < end'
        BY <4>1, <4>3 DEF Rs
      <4>5. \A q \in Procs : Owns(q, LastRow)' => row'[q] = LastRow /\ pc'[q] = "close"
        BY <4>1, <4>2 DEF Owns, LastRow
      <4> QED
        BY <4>4, <4>5 DEF EndIsLast, LastRow
    <3> QED
      BY <3>1, <3>2
  <2> QED
    BY <1>1, <2>1, <2>2, <2>3, <2>4, <2>6, <2>7, <2>8 DEF Worker
<1>2. CASE Join \/ UNCHANGED vars
  BY <1>2 DEF Join, vars, EndIsLast, Owns, Rs, LastRow
<1> QED
  BY <1>1, <1>2 DEF Next, Returned

\* A row that is done stays done, whoever moves.
LEMMA DoneStays ==
    ASSUME NEW k, RowDone(k), UNCHANGED stream, recon \subseteq recon',
           end' = end \/ k # LastRow
    PROVE  RowDone(k)'
  BY DEF RowDone, Sound, Rs, LastRow

LEMMA RowsNext ==
    TypeInv /\ OwnRows /\ FailuresReal /\ RowSoFar /\ EndIsLast /\ RowsDone /\ [Next]_vars
        => RowsDone'
<1> SUFFICES ASSUME TypeInv, OwnRows, FailuresReal, RowSoFar, EndIsLast, RowsDone,
                    [Next]_vars
             PROVE  RowsDone'
  OBVIOUS
<1> USE DEF wave, local, main
<1>0. /\ pc \in [Procs -> PCs] /\ row \in [Procs -> Nat] /\ col \in [Procs -> ColIds]
      /\ LastRow \in Nat /\ Rows \in Nat /\ Workers \in Nat /\ Cols \in Nat
      /\ \A k \in RowIds : k \in Nat
  BY WaveAssumption DEF TypeInv, TypeOK, LastRow, RowIds
\* A step that finishes no row and ends nothing.
<1>a. ASSUME NEW p \in Procs, UNCHANGED <<row, stream, end>>, recon \subseteq recon',
             bad' = bad \/ bad',
             \A q \in Procs : q # p => pc'[q] = pc[q],
             pc'[p] = "exit" => bad' \/ row[p] >= Rows \/ pc[p] = "exit"
      PROVE  RowsDone'
  <2> SUFFICES ASSUME ~bad', NEW q \in Procs
               PROVE  /\ \A k \in RowIds : Owns(q, k) /\ k < row[q] => RowDone(k)'
                      /\ pc'[q] = "exit" => row[q] >= Rows
    BY <1>a DEF RowsDone, Owns
  <2>1. ~bad
    BY <1>a
  <2>2. \A k \in RowIds : Owns(q, k) /\ k < row[q] => RowDone(k)'
    BY <1>a, <2>1, DoneStays DEF RowsDone
  <2>3. pc'[q] = "exit" => row[q] >= Rows
    BY <1>a, <2>1 DEF RowsDone
  <2> QED
    BY <2>2, <2>3
<1>1. ASSUME NEW p \in Procs, Worker(p) PROVE RowsDone'
  <2>1. CASE Row(p)
    <3>1. /\ UNCHANGED <<row, stream, end, recon, bad>>
          /\ \A q \in Procs : q # p => pc'[q] = pc[q]
          /\ pc'[p] = "exit" => bad' \/ row[p] >= Rows
      BY <1>0, <2>1 DEF Row, Goto
    <3> QED
      BY <1>a, <3>1
  <2>2. CASE StartSubstream(p) \/ LoadContexts(p) \/ CodingTreeUnit(p) \/ Publish(p)
    BY <1>0, <2>2, <1>a DEF StartSubstream, LoadContexts, CodingTreeUnit, Publish, saveCtx,
                            advance, Goto
  <2>3. CASE Notify(p) \/ EndOfRow(p) \/ NextBlock(p) \/ Close(p)
    BY <1>0, <2>3, <1>a DEF Notify, Broadcast, EndOfRow, NextBlock, Close, advance, Goto
  <2>4. ASSUME NEW k, NEW n, NEW label \in {"load", "ctu"}, Await(p, k, n, label),
               pc[p] \in {"handoff", "await"}
        PROVE  RowsDone'
    <3>1. /\ UNCHANGED <<bad, stream, end, recon>>
          /\ \A q \in Procs : q # p => pc'[q] = pc[q]
      BY <1>0, <2>4, AwaitOutcome
    <3>2. CASE pc'[p] \in {"handoff", "load", "await", "ctu"} /\ row' = row
      BY <1>a, <3>1, <3>2
    <3>3. CASE bad
      BY <3>1, <3>3 DEF RowsDone
    <3> QED
      BY <1>0, <2>4, <3>2, <3>3, AwaitOutcome
  <2>5. CASE AwaitHandoff(p) \/ AwaitAbove(p)
    BY <2>4, <2>5 DEF AwaitHandoff, AwaitAbove
  <2>6. CASE Fail(p)
    BY <1>0, <2>6 DEF Fail, fail, RowsDone
  <2>7. CASE Failed(p)
    <3>1. bad /\ UNCHANGED bad
      BY <2>7 DEF Failed, Broadcast, FailuresReal
    <3> QED
      BY <3>1 DEF RowsDone
  <2>8. CASE EndOfSlice(p)
    <3>1. /\ UNCHANGED <<row, stream, recon, bad>> /\ pc'[p] # "exit"
          /\ pc[p] = "terminate"
          /\ \A q \in Procs : q # p => pc'[q] = pc[q]
          /\ end' = end \/ row[p] = LastRow
      BY <1>0, <2>8 DEF EndOfSlice, Goto
    <3>2. CASE end' = end
      BY <1>a, <3>1, <3>2
    <3>3. CASE row[p] = LastRow
      <4> SUFFICES ASSUME ~bad', NEW q \in Procs
                   PROVE  /\ \A k \in RowIds : Owns(q, k) /\ k < row[q] => RowDone(k)'
                          /\ pc'[q] = "exit" => row[q] >= Rows
        BY <3>1 DEF RowsDone, Owns
      <4>1. ASSUME NEW k \in RowIds, Owns(q, k), k < row[q] PROVE RowDone(k)'
        <5>1. k # LastRow
          <6> SUFFICES ASSUME k = LastRow PROVE FALSE
            OBVIOUS
          <6>1. Owns(p, k)
            BY <3>3 DEF OwnRows
          <6>2. p = q
            BY <1>0, <4>1, <6>1, OneOwner
          <6> QED
            BY <1>0, <3>3, <4>1, <6>2
        <5>2. RowDone(k)
          BY <3>1, <4>1 DEF RowsDone
        <5> QED
          BY <3>1, <5>1, <5>2, DoneStays
      <4>2. pc'[q] = "exit" => row[q] >= Rows
        BY <3>1 DEF RowsDone
      <4> QED
        BY <4>1, <4>2
    <3> QED
      BY <3>1, <3>2, <3>3
  <2>9. CASE Closed(p)
    <3>1. /\ UNCHANGED <<stream, recon, bad, end, col>> /\ pc'[p] # "exit"
          /\ pc[p] = "closed"
          /\ \A q \in Procs : q # p => pc'[q] = pc[q]
      BY <1>0, <2>9 DEF Closed, Broadcast, NextRow, Goto
    <3>2. CASE row' = row
      BY <1>a, <3>1, <3>2
    <3>3. CASE row' = [row EXCEPT ![p] = row[p] + Workers] /\ ~(row[p] = LastRow /\ end = 0)
      <4>1. row[p] \in RowIds /\ col[p] \in ColIds /\ SoFar(p)
        BY <1>0, <3>1 DEF TypeInv, OnARow, InRow, RowSoFar
      <4>2. RowDone(row[p])
        <5>1. /\ row[p] \notin stream.badStart
              /\ \A c \in ColIds : c < col[p] =>
                    Sound(<<row[p], c>>) /\ <<row[p], c>> \notin stream.ends
              /\ Sound(<<row[p], col[p]>>)
          BY <3>1, <4>1 DEF SoFar, Here
        <5>2. CASE row[p] = LastRow /\ Here(p) \in stream.ends /\ end = Rs(Here(p)) + 1
          <6>1. \A d \in ColIds : d <= col[p] => d < col[p] \/ d = col[p]
            BY <4>1 DEF ColIds
          <6>2. \A d \in ColIds : d <= col[p] => Sound(<<row[p], d>>)
            BY <5>1, <6>1
          <6> QED
            BY <4>1, <5>1, <5>2, <6>2 DEF RowDone, Here
        <5>3. CASE /\ <<row[p], col[p]>> \notin stream.ends /\ col[p] = Cols - 1
                   /\ row[p] \notin stream.noSubset
                   /\ row[p] = LastRow => end = 0
          <6>1. \A d \in ColIds : d < col[p] \/ d = col[p]
            BY <1>0, <5>3 DEF ColIds
          <6>2. \A d \in ColIds : Sound(<<row[p], d>>) /\ <<row[p], d>> \notin stream.ends
            BY <5>1, <5>3, <6>1
          <6> QED
            BY <3>3, <5>1, <5>3, <6>2 DEF RowDone
        <5> QED
          BY <3>1, <4>1, <5>2, <5>3 DEF SoFar, Here
      <4> SUFFICES ASSUME ~bad', NEW q \in Procs
                   PROVE  /\ \A k \in RowIds : Owns(q, k) /\ k < row'[q] => RowDone(k)'
                          /\ pc'[q] = "exit" => row'[q] >= Rows
        BY <3>1 DEF RowsDone, Owns
      <4>3. ASSUME NEW k \in RowIds, Owns(q, k), k < row'[q] PROVE RowDone(k)'
        <5>1. k < row[q] \/ k = row[p]
          <6>1. CASE q # p
            BY <1>0, <3>3, <4>3, <6>1
          <6>2. CASE q = p
            <7>1. k < row[p] + Workers
              BY <1>0, <3>3, <4>3, <6>2
            <7>2. k <= row[p]
              BY <1>0, <4>3, <6>2, <7>1, NoRowBetween DEF OwnRows
            <7> QED
              BY <1>0, <6>2, <7>2
          <6> QED
            BY <6>1, <6>2
        <5>2. RowDone(k)
          BY <3>1, <4>2, <4>3, <5>1 DEF RowsDone
        <5> QED
          BY <3>1, <5>2, DoneStays
      <4>4. pc'[q] = "exit" => row'[q] >= Rows
        BY <1>0, <3>1, <3>3 DEF RowsDone
      <4> QED
        BY <4>3, <4>4
    <3> QED
      BY <2>9, <3>2, <3>3 DEF Closed, NextRow
  <2> QED
    BY <1>1, <2>1, <2>2, <2>3, <2>5, <2>6, <2>7, <2>8, <2>9 DEF Worker
<1>2. CASE Join \/ UNCHANGED vars
  <2>1. UNCHANGED <<bad, row, pc, stream, end, recon>>
    BY <1>2 DEF Join, vars
  <2>2. \A k : RowDone(k) => RowDone(k)'
    BY <2>1, DoneStays
  <2> QED
    BY <2>1, <2>2 DEF RowsDone, Owns
<1> QED
  BY <1>1, <1>2 DEF Next, Returned

LEMMA ReturnNext == TypeInv /\ ReturnedWith /\ [Next]_vars => ReturnedWith'
<1> SUFFICES ASSUME TypeInv, ReturnedWith, [Next]_vars PROVE ReturnedWith'
  OBVIOUS
<1> USE DEF wave, local, main
<1>1. ASSUME NEW p \in Procs, Worker(p) PROVE ReturnedWith'
  <2>1. pc[p] # "exit" /\ UNCHANGED <<result, nextCTU>>
    BY <1>1 DEF Worker, Row, StartSubstream, AwaitHandoff, AwaitAbove, Await, LoadContexts,
                CodingTreeUnit, Publish, Notify, EndOfSlice, EndOfRow, NextBlock, Close,
                Closed, Fail, Failed
  <2>2. result = "none"
    BY <2>1 DEF ReturnedWith
  <2> QED
    BY <2>1, <2>2 DEF ReturnedWith
<1>2. CASE Join
  BY <1>2 DEF Join, ReturnedWith
<1>3. CASE UNCHANGED vars
  BY <1>3 DEF vars, ReturnedWith
<1> QED
  BY <1>1, <1>2, <1>3 DEF Next, Returned

\* Outcome for every segment: however the goroutines interleave, and whichever
\* failure is seen first, decodeWavefront accepts exactly the segments that end
\* where they should, has then decoded all of it and nothing more, and hands on
\* the address behind its last block.
THEOREM OutcomeIsTheSegments == Spec => []Outcome
<1>1. TypeInv /\ OutcomeInv => Outcome
  <2> SUFFICES ASSUME TypeInv, OutcomeInv, result # "none" PROVE
                 /\ result = "ok" <=> WellFormed
                 /\ result = "ok" => recon = {b \in CTBs : Rs(b) < nextCTU}
                 /\ result = "error" => nextCTU = FirstRow * Cols /\ err \in RowIds
    BY DEF Outcome, WellFormed
  <2> USE DEF OutcomeInv
  <2>1. CASE result = "ok"
    <3>1. ~bad /\ nextCTU = end /\ \A p \in Procs : row[p] >= Rows
      BY <2>1 DEF ReturnedWith, FailuresReal, RowsDone
    <3>2. ASSUME NEW k \in RowIds PROVE RowDone(k)
      <4>1. k \in Nat /\ Rows \in Nat /\ k < Rows
        BY WaveAssumption DEF RowIds
      <4>2. PICK p \in Procs : Owns(p, k)
        BY <4>1, EveryRowIsOwned
      <4>3. row[p] \in Nat /\ row[p] >= Rows
        BY <3>1 DEF TypeInv, TypeOK
      <4>4. k < row[p]
        BY <4>1, <4>3
      <4> QED
        BY <3>1, <4>2, <4>4 DEF RowsDone
    <3>3. WellFormed /\ recon = {b \in CTBs : Rs(b) < end}
      BY <3>2, AllRowsDone
    <3> QED
      BY <2>1, <3>1, <3>3
  <2>2. CASE result = "error"
    <3>1. err # NoErr /\ nextCTU = FirstRow * Cols
      BY <2>2 DEF ReturnedWith
    <3>2. ~WellFormed
      BY <3>1 DEF FailuresReal
    <3>3. err \in RowIds
      BY <3>1 DEF TypeInv, TypeOK, WaveTypeOK
    <3> QED
      BY <2>2, <3>1, <3>2, <3>3
  <2> QED
    BY <2>1, <2>2 DEF TypeInv, TypeOK
<1>2. TypeInv /\ OnceInv /\ OutcomeInv /\ [Next]_vars => OutcomeInv'
  BY FailuresNext, SoFarNext, EndNext, RowsNext, ReturnNext DEF OutcomeInv, OnceInv
<1> QED
  BY <1>1, <1>2, TypeInit, TypeNext, OnceInit, OnceNext, OutcomeInit, PTL DEF Spec

=============================================================================
