-------------------------- MODULE GridDecode_proof --------------------------
(***************************************************************************)
(* Theorems about GridDecode, for every number of tiles and helpers and    *)
(* every grid.                                                             *)
(***************************************************************************)
EXTENDS GridDecode, FiniteSetTheorems, TLAPS

Holding == {"await", "recheck", "blit"}         \* a picture is in its hands
Busy    == Holding \cup {"check", "decode"}     \* a claimed tile is
Late    == {p \in Procs : tile[p] >= NTiles}    \* found no tile left

\* TypeOK with the counter and the claims as natural numbers.
Typed ==
    /\ grid \in GridType
    /\ next \in Nat \ {0}
    /\ fail \in Errors \cup {"none"}
    /\ ready \in BOOLEAN
    /\ canvas \in BOOLEAN
    /\ pc \in [Procs -> PCs]
    /\ tile \in [Procs -> Nat]
    /\ cause \in [Procs -> Errors \cup {"none"}]
    /\ cfg \in [Procs -> Configs \cup {NoConfig}]
    /\ params \in [Procs -> Configs \cup {NoConfig}]
    /\ used \in [Tiles -> Configs \cup {NoConfig}]
    /\ held \in SUBSET (Tiles \X (Nat \ {0}))
    /\ blits \in [Tiles -> Nat]
    /\ result \in Errors \cup {"none", "ok"}

\* The atomic counter hands out each tile once.
Claims ==
    /\ \A p \in Procs : tile[p] < next
    /\ \A p, q \in Procs : p # q /\ tile[p] # 0 => tile[p] # tile[q]
    /\ \A p \in Procs : pc[p] \in Busy => tile[p] \in 1 .. NTiles - 1

\* Only Main runs the first tile, the close and the loop; only helpers wait;
\* whoever is about to set an error has one.
Roles ==
    /\ pc[Main] \notin {"check", "await", "recheck"}
    /\ \A p \in Procs : p # Main => pc[p] \notin {"first", "close", "loop"}
    /\ \A p \in Procs : pc[p] = "setErr" => cause[p] \in Errors

TypeInv == Typed /\ Claims /\ Roles

\* Whoever is past `ready` has a canvas, or an error to find.
CanvasInv ==
    /\ pc[Main] = "first" => ~ready /\ ~canvas /\ blits[0] = 0
    /\ pc[Main] = "close" => ~ready
    /\ pc[Main] \in {"setErr", "close"} /\ ~ready /\ ~canvas => blits[0] = 0
    /\ pc[Main] \in {"loop", "claim", "decode", "blit", "exit"} => ready
    /\ pc[Main] \in {"claim", "decode", "blit"} => canvas
    /\ ready \/ pc[Main] = "close" => canvas \/ fail # "none"
    /\ \A p \in Procs : pc[p] = "recheck" => ready
    /\ \A p \in Procs : pc[p] = "blit" => canvas

\* A tile is copied only by the one that claimed it, who then lets go of it.
CopyInv ==
    /\ \A i \in Tiles : i >= next => blits[i] = 0
    /\ \A p \in Procs : pc[p] \in Busy => blits[tile[p]] = 0

\* A goroutine that met an error decodes no more: it may hold refused sets.
GaveUp(p) == \/ pc[p] \in {"setErr", "exit"}
             \/ pc[p] \in {"close", "loop"} /\ fail # "none"

\* A decoder holds the sets it believes it does, unless its goroutine gave up.
ParamsInv == OwnParameters /\ \A p \in Procs : cfg[p] = params[p] \/ GaveUp(p)

\* What is in the goroutines' hands, and what decodeItem has dropped.
Hands   == {First(tile[p]) : p \in {q \in Procs : pc[q] \in Holding}}
Dropping == UNION {Dropped(i) : i \in {j \in Tiles : used[j] # NoConfig}}

HeldInv == /\ \A p \in Procs : pc[p] \in Holding => Verdict(tile[p]) = "ok"
           /\ held = Hands \cup Dropping

\* An error that is returned or about to be is one of the grid's own.
ReasonInv ==
    /\ fail # "none" => fail \in Reasons
    /\ \A p \in Procs : pc[p] = "setErr" => cause[p] \in Reasons

Copied(i) ==
    /\ blits[i] = 1
    /\ Verdict(i) = "ok"
    /\ grid.tile[i].shape = grid.tile[0].shape

\* As long as nothing has failed, a claimed tile is in the canvas or somebody
\* is at it, and who has stopped found all of them claimed.
ProgressInv ==
    /\ canvas => grid.covers /\ Copied(0)
    /\ fail = "none" =>
        /\ \A p \in Procs : pc[p] = "exit" => next >= NTiles
        /\ \A i \in 1 .. NTiles - 1 :
              i < next =>
                  \/ Copied(i)
                  \/ \E p \in Procs : tile[p] = i /\ pc[p] \in Busy \cup {"setErr"}

ReturnInv ==
    result # "none" =>
        /\ \A p \in Procs : pc[p] = "exit"
        /\ result = IF fail # "none" THEN fail ELSE "ok"

\* The counter goes past the end once for each goroutine that stops there.
CountInv ==
    /\ \A p \in Late : pc[p] = "exit"
    /\ next >= NTiles => next = NTiles + Cardinality(Late)

-----------------------------------------------------------------------------
LEMMA MainIsOne == Main \in Procs /\ 0 \in Tiles
  BY GridAssumption DEF Main, Procs, Tiles

\* What the tiles of a grid are, and what decodeItem may return for them.
LEMMA TileFacts ==
    ASSUME Typed, NEW i \in Tiles
    PROVE  /\ Verdict(i) \in Verdicts
           /\ grid.tile[i].cfg \in Configs
           /\ grid.tile[i].pics \in Nat
           /\ Collected(i) \in SUBSET (Tiles \X (Nat \ {0}))
<1>1. grid.tile[i] \in TileType /\ grid.tile[i].cfg \in Configs /\ grid.tile[i].pics \in Nat
  BY DEF Typed, GridType, TileType
<1>2. grid.sets[grid.tile[i].cfg] \in Verdicts
  BY <1>1 DEF Typed, GridType
<1>3. Verdict(i) \in Verdicts
  BY <1>1, <1>2 DEF Verdict, TileType, Verdicts, Errors
<1>4. Collected(i) \in SUBSET (Tiles \X (Nat \ {0}))
  BY <1>1 DEF Collected
<1> QED
  BY <1>1, <1>3, <1>4

\* decodeItem leaves the remembered configurations what they may be.
LEMMA ItemTyped ==
    ASSUME Typed, NEW p \in Procs, NEW i \in Tiles, decodeItem(p, i)
    PROVE  /\ cfg' \in [Procs -> Configs \cup {NoConfig}]
           /\ params' \in [Procs -> Configs \cup {NoConfig}]
           /\ used' \in [Tiles -> Configs \cup {NoConfig}]
<1>1. grid.tile[i].cfg \in Configs
  BY TileFacts
<1>2. /\ cfg' \in [Procs -> Configs \cup {NoConfig}]
      /\ params' \in [Procs -> Configs \cup {NoConfig}]
  BY <1>1 DEF decodeItem, FeedConfig, Typed
<1>3. used' \in [Tiles -> Configs \cup {NoConfig}]
  BY <1>2 DEF decodeItem, Typed
<1> QED
  BY <1>2, <1>3

LEMMA TypeInit == Init => TypeInv
<1>1. Init => Typed
  <2>1. Init => grid \in GridType
    BY GridAssumption DEF Init
  <2>2. Init => pc \in [Procs -> PCs]
    BY DEF Init, PCs
  <2>3. Init => next \in Nat \ {0}
    BY DEF Init
  <2>4. Init => ready \in BOOLEAN /\ canvas \in BOOLEAN
    BY Zenon DEF Init
  <2>5. Init => tile \in [Procs -> Nat] /\ blits \in [Tiles -> Nat]
    BY DEF Init
  <2>6. Init => /\ cause \in [Procs -> Errors \cup {"none"}]
                /\ cfg \in [Procs -> Configs \cup {NoConfig}]
                /\ params \in [Procs -> Configs \cup {NoConfig}]
                /\ used \in [Tiles -> Configs \cup {NoConfig}]
    BY DEF Init
  <2>7. Init => /\ fail \in Errors \cup {"none"}
                /\ held \in SUBSET (Tiles \X (Nat \ {0}))
                /\ result \in Errors \cup {"none", "ok"}
    BY DEF Init
  <2> QED
    BY <2>1, <2>2, <2>3, <2>4, <2>5, <2>6, <2>7 DEF Typed
<1>2. Init => Claims
  BY GridAssumption DEF Init, Claims, Busy, Holding
<1>3. Init => Roles
  BY MainIsOne DEF Init, Roles
<1> QED
  BY <1>1, <1>2, <1>3 DEF TypeInv

LEMMA TypeNext == TypeInv /\ [Next]_vars => TypeInv'
<1> SUFFICES ASSUME TypeInv, [Next]_vars PROVE TypeInv'
  OBVIOUS
<1> USE MainIsOne DEF shared, local, TypeInv
<1>1. ASSUME NEW p \in Procs, NEW i \in Tiles, Undecodable(p, i),
             UNCHANGED <<grid, shared, tile, blits, result>>
      PROVE  Typed'
  <2>1. /\ Verdict(i) \in Errors
        /\ held' \in SUBSET (Tiles \X (Nat \ {0}))
    BY <1>1, TileFacts DEF Undecodable, Typed, Verdicts
  <2>2. /\ cfg' \in [Procs -> Configs \cup {NoConfig}]
        /\ params' \in [Procs -> Configs \cup {NoConfig}]
        /\ used' \in [Tiles -> Configs \cup {NoConfig}]
    BY <1>1, ItemTyped DEF Undecodable
  <2> QED
    BY <1>1, <2>1, <2>2 DEF Undecodable, Raise, Goto, Typed, PCs
<1>2. CASE FirstFails
  <2>1. Typed'
    BY <1>1, <1>2 DEF FirstFails
  <2>2. Verdict(0) \in Errors
    BY <1>2, TileFacts DEF FirstFails, Undecodable, Verdicts
  <2>3. Claims' /\ Roles'
    BY <1>2, <2>2 DEF FirstFails, Undecodable, Raise, Goto, Typed, Claims, Roles, Busy, Holding
  <2> QED
    BY <2>1, <2>3
<1>3. CASE FirstTooSmall
  <2>1. held' \in SUBSET (Tiles \X (Nat \ {0}))
    BY <1>3, TileFacts DEF FirstTooSmall, Typed
  <2>2. Typed'
    BY <1>3, <2>1, ItemTyped DEF FirstTooSmall, Decoded, Raise, Goto, Typed, PCs, Errors
  <2>3. Claims' /\ Roles'
    BY <1>3 DEF FirstTooSmall, Errors, Raise, Goto, Typed, Claims, Roles, Busy, Holding
  <2> QED
    BY <2>2, <2>3
<1>4. CASE FirstBlit
  <2>1. held' \in SUBSET (Tiles \X (Nat \ {0}))
    BY <1>4, TileFacts DEF FirstBlit, Typed
  <2>2. Typed'
    BY <1>4, <2>1, ItemTyped DEF FirstBlit, Decoded, Blit, Goto, Typed, PCs
  <2>3. Claims' /\ Roles'
    BY <1>4 DEF FirstBlit, Goto, Typed, Claims, Roles, Busy, Holding
  <2> QED
    BY <2>2, <2>3
<1>5. CASE CloseReady
  BY <1>5 DEF CloseReady, Goto, Typed, PCs, Claims, Roles, Busy, Holding
<1>6. CASE Loop
  BY <1>6 DEF Loop, Goto, Typed, PCs, Claims, Roles, Busy, Holding
<1>7. CASE Return
  BY <1>7 DEF Return, Typed, Claims, Roles
<1>8. ASSUME NEW p \in Procs, Worker(p) PROVE TypeInv'
  <2>1. CASE Claim(p)
    <3>1. Typed'
      BY <2>1 DEF Claim, Goto, Typed, PCs
    <3>2. Claims'
      BY <2>1, GridAssumption DEF Claim, Goto, Typed, Claims, Busy, Holding
    <3>3. Roles'
      BY <2>1 DEF Claim, Goto, Typed, Roles
    <3> QED
      BY <3>1, <3>2, <3>3
  <2>2. CASE DecodeFails(p)
    <3>1. tile[p] \in Tiles
      BY <2>2 DEF DecodeFails, Claims, Busy, Tiles
    <3>2. Typed'
      BY <1>1, <2>2, <3>1 DEF DecodeFails
    <3>3. Verdict(tile[p]) \in Errors
      BY <2>2, <3>1, TileFacts DEF DecodeFails, Undecodable, Verdicts
    <3>4. Claims' /\ Roles'
      BY <2>2, <3>3 DEF DecodeFails, Undecodable, Raise, Goto, Typed, Claims, Roles, Busy, Holding
    <3> QED
      BY <3>2, <3>4
  <2>3. CASE DecodeTile(p)
    <3>1. tile[p] \in Tiles
      BY <2>3 DEF DecodeTile, Claims, Busy, Tiles
    <3>2. Typed'
      <4>1. held' \in SUBSET (Tiles \X (Nat \ {0}))
        BY <2>3, <3>1, TileFacts DEF DecodeTile, Typed
      <4> QED
        BY <2>3, <3>1, <4>1, ItemTyped DEF DecodeTile, Decoded, Goto, Typed, PCs
    <3>3. Claims' /\ Roles'
      BY <2>3 DEF DecodeTile, Goto, Typed, Claims, Roles, Busy, Holding
    <3> QED
      BY <3>2, <3>3
  <2>4. CASE Check(p)
    BY <2>4 DEF Check, Goto, Typed, PCs, Claims, Roles, Busy, Holding
  <2>5. CASE AwaitReady(p)
    BY <2>5 DEF AwaitReady, Goto, Typed, PCs, Claims, Roles, Busy, Holding
  <2>6. CASE Recheck(p)
    BY <2>6 DEF Recheck, Goto, Typed, PCs, Claims, Roles, Busy, Holding
  <2>7. CASE CopyTile(p)
    <3>1. tile[p] \in Tiles
      BY <2>7 DEF CopyTile, Claims, Busy, Holding, Tiles
    <3>2. Typed'
      BY <2>7, <3>1 DEF CopyTile, Blit, Raise, Goto, Typed, PCs, Errors
    <3>3. Claims' /\ Roles'
      BY <2>7 DEF CopyTile, Errors, Raise, Goto, Typed, Claims, Roles, Busy, Holding
    <3> QED
      BY <3>2, <3>3
  <2>8. CASE SetErr(p)
    BY <2>8 DEF SetErr, Goto, Typed, PCs, Claims, Roles, Busy, Holding
  <2> QED
    BY <1>8, <2>1, <2>2, <2>3, <2>4, <2>5, <2>6, <2>7, <2>8 DEF Worker
<1>9. CASE UNCHANGED vars
  BY <1>9 DEF vars, Typed, Claims, Roles
<1> QED
  BY <1>2, <1>3, <1>4, <1>5, <1>6, <1>7, <1>8, <1>9 DEF Next, Caller, Returned

-----------------------------------------------------------------------------
LEMMA CanvasInit == Init => CanvasInv
  BY MainIsOne DEF Init, CanvasInv

LEMMA CanvasNext == TypeInv /\ CanvasInv /\ [Next]_vars => CanvasInv'
<1> SUFFICES ASSUME TypeInv, CanvasInv, [Next]_vars PROVE CanvasInv'
  OBVIOUS
<1> USE MainIsOne DEF shared, local, TypeInv, Typed, Roles, CanvasInv
<1>1. CASE FirstFails
  BY <1>1 DEF FirstFails, Undecodable, Raise, Goto
<1>2. CASE FirstTooSmall
  BY <1>2 DEF FirstTooSmall, Raise, Goto
<1>3. CASE FirstBlit
  BY <1>3 DEF FirstBlit, Goto
<1>4. CASE CloseReady
  BY <1>4 DEF CloseReady, Goto
<1>5. CASE Loop
  BY <1>5 DEF Loop, Goto
<1>6. CASE Return
  BY <1>6 DEF Return
<1>7. ASSUME NEW p \in Procs, Worker(p) PROVE CanvasInv'
  <2>1. CASE Claim(p)
    BY <2>1 DEF Claim, Goto
  <2>2. CASE DecodeFails(p)
    BY <2>2 DEF DecodeFails, Undecodable, Raise, Goto
  <2>3. CASE DecodeTile(p)
    BY <2>3 DEF DecodeTile, Goto
  <2>4. CASE Check(p)
    BY <2>4 DEF Check, Goto
  <2>5. CASE AwaitReady(p)
    BY <2>5 DEF AwaitReady, Goto
  <2>6. CASE Recheck(p)
    BY <2>6 DEF Recheck, Goto
  <2>7. CASE CopyTile(p)
    <3>1. tile[p] # 0
      BY <2>7 DEF CopyTile, Claims, Busy, Holding
    <3>2. blits'[0] = blits[0]
      BY <2>7, <3>1 DEF CopyTile, Blit
    <3> QED
      BY <2>7, <3>2 DEF CopyTile, Raise, Goto
  <2>8. CASE SetErr(p)
    BY <2>8 DEF SetErr, Goto, Errors
  <2> QED
    BY <1>7, <2>1, <2>2, <2>3, <2>4, <2>5, <2>6, <2>7, <2>8 DEF Worker
<1>8. CASE UNCHANGED vars
  BY <1>8 DEF vars
<1> QED
  BY <1>1, <1>2, <1>3, <1>4, <1>5, <1>6, <1>7, <1>8 DEF Next, Caller, Returned

\* Every goroutine that compares a tile with the canvas or copies into it finds
\* it set, for any number of tiles and helpers: `ready` and `fail` together are
\* enough, although neither alone says that there is a canvas.
THEOREM CanvasIsSet == Spec => []CanvasSet
<1>1. CanvasInv => CanvasSet
  BY DEF CanvasInv, CanvasSet
<1> QED
  BY <1>1, TypeInit, TypeNext, CanvasInit, CanvasNext, PTL DEF Spec

-----------------------------------------------------------------------------
LEMMA CopyInit == Init => CopyInv
  BY DEF Init, CopyInv, Busy, Holding

LEMMA CopyNext == TypeInv /\ CanvasInv /\ CopyInv /\ [Next]_vars => CopyInv'
<1> SUFFICES ASSUME TypeInv, CanvasInv, CopyInv, [Next]_vars PROVE CopyInv'
  OBVIOUS
<1> USE MainIsOne DEF shared, local, TypeInv, Typed, Claims, CopyInv, Busy, Holding
<1>1. CASE FirstFails
  BY <1>1 DEF FirstFails, Undecodable, Raise, Goto
<1>2. CASE FirstTooSmall
  BY <1>2 DEF FirstTooSmall, Raise, Goto
<1>3. CASE FirstBlit
  <2>1. \A i \in Tiles : i # 0 => blits'[i] = blits[i]
    BY <1>3 DEF FirstBlit, Blit
  <2>2. \A p \in Procs : pc'[p] \in Busy => pc[p] \in Busy /\ tile[p] \in Tiles \ {0}
    BY <1>3 DEF FirstBlit, Goto, Tiles
  <2> QED
    BY <1>3, <2>1, <2>2 DEF FirstBlit
<1>4. CASE CloseReady
  BY <1>4 DEF CloseReady, Goto
<1>5. CASE Loop
  BY <1>5 DEF Loop, Goto
<1>6. CASE Return
  BY <1>6 DEF Return
<1>7. ASSUME NEW p \in Procs, Worker(p) PROVE CopyInv'
  <2>1. CASE Claim(p)
    <3>1. next < NTiles => next \in Tiles
      BY GridAssumption DEF Tiles
    <3>2. pc'[p] \in Busy => next < NTiles
      BY <2>1, GridAssumption DEF Claim, Goto
    <3> QED
      BY <2>1, <3>1, <3>2 DEF Claim, Goto, Tiles
  <2>2. CASE DecodeFails(p)
    BY <2>2 DEF DecodeFails, Undecodable, Raise, Goto
  <2>3. CASE DecodeTile(p)
    BY <2>3 DEF DecodeTile, Goto
  <2>4. CASE Check(p)
    BY <2>4 DEF Check, Goto
  <2>5. CASE AwaitReady(p)
    BY <2>5 DEF AwaitReady, Goto
  <2>6. CASE Recheck(p)
    BY <2>6 DEF Recheck, Goto
  <2>7. CASE CopyTile(p)
    <3>1. pc[p] \in Busy /\ tile[p] # 0
      BY <2>7 DEF CopyTile
    <3>2. \A i \in Tiles : i # tile[p] => blits'[i] = blits[i]
      BY <2>7 DEF CopyTile, Blit
    <3>3. \A q \in Procs : pc'[q] \in Busy =>
             pc[q] \in Busy /\ tile[q] # tile[p] /\ tile[q] \in Tiles
      BY <2>7, <3>1 DEF CopyTile, Raise, Goto, Tiles
    <3> QED
      BY <2>7, <3>2, <3>3 DEF CopyTile, Tiles
  <2>8. CASE SetErr(p)
    BY <2>8 DEF SetErr, Goto
  <2> QED
    BY <1>7, <2>1, <2>2, <2>3, <2>4, <2>5, <2>6, <2>7, <2>8 DEF Worker
<1>8. CASE UNCHANGED vars
  BY <1>8 DEF vars
<1> QED
  BY <1>1, <1>2, <1>3, <1>4, <1>5, <1>6, <1>7, <1>8 DEF Next, Caller, Returned

\* A tile in hand is nobody else's and has not been copied, whatever the
\* goroutines' speeds: no two of them ever write the same samples.
THEOREM TilesHaveOneOwner == Spec => []OneOwner
<1>1. TypeInv /\ CopyInv => OneOwner
  BY DEF TypeInv, Claims, CopyInv, OneOwner, Busy, Holding
<1> QED
  BY <1>1, TypeInit, TypeNext, CanvasInit, CanvasNext, CopyInit, CopyNext, PTL DEF Spec

-----------------------------------------------------------------------------
LEMMA ParamsInit == Init => ParamsInv
  BY DEF Init, ParamsInv, OwnParameters

\* Whether decodeItem feeds the configuration or finds it fed already, units that
\* it comes to are decoded with the tile's own.
LEMMA ItemOwn ==
    ASSUME Typed, NEW p \in Procs, NEW i \in Tiles, decodeItem(p, i),
           cfg[p] = params[p], OwnParameters, UNCHANGED grid
    PROVE  /\ OwnParameters'
           /\ Reached(i) => used'[i] # NoConfig /\ cfg'[p] = params'[p]
           /\ \A q \in Procs : q # p => cfg'[q] = cfg[q] /\ params'[q] = params[q]
           /\ \A j \in Tiles : j # i => used'[j] = used[j]
           /\ ~Reached(i) => used' = used
<1>1. /\ Reached(i) => params'[p] = grid.tile[i].cfg /\ cfg'[p] = params'[p]
      /\ \A q \in Procs : q # p => cfg'[q] = cfg[q] /\ params'[q] = params[q]
  BY DEF decodeItem, FeedConfig, Reached, Typed
<1>2. used' = IF Reached(i) THEN [used EXCEPT ![i] = params'[p]] ELSE used
  BY DEF decodeItem
<1>3. \A j \in Tiles : used'[j] = IF j = i /\ Reached(i) THEN grid.tile[i].cfg ELSE used[j]
  BY <1>1, <1>2 DEF Typed
<1>4. grid.tile[i].cfg # NoConfig
  BY TileFacts, GridAssumption
<1> QED
  BY <1>1, <1>2, <1>3, <1>4 DEF OwnParameters

\* A tile that decodes had its units reached, and more than none came of them.
LEMMA OkReached ==
    ASSUME Typed, NEW i \in Tiles, Verdict(i) = "ok"
    PROVE  Reached(i) /\ First(i) \in Collected(i)
<1>1. Reached(i) /\ grid.tile[i].pics # 0
  BY DEF Verdict, Reached
<1>2. 1 \in 1 .. grid.tile[i].pics
  BY <1>1, TileFacts
<1> QED
  BY <1>1, <1>2 DEF Collected, First

LEMMA ParamsNext == TypeInv /\ ParamsInv /\ [Next]_vars => ParamsInv'
<1> SUFFICES ASSUME TypeInv, ParamsInv, [Next]_vars PROVE ParamsInv'
  OBVIOUS
<1> USE MainIsOne DEF shared, local, TypeInv, Typed, ParamsInv, GaveUp
<1>1. ASSUME NEW p \in Procs, NEW i \in Tiles, Undecodable(p, i), cfg[p] = params[p],
             UNCHANGED <<grid, fail>>
      PROVE  ParamsInv'
  BY <1>1, ItemOwn DEF Undecodable, Raise, Goto
<1>2. ASSUME NEW p \in Procs, NEW i \in Tiles, Decoded(p, i), cfg[p] = params[p],
             UNCHANGED <<grid, fail>>,
             \A q \in Procs : q # p => pc'[q] = pc[q]
      PROVE  ParamsInv'
  BY <1>2, ItemOwn, OkReached DEF Decoded
<1>3. CASE FirstFails
  BY <1>1, <1>3 DEF FirstFails
<1>4. CASE FirstTooSmall \/ FirstBlit
  BY <1>2, <1>4 DEF FirstTooSmall, FirstBlit, Raise, Goto
<1>5. CASE CloseReady \/ Loop
  BY <1>5 DEF CloseReady, Loop, Goto, OwnParameters
<1>6. CASE Return \/ UNCHANGED vars
  BY <1>6 DEF Return, vars, OwnParameters
<1>7. ASSUME NEW p \in Procs, Worker(p) PROVE ParamsInv'
  <2>1. CASE DecodeFails(p)
    <3>1. tile[p] \in Tiles
      BY <2>1 DEF DecodeFails, Claims, Busy, Tiles
    <3> QED
      BY <1>1, <2>1, <3>1 DEF DecodeFails
  <2>2. CASE DecodeTile(p)
    <3>1. tile[p] \in Tiles
      BY <2>2 DEF DecodeTile, Claims, Busy, Tiles
    <3> QED
      BY <1>2, <2>2, <3>1 DEF DecodeTile, Goto
  <2>3. CASE SetErr(p)
    BY <2>3 DEF SetErr, Goto, Roles, Errors, OwnParameters
  <2>4. CASE Claim(p) \/ Check(p) \/ AwaitReady(p) \/ Recheck(p) \/ CopyTile(p)
    BY <2>4 DEF Claim, Check, AwaitReady, Recheck, CopyTile, Raise, Goto, OwnParameters
  <2> QED
    BY <1>7, <2>1, <2>2, <2>3, <2>4 DEF Worker
<1> QED
  BY <1>3, <1>4, <1>5, <1>6, <1>7 DEF Next, Caller, Returned

\* Each tile is decoded with the parameter sets of the hvcC it refers to, for
\* every assignment of configurations to tiles and of tiles to goroutines.
THEOREM ParametersAreOwn == Spec => []OwnParameters
<1>1. ParamsInv => OwnParameters
  BY DEF ParamsInv
<1> QED
  BY <1>1, TypeInit, TypeNext, ParamsInit, ParamsNext, PTL DEF Spec

-----------------------------------------------------------------------------
ReleaseInv == HeldInv /\ ReturnInv

LEMMA ReleaseInit == Init => ReleaseInv
  BY DEF Init, ReleaseInv, HeldInv, Hands, Dropping, ReturnInv, Holding

LEMMA GridKept ==
    ASSUME UNCHANGED grid
    PROVE  \A i : Verdict(i)' = Verdict(i) /\ Dropped(i)' = Dropped(i) /\ First(i)' = First(i)
BY DEF Verdict, Dropped, Collected, Reached, First

\* decodeItem drops of tile i what it drops of it, and of no other.
LEMMA ItemDrops ==
    ASSUME Typed, NEW p \in Procs, NEW i \in Tiles, decodeItem(p, i),
           cfg[p] = params[p], OwnParameters, UNCHANGED grid
    PROVE  Dropping' = Dropping \cup Dropped(i)
<1>1. Reached(i) \/ Dropped(i) = {}
  BY DEF Dropped, Collected
<1>2. \A j \in Tiles : used'[j] # NoConfig <=> used[j] # NoConfig \/ (j = i /\ Reached(i))
  BY ItemOwn
<1>3. \A j : Dropped(j)' = Dropped(j)
  BY GridKept
<1> DEFINE old == {j \in Tiles : used[j] # NoConfig}
           new == {j \in Tiles : used'[j] # NoConfig}
<1>4. Dropping' = UNION {Dropped(j) : j \in new}
  BY <1>3 DEF Dropping
<1>5. CASE Reached(i)
  <2>1. new = old \cup {i}
    BY <1>2, <1>5
  <2> QED
    BY <1>4, <2>1 DEF Dropping
<1>6. CASE ~Reached(i)
  <2>1. new = old
    BY <1>2, <1>6
  <2> QED
    BY <1>1, <1>4, <1>6, <2>1 DEF Dropping
<1> QED
  BY <1>5, <1>6

\* A step that decodes nothing drops nothing.
LEMMA KeptDropping ==
    ASSUME UNCHANGED <<grid, used>> PROVE Dropping' = Dropping
BY GridKept DEF Dropping

\* The picture in somebody's hands is not one that decodeItem dropped.
LEMMA HandsAreNotDropped ==
    ASSUME TypeInv, NEW i \in Tiles, Verdict(i) = "ok"
    PROVE  First(i) \notin Dropping
<1>1. \A j \in Tiles : First(i) \in Dropped(j) => j = i
  BY DEF Dropped, Collected, First
<1>2. First(i) \notin Dropped(i)
  BY DEF Dropped
<1> QED
  BY <1>1, <1>2 DEF Dropping

\* Letting go of a picture takes it, and nobody else's, out of the hands.
LEMMA LetGo ==
    ASSUME TypeInv, HeldInv, NEW p \in Procs, pc[p] \in Holding,
           UNCHANGED <<grid, tile, used>>, held' = held \ {First(tile[p])},
           NEW l \in PCs \ Holding, pc' = [pc EXCEPT ![p] = l]
    PROVE  HeldInv'
<1> USE DEF TypeInv, Typed, Claims, Busy, HeldInv
<1>1. tile[p] \in Tiles /\ Verdict(tile[p]) = "ok"
  BY DEF Tiles
<1>2. \A q \in Procs : pc'[q] \in Holding <=> pc[q] \in Holding /\ q # p
  OBVIOUS
<1>3. \A q \in Procs : pc[q] \in Holding /\ q # p => First(tile[q]) # First(tile[p])
  BY DEF First, Holding
<1>4. Hands' = Hands \ {First(tile[p])}
  BY <1>2, <1>3 DEF Hands, First
<1>5. First(tile[p]) \notin Dropping /\ Dropping' = Dropping
  BY <1>1, HandsAreNotDropped, KeptDropping
<1> QED
  BY <1>2, <1>4, <1>5, GridKept

\* A step that neither decodes nor takes or gives a picture.
LEMMA HandsKept ==
    ASSUME HeldInv, UNCHANGED <<grid, used, held>>,
           \A q \in Procs : /\ pc'[q] \in Holding <=> pc[q] \in Holding
                            /\ pc[q] \in Holding => tile'[q] = tile[q]
    PROVE  HeldInv'
<1>1. {q \in Procs : pc'[q] \in Holding} = {q \in Procs : pc[q] \in Holding}
  OBVIOUS
<1>2. Hands' = Hands
  BY <1>1 DEF Hands, First
<1> QED
  BY <1>2, GridKept, KeptDropping DEF HeldInv

\* A goroutine that decodes an item and is left without its picture.
LEMMA NoneTaken ==
    ASSUME Typed, HeldInv, OwnParameters, NEW p \in Procs, NEW i \in Tiles,
           decodeItem(p, i), cfg[p] = params[p], UNCHANGED <<grid, tile>>,
           pc[p] \notin Holding, NEW l \in PCs \ Holding, pc' = [pc EXCEPT ![p] = l],
           held' = held \cup Dropped(i)
    PROVE  HeldInv'
<1>1. \A q \in Procs : pc'[q] \in Holding <=> pc[q] \in Holding
  BY DEF Typed
<1>2. Hands' = Hands
  BY <1>1 DEF Hands, First
<1> QED
  BY <1>1, <1>2, ItemDrops, GridKept DEF HeldInv

LEMMA ReleaseNext == TypeInv /\ ParamsInv /\ ReleaseInv /\ [Next]_vars => ReleaseInv'
<1> SUFFICES ASSUME TypeInv, ParamsInv, ReleaseInv, [Next]_vars PROVE ReleaseInv'
  OBVIOUS
<1> USE MainIsOne DEF shared, local, TypeInv, ReleaseInv
<1>0. \A p \in Procs : pc[p] \in {"first", "decode"} => cfg[p] = params[p]
  BY DEF ParamsInv, GaveUp
<1>1. CASE FirstFails
  <2>1. HeldInv'
    <3>1. pc' = [pc EXCEPT ![Main] = "setErr"] /\ held' = held \cup Dropped(0)
      BY <1>1 DEF FirstFails, Undecodable, Raise, Goto, Dropped
    <3> QED
      BY <1>0, <1>1, <3>1, NoneTaken DEF FirstFails, Undecodable, ParamsInv, Holding, PCs
  <2> QED
    BY <1>1, <2>1 DEF FirstFails, ReturnInv
<1>2. CASE FirstTooSmall
  <2>1. HeldInv'
    <3>1. pc' = [pc EXCEPT ![Main] = "setErr"] /\ held' = held \cup Dropped(0)
      BY <1>2 DEF FirstTooSmall, Decoded, Raise, Goto, Dropped
    <3> QED
      BY <1>0, <1>2, <3>1, NoneTaken DEF FirstTooSmall, Decoded, ParamsInv, Holding, PCs
  <2> QED
    BY <1>2, <2>1 DEF FirstTooSmall, ReturnInv
<1>3. CASE FirstBlit
  <2>1. HeldInv'
    <3>1. pc' = [pc EXCEPT ![Main] = "close"] /\ held' = held \cup Dropped(0)
      BY <1>3 DEF FirstBlit, Decoded, Goto, Dropped
    <3> QED
      BY <1>0, <1>3, <3>1, NoneTaken DEF FirstBlit, Decoded, ParamsInv, Holding, PCs
  <2> QED
    BY <1>3, <2>1 DEF FirstBlit, ReturnInv
<1>4. CASE CloseReady \/ Loop
  <2>1. HeldInv'
    BY <1>4, HandsKept DEF CloseReady, Loop, Goto, Holding, Typed
  <2> QED
    BY <1>4, <2>1 DEF CloseReady, Loop, ReturnInv
<1>5. CASE Return
  <2>1. HeldInv'
    BY <1>5, HandsKept DEF Return
  <2> QED
    BY <1>5, <2>1 DEF Return, ReturnInv
<1>6. ASSUME NEW p \in Procs, Worker(p) PROVE ReleaseInv'
  <2>1. pc[p] # "exit"
    BY <1>6 DEF Worker, Claim, DecodeFails, DecodeTile, Check, AwaitReady, Recheck,
                CopyTile, SetErr
  <2>2. result' = "none"
    BY <1>6, <2>1 DEF ReturnInv, Worker, Claim, DecodeFails, DecodeTile, Check,
                      AwaitReady, Recheck, CopyTile, SetErr
  <2>3. pc[p] \in Busy => tile[p] \in Tiles
    BY DEF Claims, Tiles
  <2>4. HeldInv'
    <3>1. CASE DecodeFails(p)
      <4>1. pc' = [pc EXCEPT ![p] = "setErr"] /\ held' = held \cup Dropped(tile[p])
        BY <3>1 DEF DecodeFails, Undecodable, Raise, Goto, Dropped
      <4> QED
        BY <1>0, <2>3, <3>1, <4>1, NoneTaken
        DEF DecodeFails, Undecodable, ParamsInv, Busy, Holding, PCs
    <3>2. CASE DecodeTile(p)
      <4> DEFINE i == tile[p]
      <4>1. i \in Tiles /\ Verdict(i) = "ok" /\ decodeItem(p, i) /\ UNCHANGED <<grid, tile>>
        BY <2>3, <3>2 DEF DecodeTile, Decoded, Busy
      <4>2. held' = held \cup Dropped(i) \cup {First(i)}
        BY <3>2, <4>1, OkReached DEF DecodeTile, Dropped
      <4>3. \A q \in Procs : pc'[q] \in Holding <=> pc[q] \in Holding \/ q = p
        BY <3>2 DEF DecodeTile, Goto, Typed, Holding
      <4>4. Hands' = Hands \cup {First(i)}
        BY <4>1, <4>3 DEF Hands, First
      <4>5. Dropping' = Dropping \cup Dropped(i)
        BY <1>0, <3>2, <4>1, ItemDrops DEF DecodeTile, ParamsInv
      <4> QED
        BY <4>1, <4>2, <4>3, <4>4, <4>5, GridKept DEF HeldInv
    <3>3. CASE Recheck(p)
      <4>1. CASE fail = "none"
        BY <3>3, <4>1, HandsKept DEF Recheck, Goto, Typed, Holding
      <4>2. CASE fail # "none"
        <5>1. pc' = [pc EXCEPT ![p] = "exit"] /\ held' = held \ {First(tile[p])}
          BY <3>3, <4>2 DEF Recheck, Goto
        <5> QED
          BY <3>3, <5>1, LetGo DEF Recheck, Holding, PCs
      <4> QED
        BY <4>1, <4>2
    <3>4. CASE CopyTile(p)
      <4>1. \E l \in PCs \ Holding : pc' = [pc EXCEPT ![p] = l]
        BY <3>4 DEF CopyTile, Raise, Goto, Holding, PCs
      <4>2. pc[p] \in Holding /\ held' = held \ {First(tile[p])} /\ UNCHANGED <<grid, tile, used>>
        BY <3>4 DEF CopyTile, Holding
      <4> QED
        BY <4>1, <4>2, LetGo
    <3>5. CASE Claim(p) \/ Check(p) \/ AwaitReady(p) \/ SetErr(p)
      BY <3>5, HandsKept DEF Claim, Check, AwaitReady, SetErr, Goto, Typed, Holding
    <3> QED
      BY <1>6, <3>1, <3>2, <3>3, <3>4, <3>5 DEF Worker
  <2> QED
    BY <2>2, <2>4 DEF ReturnInv
<1>7. CASE UNCHANGED vars
  <2>1. HeldInv'
    BY <1>7, HandsKept DEF vars
  <2> QED
    BY <1>7, <2>1 DEF vars, ReturnInv
<1> QED
  BY <1>1, <1>2, <1>3, <1>4, <1>5, <1>6, <1>7 DEF Next, Caller, Returned

\* When decodeTiles returns, by success or by error, each picture that decodeItem
\* returned is back in its decoder's pool.  Those left are what decodeItem itself
\* dropped of the tiles whose units were decoded: the ones past the first, and all
\* it had collected when a later unit failed.
THEOREM PicturesAreReleased == Spec => []AllReleased
<1>1. ReleaseInv => AllReleased
  BY DEF ReleaseInv, HeldInv, Hands, Dropping, ReturnInv, AllReleased, Holding
<1> QED
  BY <1>1, TypeInit, TypeNext, ParamsInit, ParamsNext, ReleaseInit, ReleaseNext, PTL DEF Spec

-----------------------------------------------------------------------------
\* A grid has reasons to fail exactly when it is not good.
LEMMA GoodIsReasonless == Typed => (Good <=> Reasons = {})
<1> SUFFICES ASSUME Typed PROVE Good <=> Reasons = {}
  OBVIOUS
<1>1. Good => Reasons = {}
  BY DEF Good, Reasons
<1>2. ASSUME Reasons = {} PROVE Good
  BY <1>2 DEF Good, Reasons
<1> QED
  BY <1>1, <1>2

LEMMA ReasonInit == Init => ReasonInv
  BY DEF Init, ReasonInv

LEMMA ReasonNext == TypeInv /\ ReasonInv /\ [Next]_vars => ReasonInv'
<1> SUFFICES ASSUME TypeInv, ReasonInv, [Next]_vars PROVE ReasonInv'
  OBVIOUS
<1> USE MainIsOne DEF shared, local, TypeInv, Typed
<1>1. Reasons' = Reasons
  BY DEF Next, Caller, Returned, Worker, vars, shared, local, FirstFails,
         FirstTooSmall, FirstBlit, CloseReady, Loop, Return, Claim, DecodeFails,
         DecodeTile, Check, AwaitReady, Recheck, CopyTile, SetErr, Reasons, Verdict
<1>2. ASSUME NEW p \in Procs, NEW i \in Tiles, Undecodable(p, i), fail' = fail
      PROVE  ReasonInv'
  <2>1. cause'[p] \in Reasons
    BY <1>2 DEF Undecodable, Raise, Reasons
  <2> QED
    BY <1>1, <1>2, <2>1 DEF Undecodable, Raise, Goto, ReasonInv
<1>3. CASE FirstFails
  BY <1>2, <1>3 DEF FirstFails
<1>4. CASE FirstTooSmall
  <2>1. "invalid" \in Reasons
    BY <1>4 DEF FirstTooSmall, Reasons
  <2> QED
    BY <1>1, <1>4, <2>1 DEF FirstTooSmall, Raise, Goto, ReasonInv
<1>5. CASE FirstBlit \/ CloseReady \/ Loop
  BY <1>1, <1>5 DEF FirstBlit, CloseReady, Loop, Goto, ReasonInv
<1>6. CASE Return \/ UNCHANGED vars
  BY <1>1, <1>6 DEF Return, vars, ReasonInv
<1>7. ASSUME NEW p \in Procs, Worker(p) PROVE ReasonInv'
  <2>1. CASE DecodeFails(p)
    <3>1. tile[p] \in Tiles
      BY <2>1 DEF DecodeFails, Claims, Busy, Tiles
    <3> QED
      BY <1>2, <2>1, <3>1 DEF DecodeFails
  <2>2. CASE CopyTile(p)
    <3>1. tile[p] \in Tiles
      BY <2>2 DEF CopyTile, Claims, Busy, Holding, Tiles
    <3>2. CASE grid.tile[tile[p]].shape = grid.tile[0].shape
      BY <1>1, <2>2, <3>2 DEF CopyTile, Goto, ReasonInv
    <3>3. CASE grid.tile[tile[p]].shape # grid.tile[0].shape
      <4>1. "invalid" \in Reasons
        BY <3>1, <3>3 DEF Reasons
      <4> QED
        BY <1>1, <2>2, <3>3, <4>1 DEF CopyTile, Raise, Goto, ReasonInv
    <3> QED
      BY <3>2, <3>3
  <2>3. CASE SetErr(p)
    BY <1>1, <2>3 DEF SetErr, Goto, ReasonInv
  <2>4. CASE Claim(p) \/ DecodeTile(p) \/ Check(p) \/ AwaitReady(p) \/ Recheck(p)
    BY <1>1, <2>4 DEF Claim, DecodeTile, Check, AwaitReady, Recheck, Goto, ReasonInv
  <2> QED
    BY <1>7, <2>1, <2>2, <2>3, <2>4 DEF Worker
<1> QED
  BY <1>3, <1>4, <1>5, <1>6, <1>7 DEF Next, Caller, Returned

LEMMA ProgressInit == Init => ProgressInv
  BY GridAssumption DEF Init, ProgressInv, Holding

LEMMA ProgressNext ==
    TypeInv /\ CanvasInv /\ CopyInv /\ HeldInv /\ ProgressInv /\ [Next]_vars => ProgressInv'
<1> SUFFICES ASSUME TypeInv, CanvasInv, CopyInv, HeldInv, ProgressInv, [Next]_vars
             PROVE  ProgressInv'
  OBVIOUS
<1>0. \A i : Verdict(i)' = Verdict(i)
  <2>1. UNCHANGED grid
    BY DEF Next, Caller, Returned, Worker, vars, shared, local, FirstFails,
           FirstTooSmall, FirstBlit, CloseReady, Loop, Return, Claim, DecodeFails,
           DecodeTile, Check, AwaitReady, Recheck, CopyTile, SetErr
  <2> QED
    BY <2>1, GridKept
<1> USE <1>0, MainIsOne DEF shared, local, TypeInv, Typed, ProgressInv, Copied, Busy, Holding
<1>1. CASE FirstFails
  BY <1>1 DEF FirstFails, Undecodable, Raise, Goto
<1>2. CASE FirstTooSmall
  BY <1>2 DEF FirstTooSmall, Raise, Goto
<1>3. CASE FirstBlit
  <2>1. blits'[0] = 1 /\ \A i \in Tiles : i # 0 => blits'[i] = blits[i]
    BY <1>3 DEF FirstBlit, Blit, CanvasInv
  <2>2. Copied(0)' /\ grid'.covers
    BY <1>3, <2>1 DEF FirstBlit, Decoded
  <2>3. \A i \in 1 .. NTiles - 1 : blits'[i] = blits[i]
    BY <2>1 DEF Tiles
  <2>4. /\ UNCHANGED <<grid, next, fail, tile>>
        /\ pc[Main] = "first" /\ pc' = [pc EXCEPT ![Main] = "close"]
    BY <1>3 DEF FirstBlit, Goto
  <2> QED
    BY <2>2, <2>3, <2>4
<1>4. CASE CloseReady
  BY <1>4 DEF CloseReady, Goto
<1>5. CASE Loop
  BY <1>5 DEF Loop, Goto
<1>6. CASE Return
  BY <1>6 DEF Return
<1>7. ASSUME NEW p \in Procs, Worker(p) PROVE ProgressInv'
  <2>1. CASE Claim(p)
    BY <2>1, GridAssumption DEF Claim, Goto, Claims
  <2>2. CASE DecodeFails(p)
    BY <2>2 DEF DecodeFails, Undecodable, Raise, Goto
  <2>3. CASE DecodeTile(p)
    BY <2>3 DEF DecodeTile, Decoded, Goto
  <2>4. CASE Check(p)
    BY <2>4 DEF Check, Goto
  <2>5. CASE AwaitReady(p)
    BY <2>5 DEF AwaitReady, Goto
  <2>6. CASE Recheck(p)
    BY <2>6 DEF Recheck, Goto
  <2>7. CASE CopyTile(p)
    <3>1. pc[p] = "blit" /\ tile[p] \in 1 .. NTiles - 1 /\ tile[p] \in Tiles
      BY <2>7 DEF CopyTile, Claims, Tiles
    <3>2. \A i \in Tiles : i # tile[p] => blits'[i] = blits[i]
      BY <2>7 DEF CopyTile, Blit
    <3>3. canvas' => grid'.covers /\ Copied(0)'
      BY <2>7, <3>1, <3>2 DEF CopyTile
    <3>4. UNCHANGED <<grid, next, fail, tile>>
      BY <2>7 DEF CopyTile
    <3>5. CASE grid.tile[tile[p]].shape = grid.tile[0].shape
      <4>1. Copied(tile[p])'
        <5>1. blits'[tile[p]] = 1 /\ Verdict(tile[p]) = "ok"
          BY <2>7, <3>1, <3>5 DEF CopyTile, Blit, CopyInv, HeldInv
        <5> QED
          BY <3>4, <3>5, <5>1, GridKept
      <4>2. pc' = [pc EXCEPT ![p] = IF p = Main THEN "loop" ELSE "claim"]
        BY <2>7, <3>5 DEF CopyTile, Goto
      <4> QED
        BY <3>1, <3>2, <3>3, <3>4, <4>1, <4>2 DEF Tiles
    <3>6. CASE grid.tile[tile[p]].shape # grid.tile[0].shape
      <4>1. pc' = [pc EXCEPT ![p] = "setErr"] /\ blits' = blits
        BY <2>7, <3>6 DEF CopyTile, Raise, Goto
      <4> QED
        BY <3>1, <3>3, <3>4, <4>1
    <3> QED
      BY <3>5, <3>6
  <2>8. CASE SetErr(p)
    BY <2>8 DEF SetErr, Goto, Roles, Errors
  <2> QED
    BY <1>7, <2>1, <2>2, <2>3, <2>4, <2>5, <2>6, <2>7, <2>8 DEF Worker
<1>8. CASE UNCHANGED vars
  BY <1>8 DEF vars
<1> QED
  BY <1>1, <1>2, <1>3, <1>4, <1>5, <1>6, <1>7, <1>8 DEF Next, Caller, Returned

OutcomeInv == CanvasInv /\ CopyInv /\ ParamsInv /\ ReleaseInv /\ ReasonInv /\ ProgressInv

\* When all have stopped without an error, every tile has been claimed, and
\* none of them can still be in somebody's hands.
LEMMA AllCopied ==
    ASSUME TypeInv, OutcomeInv, fail = "none", \A p \in Procs : pc[p] = "exit"
    PROVE  Good /\ blits = [i \in Tiles |-> 1]
<1>1. canvas /\ next >= NTiles
  BY MainIsOne DEF OutcomeInv, CanvasInv, ProgressInv
<1>2. grid.covers /\ \A i \in Tiles : Copied(i)
  <2>1. grid.covers /\ Copied(0)
    BY <1>1 DEF OutcomeInv, ProgressInv
  <2>2. ASSUME NEW i \in 1 .. NTiles - 1 PROVE Copied(i)
    <3>1. i < next
      BY <1>1, GridAssumption DEF TypeInv, Typed
    <3> QED
      BY <3>1 DEF OutcomeInv, ProgressInv, Busy, Holding
  <2> QED
    BY <2>1, <2>2, GridAssumption DEF Tiles
<1> QED
  BY <1>2 DEF Good, Copied, TypeInv, Typed

\* Whether there is a picture does not depend on how the goroutines interleave:
\* it is returned exactly for a good grid, with each tile in it once, and an
\* error that is returned is one the grid really has.
THEOREM OutcomeIsDetermined == Spec => []Outcome
<1>1. TypeInv /\ OutcomeInv => Outcome
  <2> SUFFICES ASSUME TypeInv, OutcomeInv, result # "none" PROVE Outcome
    BY DEF Outcome
  <2>1. \A p \in Procs : pc[p] = "exit"
    BY DEF OutcomeInv, ReleaseInv, ReturnInv
  <2>2. CASE fail = "none"
    <3>1. result = "ok" /\ Good /\ blits = [i \in Tiles |-> 1]
      BY <2>1, <2>2, AllCopied DEF OutcomeInv, ReleaseInv, ReturnInv
    <3> QED
      BY <3>1 DEF Outcome
  <2>3. CASE fail # "none"
    <3>1. result = fail /\ fail \in Reasons /\ result # "ok"
      BY <2>3 DEF OutcomeInv, ReleaseInv, ReturnInv, ReasonInv, TypeInv, Typed, Errors
    <3>2. ~Good
      BY <3>1, GoodIsReasonless DEF TypeInv
    <3> QED
      BY <3>1, <3>2 DEF Outcome
  <2> QED
    BY <2>2, <2>3
<1>2. Init => OutcomeInv
  BY CanvasInit, CopyInit, ParamsInit, ReleaseInit, ReasonInit, ProgressInit DEF OutcomeInv
<1>3. TypeInv /\ OutcomeInv /\ [Next]_vars => OutcomeInv'
  BY CanvasNext, CopyNext, ParamsNext, ReleaseNext, ReasonNext, ProgressNext DEF OutcomeInv, ReleaseInv
<1> QED
  BY <1>1, <1>2, <1>3, TypeInit, TypeNext, PTL DEF Spec

-----------------------------------------------------------------------------
LEMMA ProcsFinite == IsFiniteSet(Procs) /\ Cardinality(Procs) = Helpers + 1
  BY FS_Interval, GridAssumption DEF Procs

LEMMA LateFinite == IsFiniteSet(Late) /\ Cardinality(Late) \in 0 .. Helpers + 1
<1>1. Late \subseteq Procs
  BY DEF Late
<1>2. IsFiniteSet(Late) /\ Cardinality(Late) <= Cardinality(Procs)
  BY <1>1, ProcsFinite, FS_Subset
<1>3. Cardinality(Late) \in Nat
  BY <1>2, FS_CardinalityType
<1> QED
  BY <1>2, <1>3, ProcsFinite, GridAssumption

LEMMA CountInit == Init => CountInv
<1> SUFFICES ASSUME Init PROVE CountInv
  OBVIOUS
<1>1. Late = {}
  BY GridAssumption DEF Init, Late
<1>2. Cardinality(Late) = 0
  BY <1>1, FS_EmptySet
<1> QED
  BY <1>1, <1>2, GridAssumption DEF Init, CountInv

LEMMA CountNext == TypeInv /\ CountInv /\ [Next]_vars => CountInv'
<1> SUFFICES ASSUME TypeInv, CountInv, [Next]_vars PROVE CountInv'
  OBVIOUS
<1> USE GridAssumption DEF TypeInv, Typed, shared, local
<1>1. ASSUME NEW p \in Procs, Claim(p) PROVE CountInv'
  <2>1. p \notin Late /\ tile' = [tile EXCEPT ![p] = next] /\ next' = next + 1
    BY <1>1 DEF Claim, CountInv
  <2>2. pc' = [pc EXCEPT ![p] = IF next >= NTiles THEN "exit"
                                 ELSE IF p = Main THEN "decode" ELSE "check"]
    BY <1>1 DEF Claim, Goto
  <2>3. CASE next < NTiles
    <3>1. Late = {} /\ Late' = Late
      BY <2>1, <2>3 DEF Late, Claims
    <3>2. Cardinality(Late') = 0
      BY <3>1, FS_EmptySet
    <3> QED
      BY <2>1, <2>3, <3>1, <3>2 DEF CountInv
  <2>4. CASE next >= NTiles
    <3>1. Late' = Late \cup {p}
      BY <2>1, <2>4 DEF Late
    <3>2. Cardinality(Late') = Cardinality(Late) + 1
      BY <2>1, <3>1, LateFinite, FS_AddElement
    <3>3. next' = NTiles + Cardinality(Late')
      BY <2>1, <2>4, <3>2, LateFinite DEF CountInv
    <3>4. \A q \in Late' : pc'[q] = "exit"
      BY <2>2, <2>4, <3>1 DEF CountInv, Late
    <3> QED
      BY <3>3, <3>4 DEF CountInv
  <2> QED
    BY <2>3, <2>4
<1>2. ASSUME UNCHANGED <<next, tile>>, \A q \in Procs : pc[q] = "exit" => pc'[q] = "exit"
      PROVE  CountInv'
  <2>1. Late' = Late
    BY <1>2 DEF Late
  <2> QED
    BY <1>2, <2>1 DEF CountInv, Late
<1>3. CASE Caller \/ UNCHANGED vars
  BY <1>2, <1>3 DEF Caller, vars, FirstFails, FirstTooSmall, FirstBlit, CloseReady,
                    Loop, Return, Undecodable, Raise, Goto
<1>4. ASSUME NEW p \in Procs, Worker(p), ~Claim(p) PROVE CountInv'
  BY <1>2, <1>4 DEF Worker, DecodeFails, DecodeTile, Check, AwaitReady, Recheck,
                    CopyTile, SetErr, Undecodable, Raise, Goto
<1> QED
  BY <1>1, <1>3, <1>4 DEF Next, Returned, vars

\* Every variable keeps its type: in particular the atomic counter, which is
\* never reset, passes the number of tiles by one for each goroutine at most.
THEOREM TypeCorrect == Spec => []TypeOK
<1>1. TypeInv /\ CountInv => TypeOK
  <2> SUFFICES ASSUME TypeInv, CountInv PROVE TypeOK
    OBVIOUS
  <2>1. next \in 1 .. NTiles + Helpers + 1
    BY LateFinite, GridAssumption DEF TypeInv, Typed, CountInv
  <2>2. tile \in [Procs -> 0 .. NTiles + Helpers]
    BY <2>1, GridAssumption DEF TypeInv, Typed, Claims
  <2> QED
    BY <2>1, <2>2 DEF TypeInv, Typed, TypeOK
<1> QED
  BY <1>1, TypeInit, TypeNext, CountInit, CountNext, PTL DEF Spec
=============================================================================
