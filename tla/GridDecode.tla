----------------------------- MODULE GridDecode -----------------------------
(***************************************************************************)
(* decodeTiles of heic/grid.go: the tiles of a grid image are claimed from *)
(* an atomic counter by the caller (Main) and by helper goroutines, each   *)
(* with a decoder of its own, and copied into one canvas.  Main decodes    *)
(* tile 0 first, since its shape decides the canvas; a helper may decode   *)
(* ahead, but waits on the channel `ready` before it looks at the canvas.  *)
(*                                                                         *)
(* A tile is an item: whether decodeItem takes it up at all (`item`), the  *)
(* hvcC configuration it refers to, how decoding its units ends (`units`), *)
(* how many pictures come out of them by then, and the shape of the first  *)
(* (size, chroma format and bit depth together).  An hvc1 item carries no  *)
(* parameter sets of its own, and an hvcC box nothing but those.           *)
(***************************************************************************)
EXTENDS Integers

CONSTANTS
    NTiles,     \* len(tiles)
    Helpers,    \* tileWorkers - 1
    Shapes,     \* what tiles may look like
    Configs,    \* the hvcC configurations of the file
    Grids       \* the grids to consider

Tiles == 0 .. NTiles - 1
Main  == 0
Procs == 0 .. Helpers

NoConfig == 0
Errors   == {"invalid", "unsupported"}
Verdicts == {"ok"} \cup Errors
TileType == [item : Verdicts, cfg : Configs, units : Verdicts, pics : Nat, shape : Shapes]
GridType == [tile : [Tiles -> TileType],
             sets : [Configs -> Verdicts],  \* how feeding a configuration ends
             covers : BOOLEAN]      \* tiles of the first one's size fill it

\* gridOf makes a grid of at least one tile, and workers(n) never gives it more
\* goroutines than tiles.
ASSUME GridAssumption == /\ NTiles \in Nat \ {0}
                         /\ Helpers \in 0 .. NTiles - 1
                         /\ NoConfig \notin Configs
                         /\ Grids \subseteq GridType

VARIABLES
    grid,       \* the grid being decoded
    next,       \* the next tile nobody has claimed
    fail,       \* the error that is returned, "none" for nil
    ready,      \* whether the channel is closed
    canvas,     \* whether `out`, tw and th are set
    pc,         \* pc[p]: where goroutine p is
    tile,       \* tile[p]: the tile it claimed last
    cause,      \* cause[p]: the error it is about to set
    cfg,        \* cfg[p]: itemDecoder.cfg, the configuration believed fed
    params,     \* params[p]: the one whose parameter sets its decoder holds
    used,       \* used[i]: the parameter sets the units of tile i were decoded with
    held,       \* the pictures, <<tile, n>>, decoders returned and nobody released
    blits,      \* blits[i]: how often tile i was copied into the canvas
    result      \* what decodeTiles returned

shared == <<next, fail, ready, canvas>>
local  == <<pc, tile, cause, cfg, params>>
vars   == <<grid, shared, local, used, held, blits, result>>

PCs == {"first", "close", "loop", "claim", "check", "decode", "await",
        "recheck", "blit", "setErr", "exit"}

Init ==
    /\ grid \in Grids
    /\ next = 1
    /\ fail = "none"
    /\ ready = FALSE
    /\ canvas = FALSE
    /\ pc = [p \in Procs |-> IF p = Main THEN "first" ELSE "claim"]
    /\ tile = [p \in Procs |-> 0]
    /\ cause = [p \in Procs |-> "none"]
    /\ cfg = [p \in Procs |-> NoConfig]
    /\ params = [p \in Procs |-> NoConfig]
    /\ used = [i \in Tiles |-> NoConfig]
    /\ held = {}
    /\ blits = [i \in Tiles |-> 0]
    /\ result = "none"

Goto(p, label) == pc' = [pc EXCEPT ![p] = label]

\* Hand the error to setErr, which is a step of its own.
Raise(p, e) == cause' = [cause EXCEPT ![p] = e] /\ Goto(p, "setErr")

Blit(i) == blits' = [blits EXCEPT ![i] = @ + 1]

-----------------------------------------------------------------------------
\* What decodeItem returns for tile i.
Verdict(i) ==
    LET t == grid.tile[i]
        sets == grid.sets[t.cfg]
    IN  IF t.item # "ok" THEN t.item
        ELSE IF sets # "ok" THEN sets
        ELSE IF t.units # "ok" THEN t.units
        ELSE IF t.pics = 0 THEN "invalid" ELSE "ok"

\* Whether it comes to the units, and the pictures it collects from them in `out`:
\* from every DecodeNAL and, where none fails, from Flush.
Reached(i) == grid.tile[i].item = "ok" /\ grid.sets[grid.tile[i].cfg] = "ok"
Collected(i) == IF Reached(i) THEN {<<i, n>> : n \in 1 .. grid.tile[i].pics} ELSE {}
First(i) == <<i, 1>>

\* Mutant of FeedConfig: whatever was fed first is taken to serve every tile.
FeedConfig_once(p, i) ==
    IF cfg[p] = NoConfig /\ Reached(i)
    THEN /\ cfg' = [cfg EXCEPT ![p] = grid.tile[i].cfg]
         /\ params' = [params EXCEPT ![p] = grid.tile[i].cfg]
    ELSE UNCHANGED <<cfg, params>>

\* The parameter sets are fed again only when the tile refers to another hvcC.  If
\* one of them is refused, the decoder is left with those of neither.
FeedConfig(p, i) ==
    IF grid.tile[i].item = "ok" /\ cfg[p] # grid.tile[i].cfg
    THEN /\ cfg' = IF Reached(i) THEN [cfg EXCEPT ![p] = grid.tile[i].cfg] ELSE cfg
         /\ params' = [params EXCEPT ![p] = IF Reached(i) THEN grid.tile[i].cfg ELSE NoConfig]
    ELSE UNCHANGED <<cfg, params>>

decodeItem(p, i) ==
    /\ FeedConfig(p, i)
    /\ used' = IF Reached(i) THEN [used EXCEPT ![i] = params'[p]] ELSE used

\* decodeTile(&dec, tiles[i]) without an error: the caller gets the first picture
\* and never hears of the others.
Decoded(p, i) == Verdict(i) = "ok" /\ decodeItem(p, i)

\* With an error it gets none, however many there are by then.
Undecodable(p, i) ==
    /\ Verdict(i) # "ok"
    /\ decodeItem(p, i)
    /\ held' = held \cup Collected(i)
    /\ Raise(p, Verdict(i))

\* Main's first tile; close(ready) is deferred to after all of this.
FirstFails ==
    /\ pc[Main] = "first"
    /\ Undecodable(Main, 0)
    /\ UNCHANGED <<grid, shared, tile, blits, result>>

FirstTooSmall ==
    /\ pc[Main] = "first"
    /\ Decoded(Main, 0)
    /\ ~grid.covers
    /\ held' = held \cup (Collected(0) \ {First(0)})   \* the deferred Release
    /\ Raise(Main, "invalid")
    /\ UNCHANGED <<grid, shared, tile, blits, result>>

FirstBlit ==
    /\ pc[Main] = "first"
    /\ Decoded(Main, 0)
    /\ grid.covers
    /\ canvas' = TRUE
    /\ Blit(0)
    /\ held' = held \cup (Collected(0) \ {First(0)})
    /\ Goto(Main, "close")
    /\ UNCHANGED <<grid, next, fail, ready, tile, cause, result>>

\* Mutant of CloseReady: the channel is closed only when there is a canvas.
CloseReady_success ==
    /\ pc[Main] = "close"
    /\ ready' = canvas
    /\ Goto(Main, "loop")
    /\ UNCHANGED <<grid, next, fail, canvas, tile, cause, cfg, params, used,
                   held, blits, result>>

CloseReady ==
    /\ pc[Main] = "close"
    /\ ready' = TRUE
    /\ Goto(Main, "loop")
    /\ UNCHANGED <<grid, next, fail, canvas, tile, cause, cfg, params, used,
                   held, blits, result>>

\* Main's loop condition, fail.Load() == nil.
Loop ==
    /\ pc[Main] = "loop"
    /\ Goto(Main, IF fail = "none" THEN "claim" ELSE "exit")
    /\ UNCHANGED <<grid, shared, tile, cause, cfg, params, used, held, blits,
                   result>>

\* Mutant of Claim: the tile is read before the counter moves past it.
Claim_stale(p) ==
    /\ pc[p] = "claim"
    /\ tile' = [tile EXCEPT ![p] = next - 1]
    /\ next' = next + 1
    /\ Goto(p, IF next > NTiles THEN "exit"
               ELSE IF p = Main THEN "decode" ELSE "check")
    /\ UNCHANGED <<grid, fail, ready, canvas, cause, cfg, params, used, held,
                   blits, result>>

\* i := int(next.Add(1)) - 1
Claim(p) ==
    /\ pc[p] = "claim"
    /\ tile' = [tile EXCEPT ![p] = next]
    /\ next' = next + 1
    /\ Goto(p, IF next >= NTiles THEN "exit"
               ELSE IF p = Main THEN "decode" ELSE "check")
    /\ UNCHANGED <<grid, fail, ready, canvas, cause, cfg, params, used, held,
                   blits, result>>

\* A helper's fail.Load() after it has claimed.
Check(p) ==
    /\ pc[p] = "check"
    /\ Goto(p, IF fail = "none" THEN "decode" ELSE "exit")
    /\ UNCHANGED <<grid, shared, tile, cause, cfg, params, used, held, blits,
                   result>>

DecodeFails(p) ==
    /\ pc[p] = "decode"
    /\ Undecodable(p, tile[p])
    /\ UNCHANGED <<grid, shared, tile, blits, result>>

\* Mutant of DecodeTile: a helper does not wait for the canvas.
DecodeTile_nowait(p) ==
    /\ pc[p] = "decode"
    /\ Decoded(p, tile[p])
    /\ held' = held \cup Collected(tile[p])
    /\ Goto(p, IF p = Main THEN "blit" ELSE "recheck")
    /\ UNCHANGED <<grid, shared, tile, cause, blits, result>>

DecodeTile(p) ==
    /\ pc[p] = "decode"
    /\ Decoded(p, tile[p])
    /\ held' = held \cup Collected(tile[p])
    /\ Goto(p, IF p = Main THEN "blit" ELSE "await")
    /\ UNCHANGED <<grid, shared, tile, cause, blits, result>>

\* <-ready
AwaitReady(p) ==
    /\ pc[p] = "await"
    /\ ready
    /\ Goto(p, "recheck")
    /\ UNCHANGED <<grid, shared, tile, cause, cfg, params, used, held, blits,
                   result>>

\* Mutant of Recheck: the picture is forgotten when another tile has failed.
Recheck_leak(p) ==
    /\ pc[p] = "recheck"
    /\ Goto(p, IF fail = "none" THEN "blit" ELSE "exit")
    /\ UNCHANGED <<grid, shared, tile, cause, cfg, params, used, held, blits,
                   result>>

Recheck(p) ==
    /\ pc[p] = "recheck"
    /\ IF fail = "none"
       THEN Goto(p, "blit") /\ UNCHANGED held
       ELSE Goto(p, "exit") /\ held' = held \ {First(tile[p])}
    /\ UNCHANGED <<grid, shared, tile, cause, cfg, params, used, blits, result>>

\* The tile has to look like tile 0; either way its picture is released.
CopyTile(p) ==
    /\ pc[p] = "blit"
    /\ held' = held \ {First(tile[p])}
    /\ IF grid.tile[tile[p]].shape = grid.tile[0].shape
       THEN /\ Blit(tile[p])
            /\ Goto(p, IF p = Main THEN "loop" ELSE "claim")
            /\ UNCHANGED cause
       ELSE /\ Raise(p, "invalid")
            /\ UNCHANGED blits
    /\ UNCHANGED <<grid, shared, tile, cfg, params, used, result>>

\* Mutant of SetErr: the error is dropped.
SetErr_dropped(p) ==
    /\ pc[p] = "setErr"
    /\ Goto(p, IF p = Main /\ ~ready THEN "close" ELSE "exit")
    /\ UNCHANGED <<grid, shared, tile, cause, cfg, params, used, held, blits,
                   result>>

\* fail.CompareAndSwap(nil, &err); for Main's first tile close(ready) follows.
SetErr(p) ==
    /\ pc[p] = "setErr"
    /\ fail' = IF fail = "none" THEN cause[p] ELSE fail
    /\ Goto(p, IF p = Main /\ ~ready THEN "close" ELSE "exit")
    /\ UNCHANGED <<grid, next, ready, canvas, tile, cause, cfg, params, used,
                   held, blits, result>>

\* wg.Wait() and the return.
Return ==
    /\ result = "none"
    /\ \A p \in Procs : pc[p] = "exit"
    /\ result' = IF fail # "none" THEN fail ELSE "ok"
    /\ UNCHANGED <<grid, shared, local, used, held, blits>>

Returned == result # "none" /\ UNCHANGED vars

Worker(p) ==
    \/ Claim(p)
    \/ DecodeFails(p)
    \/ DecodeTile(p)
    \/ Check(p)
    \/ AwaitReady(p)
    \/ Recheck(p)
    \/ CopyTile(p)
    \/ SetErr(p)

Caller == FirstFails \/ FirstTooSmall \/ FirstBlit \/ CloseReady \/ Loop \/ Return

Next == Caller \/ Returned \/ \E p \in Procs : Worker(p)

Spec == Init /\ [][Next]_vars

\* The Go scheduler runs every goroutine that can run.
Fairness == WF_vars(Caller) /\ \A p \in Procs : WF_vars(Worker(p))
FairSpec == Spec /\ Fairness

-----------------------------------------------------------------------------
TypeOK ==
    /\ grid \in GridType
    /\ next \in 1 .. NTiles + Helpers + 1
    /\ fail \in Errors \cup {"none"}
    /\ ready \in BOOLEAN
    /\ canvas \in BOOLEAN
    /\ pc \in [Procs -> PCs]
    /\ tile \in [Procs -> 0 .. NTiles + Helpers]
    /\ cause \in [Procs -> Errors \cup {"none"}]
    /\ cfg \in [Procs -> Configs \cup {NoConfig}]
    /\ params \in [Procs -> Configs \cup {NoConfig}]
    /\ used \in [Tiles -> Configs \cup {NoConfig}]
    /\ held \in SUBSET (Tiles \X (Nat \ {0}))
    /\ blits \in [Tiles -> Nat]
    /\ result \in Errors \cup {"none", "ok"}

\* Whoever compares a tile with the canvas or copies into it finds it set,
\* although only Main sets it and nothing but `ready` and `fail` say so.
CanvasSet == \A p \in Procs : pc[p] = "blit" => canvas

\* A tile that some goroutine has in hand is nobody else's and not copied yet:
\* no two goroutines ever write the same samples of the canvas.
OneOwner ==
    \A p, q \in Procs :
        pc[p] \in {"decode", "await", "recheck", "blit"} =>
            /\ blits[tile[p]] = 0
            /\ q # p /\ pc[q] \in {"decode", "await", "recheck", "blit"} =>
                   tile[p] # tile[q]

\* Each tile is decoded with the parameter sets of the hvcC it refers to,
\* whichever goroutine got it and whatever that one decoded before.
OwnParameters == \A i \in Tiles : used[i] \in {NoConfig, grid.tile[i].cfg}

Good == /\ grid.covers
        /\ \A i \in Tiles : /\ Verdict(i) = "ok"
                            /\ grid.tile[i].shape = grid.tile[0].shape

\* The errors a grid can fail with; the goroutines race for which is returned.
Reasons == {Verdict(i) : i \in {j \in Tiles : Verdict(j) # "ok"}}
           \cup (IF \/ ~grid.covers
                    \/ \E i \in Tiles : grid.tile[i].shape # grid.tile[0].shape
                 THEN {"invalid"} ELSE {})

\* Whether there is a picture does not depend on the schedule: it is returned
\* exactly when every tile is good, with every tile in it once.
Outcome ==
    result # "none" =>
        /\ result = "ok" <=> Good
        /\ result = "ok" => blits = [i \in Tiles |-> 1]
        /\ result # "ok" => result \in Reasons

\* What decodeItem itself drops of a tile: the pictures past the first, or all of
\* them where it fails.
Dropped(i) == IF Verdict(i) = "ok" THEN Collected(i) \ {First(i)} ELSE Collected(i)

\* Every picture that decodeItem returned is back in its decoder's pool when
\* decodeTiles returns, whichever way out each goroutine took.  What is then left to
\* the garbage collector is exactly what decodeItem dropped of the tiles it decoded,
\* which is nothing in a grid of single pictures that decode.
AllReleased ==
    result # "none" => held = UNION {Dropped(i) : i \in {j \in Tiles : used[j] # NoConfig}}

\* decodeTiles returns for every grid: no helper waits for a canvas for ever.
Terminates == <>(result # "none")
=============================================================================
