# TLA+ models of gen2brain/h265

The repository is an HEVC codec and a HEIF container in Go: `src/hevc` decodes and encodes the
bitstream, `src/heic` reads and writes the files around it. This directory holds TLA+ models of
its control logic, the TLC configurations that check them on small instances, and TLAPS proofs of
what matters most for every instance. `PROJECT.json` lists the components, runs, hazards and
theorems, and for every definition the lines of code it stands for.

Check a run with `tlc -config MCWaveDecode.cfg MCWaveDecode`, the proofs with
`tlapm Wave.tla` and `tlapm M.tla` for every module whose name ends in `_proof`.

## 1. Inventory

### The decoder, `src/hevc`

| part | files | state | operations |
|---|---|---|---|
| Decoder driver | decoder.go | parameter sets, the picture in progress (`cur`, `ctu`, `curLsb`, `curOut`), `prevSlic`, `skipRASL`, `seenPicture`, limits | `DecodeNAL`, `Flush`, `Reset`, `decodeSlice`, `finishPicture` |
| Picture buffer | dpb.go | `dpb` entries (picture, reference, long-term, output, latency), `pocState`, `curRPS` | derive the picture order count and the reference picture set, mark, remove, bump, drain, make up what is missing |
| Pictures | picture.go | `refs`, `released`, planes; the pool of free planes | `newPicture`, `acquire`, `release`, `Release`, pool `get` and `put` |
| Slice data | decoder.go, ctu.go | `ctuDecoder`: next block, contexts and two saved copies, predicted QP, scan tables | `decodeSliceData`, `startSubstream`, `codingTreeUnit` |
| Wavefront | wavefront.go | the monitor `wave`: `done`, `ctx`, `err`, `bad`, `end`; one mutex, one condition variable | `await`, `advance`, `saveCtx`, `fail`, `decodeWavefront`, `decodeWaveRow`; `overRows` for the loop filters |
| Headers | headers.go, slice.go, scaling.go | none (parsers return values) | `parseVPS`, `parseSPS`, `parsePPS`, `parseSliceHeader`, tile geometry |
| Framing | nal.go | none | split and marshal Annex B and length-prefixed units, escaping, offset conversion |
| Entropy coding | cabac.go, getbits.go, residual.go | arithmetic decoder registers, contexts, Rice statistics | bins, bypass bins, termination, PCM restarts, Exp-Golomb, residual blocks |
| Block tables | ctu.go, scaling.go | tile scan, z-scan addresses, scaling matrices, kept from picture to picture | `newCTUDecoder`, `buildTileScan`, `buildMinTbAddr`, `available`, `factors` |
| Loop filters | deblock.go, sao.go | block marks, motion field, the copy of a plane | `deblock`, `applySAO`, `boundaryStrength`, `filterEdge` |
| Prediction | mvpred.go, inter*.go, intrapred.go, itransform.go, *.s | none of their own | candidate lists, sample arithmetic |

### The encoder, `src/hevc`

`Encoder` (encoder.go) codes every frame as one intra IDR access unit of one slice; nothing but
scratch memory and the picture's parameters lasts between calls, and `Flush` has nothing to
return. lossyenc.go searches modes and writes the tree, wavefrontenc.go runs its rows through the
same monitor as the decoder's, `sliceRBSP` assembles the substreams and their entry points,
headersenc.go, cabacenc.go, putbits.go, residualenc.go, saoenc.go, deblockenc.go and rdoq.go
write and choose syntax.

### The container, `src/heic`

isobmff.go walks boxes, a file addressed by range (`parse`) or a stream (`parseHeader`), and keeps the
tables of the meta box; heic.go selects items and decodes them with an `itemDecoder` (one
`hevc.Decoder` and the `hvcC` box it was fed); grid.go decodes the tiles of a grid on several
goroutines; sequence.go reads sample tables of image sequences; image.go, transform.go, ycbcr.go
and color*.go turn planes into images; encode.go and gridenc.go write files; exif.go walks
metadata.

### How they interact

* The caller feeds `DecodeNAL` units in decoding order and receives pictures in output order. It
  holds them until `Release`; planes then return to the pool of the decoder that made them. The
  decoder and the buffer hold them as well, which is what the counts are for.
* `decodeSlice` derives the picture order count and the reference set from the slice header and
  from what earlier headers left in `pocState`, makes room, and hands `decodeSliceData` one
  segment at a time. Segments share contexts through `saved`, `depSaved` and `prevSlic`.
* A segment of a picture with `entropy_coding_sync` is decoded by `decodeWavefront` if
  `waveWorkers` allows two goroutines or more; these share planes and tables and meet only in the
  monitor.
* `decodeTiles` has the caller decode the first tile, make the canvas and close `ready`, while
  helpers decode ahead and wait for it; they share one counter, one error and the canvas.

### What is hard, and what makes it right

| component | hard behaviour | correctness |
|---|---|---|
| wavefront | interleavings, errors in one row while others sleep, contexts copied outside the lock | reconstruction order, context handoff after two blocks, each block once, no lost wakeup, one outcome, termination |
| grid | helpers ahead of the canvas, tiles failing in any order | canvas set before use, each tile once, own parameter sets, one outcome, every returned picture released, termination |
| decoder and buffer | lost and damaged units, releases, flushes and resets at any time, limits that change | exact holds, no shared planes, every picture output once and in order, declared limits, `Corrupt` set exactly when it should be |
| slice data | dependent segments, tiles and rows restarting the decoder, lost and repeated segments | every block parsed with the contexts, QP prediction and substream it was coded with, or the picture is marked |
| framing | emulation prevention across borders, two kinds of offsets | both framings round trip, substreams are found where they begin |
| block syntax | flags written by mode search and its undone trials, read by a parser of another shape | every bin read in the context it was written in, the same prediction on both sides |
| loop filters | passes cut into bands, a copy kept from picture to picture, borders of slices and tiles | no race, every edge and offset once and in order, the strengths and borders of the standard |
| entropy coding | carries through held back bits, refills, restarts for PCM | the decoder returns what was encoded |
| parameter sets, slice headers | sets that replace each other, inferred values, headers cut short | whole headers mean what they were written for, accepted ones fit each other |
| tables kept between pictures | rebuilt only when something is found to differ | those of the active parameter sets |
| files | a stream left early, offsets in a box of unknown length, apertures off the chroma grid, tiles over the edge | the configuration promised is the picture decoded, files read back pixel by pixel, transformations as specified |
| image sequences | sample tables in runs, reordering, an alpha track of another length | every frame once, with its own alpha and time |

## 2. Modules

```
WaveOrder            the abstract reconstruction order
  ^ implemented by
Wave <- WaveDecode <- WaveDecode_proof        Wave <- WaveEncode <- WaveEncode_proof
GridDecode <- GridDecode_proof
RefPicSet <- Decoder <- Decoder_proof
FilterBands <- FilterBands_proof              BoxWalk <- BoxWalk_proof

MCBitstream composes    NalFraming <- Bitstream_proof
                        ScanOrder <- SegmentData <- Bitstream_proof
                        Cabac <- Cabac_proof
                        BitStrings <- HeaderSyntax <- SliceSyntax, EncoderHeaders <- Headers
                        PictureTables
                        BoxWalk        HeifFile        Sequence
MCBlocks composes       CodingTree     ScanOrder <- Residual      (MCBlockSyntax)
                        FilterBands
                        EdgeStrength   SliceEdges                  (MCLoopFilters)
```

`MC<module>` holds the constants of `<module>` for TLC; MCBitData those of NalFraming, SegmentData
and PictureTables, MCContainer those of BoxWalk, HeifFile and Sequence. A composed run is a choice: one
component runs, the variables of the others keep a value that says so. They share constants and one
exploration, and none can hide what another does.

**WaveOrder** is the specification the wavefront is held to: a set `recon` of blocks, and one
action that adds a block whose left, above-left, above and above-right neighbours are in it.

**Wave** is the monitor. One critical section of `wave.mu` is one step; the `Broadcast` behind it
is another, because the code sends it after `Unlock`. `await` has three outcomes: the condition
holds, a row has failed, or the goroutine sleeps.

**WaveDecode** is `decodeWavefront` and `decodeWaveRow`, one program counter per goroutine, one
action per piece of code between two synchronisations. `stream` is what the bits say: where blocks
do not parse, substreams do not start, and the end flags are. It is chosen in `Init` and read by
whoever gets there. Contexts are named by origin: `<<k, n>>` is what row k adapted to after n
blocks, so `CtxHandoff` can tell contexts of the wrong moment, row or goroutine.

**WaveEncode** is `encodeWavefront` and `waveRow`; the bits of a substream are a sequence of
symbols, compared with what a decoder will read.

**GridDecode** is `decodeTiles` with the caller, its helpers, the atomic counter, the `ready`
channel, the compare-and-swap of the error, what `itemDecoder` remembers of the parameter sets it fed,
and every picture `decodeItem` collects. It returns the first of an item and drops the others, and drops
all of them when a later unit fails; `Release` is optional (picture.go:52), so these are left to the
garbage collector. `AllReleased` states both halves: what was returned is released whichever way out
each goroutine took, and what is never released is what `decodeItem` dropped, and no more.

**RefPicSet** holds the arithmetic of `derivePOC`, `pocState.update`, `deriveRefPicSet`,
`resolveLongTerm` and `buildRefPicList`. **Decoder** is `hevc.Decoder`: every method is an operator
from one decoder state to the next, a call is one step, and `Deliver`, `Damage`, `Lose`, `Flush`,
`Reset` and `Release` are the actions. A slice covers units of its picture; units stand for coding
tree blocks. `Damage` gives the outcomes a damaged unit can have: a header that does not parse, a
tile grid that does not fit, slice data that stops making sense some units in, perhaps behind its
own end. Ghost fields record what the encoder meant: the access unit of a slice, and the pictures it
was predicted from. They decide nothing in the decoder and let `OutputAsSent` compare.

**ScanOrder** is scan.go with the tile grid and scan of `resolveTileGeometry` and `buildTileScan`. **SegmentData** is the serial loop of
`decodeSliceData` with `startSubstream`, block by block, and `decodeSlice` in front of it; what a
block is parsed with is named by its origin, as in WaveDecode. `CodedWith` is the reference: what
9.3.1 and 8.6.1 make an encoder use, computed from the segments alone.

**NalFraming** holds the framing, escaping and offset code as operators on sequences of bytes; what a
loop does to each byte is a step of its own (`Escaped`, `Unescaped`), the loop a recursive function.

**BitStrings** is what putbits.go appends and getbits.go reads, with the zeros a read behind the end
gives. **HeaderSyntax** and **SliceSyntax** are the parsers as tables: what comes next is a function of
the values read so far, and each section ends with the conditions the code refuses it under.
**EncoderHeaders** is what `Encoder.Encode` writes in front of the blocks. **Headers** reads three
parameter sets and a slice header with the tables, element by element, from this encoder or from
another that uses every tool, whole, cut short or with one bit inverted, and joins them as
`resolveTileGeometry` and `parseSliceHeader` do. The reference is what the writer meant.

**Cabac** is `cabacWriter` and `cabac` with their registers at full width over the tables of the
code: a program of bins, bypass bins, terminations and PCM samples is encoded call by call and then
decoded. The tables are constants, so that the proof says what it needs of them.

**PictureTables** is what `newCTUDecoder` keeps: `scanGeometry` decides whether the scan and address
tables are built again, the identity of the active list whether the scaling matrices are.

**CodingTree** has an encoder that chooses arbitrarily where the code compares costs, so it covers
every choice mode search can make; `save` and `load` bracket trials as in the code. It writes symbols,
a name, a context and a value, and the decoder's half asks for them by name and context. **Residual**
does the same for `encodeResidual` and `decodeResidual`, in the orders of ScanOrder.

**FilterBands** is `deblock` and `applySAO` in bands of `overRows`: a sample's value is the history of
what was done to it, so pictures filtered in different bands can be compared exactly.
**EdgeStrength** is what coding units mark and `boundaryStrength` derives from it, against 8.7.2 taken
from the units themselves. **SliceEdges** is `filterEdge` as deblocking and offset ask it.

**BoxWalk** has both walks of the top level over the same boxes, with the limit `maxHeaderBox` that only
the stream has: `boxBytes` refuses a longer meta or moov box of stated length and gets the beginning of one
that runs to the end of the file. **HeifFile** is a file as its tables
and payloads, written by `Encode` (`Encoded`, from the size of the picture down to every offset in
`metaBox`) or by others, and read by `Decode`, `DecodeConfig`, `RawExif` and `RawXMP`; samples are named
by the place they were cut from, so an image says where each of its pixels comes from. **Sequence** is
`layout`, `delta` and `loopCount`, and `decodeSequence` sample by sample over a decoder that holds
pictures back.

Abstract throughout: samples and coefficients beyond where they come from, logging, and syntax
elements no control depends on.

## 3. Runs

| run | instance | shows |
|---|---|---|
| `wave_decode` | 4 rows, 3 columns, 3 goroutines, every segment with up to two faults or ends | `TypeOK`, `CtxHandoff`, `DecodedOnce`, `NoLostWakeup`, `Outcome`, the refinement `ImplementsOrder`, and `Terminates` |
| `wave_encode` | 4 rows, 3 columns, 3 goroutines, up to two failing blocks | the same order and handoff; `SubstreamsComplete`: a picture is returned exactly if no block fails, with every substream whole; `Terminates` |
| `grid_decode` | 4 tiles, 2 helpers, 2 configurations of which one may be refused, up to two tiles that fail, have another shape, no picture or two | `CanvasSet`, `OneOwner`, `OwnParameters`, `Outcome`, `AllReleased`, `Terminates` |
| `decoder_dpb` | 7 streams, pool of 2, 2 faults, 1 Flush or Reset, any releases | `HoldsExact`, `NoAlias`, `OutputOnce`, `OutputOrder`, `WithinLimits`, `OutputAsSent` |
| `bitstream` | one of eight components, see below | `UnitsAsWritten`, `ParsedAsCoded`, `BinsAsCoded`, `HeadersAsWritten`, `AcceptedIsUsable`, `AvailabilityAsSpecified`, `ScalingAsSpecified`, `ConfigAgrees`, `FilesReadBack`, `DisplayedAsSpecified`, `FramesAsCoded` |
| `blocks` | one of five components, see below | `NoRace`, `FilteredAsEncoded`, `DeblockAsSpecified`, `InStep`, `SamePrediction`, `ResidualRoundTrip` |
| `decoder_corrupt` | two sequences of two pictures, one fault | violates `CorruptIsFlagged` |
| `tiles_and_rows` | two tile columns with wavefronts | violates `ParsedAsCoded` |
| `sao_slices` | pictures of up to three slices | violates `SaoAcross` |
| `persistent_rice` | eight blocks in a row of another encoder | violates `PersistentRiceApplied` |
| `scaling_444` | scaling lists of 4:4:4 | violates `ScalingAsSpecified` |
| `stale_scan` | two sizes of as many coding tree blocks | violates `AvailabilityAsSpecified` |

### Why the bounds are enough

* Wavefront: three columns have a first, an inner and a last block, and two are where the handoff
  and the clipped lag meet; four rows over three goroutines make one goroutine decode two rows,
  with rows of others between them. Two marks end a segment properly, end it twice, end it behind a
  fault, or fail two rows at once.
* Grid: two helpers and the caller race for four tiles, so helpers wait, decode ahead, reuse a
  decoder for another configuration and run past the end of the counter. A tile of two pictures, and one
  that fails behind its first, are the two ways `decodeItem` drops some.
* Decoder: `MaxFaults` and `MaxCalls` bound how often the transport and the caller interfere.
  The seven streams need, between them: reordering, leading pictures of an open GOP, reference sets
  that keep what the picture does not use, a wrap of the count with a long-term reference over it,
  several slices with different lists, dependent segments, pictures that are not output, a latency
  limit, a change of size and limits, waived output, an end of sequence, a parameter set replaced in
  the middle of a picture and a picture over `FrameSizeLimit`. Two pool slots overflow with them.
* Framing: the substreams hold runs of up to five zeros in front of every byte the escaping looks
  at, at their beginning and across their borders; `MaxUnits` 2 puts one behind the other.
* Segments: one, two and three blocks wide are the cases `top` and the saved contexts distinguish;
  every conforming cut of seven shapes is explored, so segments begin and end at all borders, and
  `MaxFaults` 2 loses or repeats two of them.
* Cabac: every pattern of three calls repeated to thirty, which refills the window several times, from
  states across the table; and PCM restarts at every fill of the window, two of them in a row.
* Headers: every option of this encoder that changes a header, at sizes that need cropping and at the
  limits of a level; a stream of another encoder with sub-layers, timing, long-term pictures, tiles,
  weights and extensions; four short-term sets, and every set
  predicted from them by two distances with every choice of what is used, kept or dropped. A stream of each
  encoder is cut at every byte and has every single bit inverted.
* Tables: `MaxSets` 3 and `MaxPics` 3 switch to another set and back.
* Coding trees: every transform tree of a 16x16 block and the splits of a 32x32 block in four chroma
  formats, blocks of 64 at the four corners of a picture, after neighbours of several depths and modes.
  Residual: one block of every size with levels of one, few and many bits, with and without a first
  coefficient, in every scan; two in a row carry what is kept between blocks.
* Filters: three and five rows of edges over `Threads` 3 with `MinBands` 1 make bands of one row and of
  several, with chroma of both heights and without, so every border between bands occurs; a unit of every partition, split and motion beside
  another is every case of the strength; three slices are enough for one between two others.
* Box walks: every file of up to three boxes out of eleven, two of them longer than `maxHeaderBox`,
  followed by one that is cut, too short, too long, of a 64-bit size only the stream takes for an open
  one, or running to the end, whole or cut by `maxHeaderBox` into a box that is broken or says
  something else.
* Still images: sizes 1, 2, 5 and 6 by 2, 3 and 5 are odd and even, within one tile, over its edge and
  over `MaxLumaSamples` 12, with tiles of 2 and 3 samples that fit the chroma or do not; `MaxGrid` 3,
  `MaxId` 15, `MaxProps` 8 and `MaxOffset` 1200 are reached. Others' files are 4x4 with apertures on
  and off both chroma grids, inside and outside, and every turn and mirror; `FrameSizeLimit` 100 and
  `MaxSide` 50 refuse one of them.
* Sequences: up to five samples in up to four chunks whose lengths differ, ahead of or behind each
  other, in three coding orders, with an alpha track of one or three samples or none, `MaxFrames` 4,
  loops around `MaxLoops` 1, and tables that are cut short at each of their ends.

### Fairness

`wave_decode`, `wave_encode` and `grid_decode` assume weak fairness of every goroutine and of the
caller: the Go scheduler runs every goroutine that can run. Nothing is assumed about mutexes beyond
that, since a critical section is one step, nor about which sleeper runs first. The other models
are sequential and state safety only.

`decoder_dpb`, `bitstream`, `blocks` and the runs that find violations have deadlock checking off,
because there the input simply ends; the concurrent models check for deadlock.

### Disagreements found

* `decoder_corrupt`. The package comment says a picture predicted from a reference that never came
  has `Corrupt` set. References are found by picture order count alone. If the IDR of a second
  sequence is lost, its next picture finds the first sequence's picture of the same count and comes
  out unmarked. The same cause lets a slice whose first slice was lost join the picture in progress
  if their low bits agree; `OutputAsSent` therefore asks for the flag in streams whose counts
  differ and that have no dependent segments (field `distinct`), and for exactness of intact streams.
* `tiles_and_rows`. The package comment says what is not implemented is refused. Tiles together with
  wavefronts are accepted, but rows restart only at the picture's edge, so a second row inside a tile
  column is parsed with the wrong contexts and the wrong substream.
* `sao_slices`. The comment of `saoNeighbour` says a sample is left alone when its neighbour is across
  a border that filtering may not cross. `filterEdge` reads the flag of the second block it is given,
  which for deblocking is the later one; for the offset it is the neighbour, which may be the earlier.
* `persistent_rice`. The package comment says everything of the range extensions that is accepted is
  applied. With persistent Rice adaptation the parameter is still capped at 4, and blocks that skip the
  transform share the statistics of the others.
* `scaling_444`. 32x32 chroma blocks, which only 4:4:4 has, are scaled with the luma lists of their size
  instead of those 7.4.5 derives from the 16x16 lists.
* `stale_scan`. `scanGeometry` is "everything the tile scan and the z-scan address table are built from",
  but the address table also depends on the picture's size in minimum transform blocks. A sequence
  whose pictures are as many coding tree blocks wide and high keeps the table of the one before.

Three more are worth knowing, without a run of their own:

* The wavefront refuses a segment that declares more entry points than rows it uses, while the serial
  loop accepts the end flag in any substream. Such a segment does not conform.
* `decodeItemImage` clips alpha, which has no chroma grid, where it may have to leave the picture
  alone, so a picture with alpha and an aperture off its chroma grid is refused as unsupported.
  `DisplayedAsSpecified` speaks of what is shown.
* The comment of `boxBytes` says it reads a whole box payload, refusing one too large to be a header. It
  refuses a stated length only: a box that runs to the end of the file is cut at `maxHeaderBox`
  (isobmff.go:371, 394) and parsed as if it were whole, so `DecodeConfig` may see less of it than `Decode`.
  `ConfigAgrees` promises nothing of such a file.

## 4. Proofs

Each theorem holds for every value of the constants its assumption allows, and each rests on an
inductive invariant that TLC checked on the run of its module before it was proved, but for that of
Cabac_proof, which speaks of histories TLC cannot enumerate, and that of NalFraming in Bitstream_proof,
which only says that the units written are those given. A `_proof` module
has, for each invariant, a lemma that `Init` implies it and one that a step preserves it, with a step
per action.

**WaveDecode_proof** (`WaveAssumption`, `DecodeAssumption`): any number of rows, columns and goroutines,
any set of segments.

| theorem | states | inductive invariant |
|---|---|---|
| `TypeCorrect` | `[]TypeOK` | `TypeInv`: types, and a goroutine inside `decodeWaveRow` is on a row that exists |
| `ContextHandoff` | `[]CtxHandoff` | `ContextInv`: progress of two implies saved contexts, which are never anything but those after two blocks; `CtxHandoff` alone says nothing about what is saved for a row that has not started |
| `NoTornRead` | `[]NeighboursReady` (no run checks it: `ImplementsOrder` implies it) | `PredictionInv`: progress never runs ahead of reconstruction, and a goroutine in a row has all of the row behind it |
| `DecodesOnce` | `[]DecodedOnce` | `OnceInv`: rows p, p + Workers, ... belong to goroutine p, and nothing ahead of it has been touched; distinct owners need the arithmetic of `OneOwner` |
| `Refinement` | `Spec => ImplementsOrder` | the three above: a step of `CodingTreeUnit` is `Reconstruct`, every other step stutters |
| `NoWakeupIsLost` | `[]NoLostWakeup` | `WakeupInv`: only a goroutine at one of the two waits sleeps, and a sleeper takes no step |
| `OutcomeIsTheSegments` | `[]Outcome` | `OutcomeInv`: a recorded failure is one the bits call for; what a goroutine has behind it parsed and did not end the segment; an end is set by the owner of the last row alone; a row it has left is complete unless something failed. That no row is missing when all have stopped needs that every row is somebody's |

**WaveEncode_proof** (`WaveAssumption`, `EncodeAssumption`): the same order and handoff for the encoder.

| theorem | states | inductive invariant |
|---|---|---|
| `TypeCorrect`, `ContextHandoff`, `Refinement` | `[]TypeOK`, `[]CtxHandoff`, `Spec => ImplementsOrder` | those of the decoder, over `waveRow` |
| `SubstreamsAreComplete` | `[]SubstreamsComplete` | `CompleteInv`: what a goroutine has written is the beginning of what its row should have, symbol by symbol; rows it has left are whole unless something failed; a failure has a block |

**GridDecode_proof** (`GridAssumption`): any number of tiles, helpers and configurations.

| theorem | states | inductive invariant |
|---|---|---|
| `TypeCorrect` | `[]TypeOK` | `TypeInv`: claims are below the counter and distinct, each program point is only reached by who may, and (`CountInv`) the counter passes the number of tiles once for each goroutine that stops, which is what bounds it |
| `CanvasIsSet` | `[]CanvasSet` | `CanvasInv`: who is past `ready` has a canvas or an error to find |
| `TilesHaveOneOwner` | `[]OneOwner` | `CopyInv`: nothing at or above the counter, or in hand, has been copied |
| `ParametersAreOwn` | `[]OwnParameters` | `ParamsInv`: the `hvcC` an `itemDecoder` remembers is the one its decoder holds, unless its goroutine met an error and decodes no more: a refused set may leave it with neither |
| `PicturesAreReleased` | `[]AllReleased` | `ReleaseInv`: what is held is exactly what goroutines between decoding and copying have in hand (`Hands`), which no two share, and what `decodeItem` dropped of the tiles whose units were decoded (`Dropping`), which are never the same; nobody has any in hand when the call returns. It needs `ParamsInv` for which tiles these are |
| `OutcomeIsDetermined` | `[]Outcome` | `OutcomeInv`: all of these, errors are the grid's own, and without one every claimed tile is copied or in hand |

**Decoder_proof** (`DecoderAssumption`): any stream of well formed units, lost or damaged anywhere, any
pool depth, limits and number of calls.

| theorem | states |
|---|---|
| `TypeCorrect` | `[]TypeOK` |
| `HoldsAreExact` | `[]HoldsExact` |
| `PlanesAreNotShared` | `[]NoAlias` |
| `EachIsOutputOnce` | `[]OutputOnce` |
| `SequencesLeaveInOrder` | `[]OutputOrder`: no picture of a sequence leaves behind one of a later sequence |
| `NothingIsOverdue` | `[]WithinLimits`: between calls nothing waits that C.5.2.3 would have let out |

All six follow from one invariant, `DecoderInv`, because a method of the decoder changes counts, planes,
the buffer and the output together and none of the six is inductive alone. It is `Types` (the parameter
sets, header and tables it keeps), `Safe` and `Steady`. `Safe` is `Shape`; `Planes` (a picture has planes exactly
while it is counted, no two the same, none in the pool, the pool without repetition); `Held` (the counts,
for whatever set of pictures the decoder holds); `Distinct` (one place in the decoder, one return);
`Output` (what waits is wanted and was not returned, what was released was returned); and `Due` (nothing
wanted is forgotten). Each method has a lemma that takes `Safe` to `Safe`, and so is used as
it is called: `ReleaseEffect`, `BumpSafe`, `DrainSafe`, `FinishSafe`, `GenerateSafe`, `RoomSafe`,
`OpenSafe`, `SliceSafe`, up to `NalSafe`, `FlushSafe` and `ResetSafe`. In between the invariant
does not hold, which is why `Held` takes the set: `release` is stated for a buffer that has already
let go of what is released, `newPicture` for one that does not know the picture yet.

`Steady` is what the last two theorems need beyond that: everything that waits for output is of the
current sequence, as the picture in progress is (`Sequenced`), what was returned came in order and
none of it is ahead of the current sequence, and the limits last drained to still hold (`Calm`). It
rests on a step relation, `Follows`, by which later sequences number higher and nothing already
returned is moved. Both hold whatever is lost or damaged.

Loops (the pool, bumping, filling gaps) are recursive functions over numbers. That their
equations hold, and induction over them, is proved in set form from the well-foundedness of the natural
numbers: the set of counterexamples has no least element.

It also proves `PocRecovered`: for every lsb range, `derivePOC` returns the coded count
whenever that is at most half the range ahead of, or less than half behind, the count it is derived
from. It is what bounds the damage a lost picture does to the counts of those after it.

**FilterBands_proof** (`FilterAssumption`): any number of goroutines, minimal band, picture, subsampling,
choice of edges and of offsets.

| theorem | states | inductive invariant |
|---|---|---|
| `BandsDoNotRace` | `[]NoRace` | `TypeInv`: the bands are those `overRows` cuts and each goroutine is inside its own |
| `PicturesAreFilteredAlike` | `[]FilteredAsEncoded` | `FilterInv`: a sample has the encoder's value behind the pass if a unit that writes it is done, and the one in front of it if not (`PlaneInv`); what a goroutine has read is from in front of the pass (`GotInv`); the copy has all its readers compare (`SrcInv`) |

They rest on the geometry of the code: the bands do not meet and leave no unit out (`BandsAre`, from
multiples of `chunk`), an edge of one row writes no line another reads (`EdgesApart`), each sample is
in exactly one coding tree block (`CtbIsOne`, `CtbExists`), and the rows `saoPlane` copies hold
whatever its blocks compare (`CopyCovers`), which is where the margin of a line is needed.

**BoxWalk_proof** (`BoxAssumption`: a file is a sequence of boxes, each with its type and sizes, and only the
last can lack an end of its own): files of any length, whatever their boxes say, however long they
are and however their sizes end.

| theorem | states | inductive invariant |
|---|---|---|
| `OneConfiguration` | `[]ConfigAgrees` | `WalkInv`: a walk that goes on knows the boxes behind it, only the first of a kind (`Knows`), and a file that parses has no box that is cut, foreign or broken where it counts (`Sound`); for the stream, if no box it would buffer is cut (`Uncut`) |

`Sound` is why `parseHeader` does not fail on a file that `parse` accepts, if the first meta and moov boxes are
within `maxHeaderBox` (`Small`). One of stated length beyond it is refused or never reached, so a header
that is known still has the configuration of `parse`; one that runs to the end of the file is cut
there, and nothing is said of what `DecodeConfig` makes of it. That both end with one configuration needs the type box ahead of what it describes (`Ordered`): `parseHeader` then leaves early
only at the first meta box, whose item decides (`EarlyConfig`), and a track counts only if it is
already known.

**Cabac_proof** (`TableAssumption`: both values of a bin keep a part of every range the coder can have,
and states are 7 bits; `ProgramAssumption`: a program is calls of known kinds over known contexts, and
samples are bits): programs of any length, so any number of carries, refills and restarts.

| theorem | states |
|---|---|
| `ArithmeticReadsBack` | `[]BinsAsCoded` |
| `RegistersAreInRange` | `[]RegistersInRange` (no run checks it: it is what `Inv` says of the registers between calls, which the code relies on without a test) |

`Inv` says there is a history: the encoder's registers, output and contexts before each call, each
linked to the next by that call (`History`, `Link`). The bits written are those at its end, so every earlier
output is a prefix of them. Two inductions meet in it:

* Backwards from the end of the code, `Fits`: the number written, read from the place the encoder had
  reached at a call, lies within the interval it had there. It holds when the code is flushed
  or samples follow, and each call hands it to the one before, because narrowing only takes parts of the
  interval away and `renorm`, `putBit` and held back bits only scale it (`Backward`, with a step for each
  kind of call and one for each doubling).
* Forwards, `Listening`: between calls the decoder's `low` is 2^17 times the distance of the code from
  the encoder's `low`, with the bits fetched ahead and the marker bit below it (`Follows`), and its contexts are
  those of the history. So a comparison of the decoder is the choice of the encoder, the marker reaches
  the refill exactly when the bits run out, and `pcmOffset` is the byte the samples begin at.

**Bitstream_proof**, of NalFraming (`UnitsGiven`: a header is a sequence of bytes whose last is not zero, and so is
each of one or more substreams. A header ends in `byte_alignment`, a substream in the stop bit of
`finish`, each with a bit set; `escapedSizes` relies on it: "A header ends on a set bit, so the run of
zeros never carries into the data."): units of any bytes, any number of them.

| theorem | states |
|---|---|
| `UnitsArriveWhole` | `[]UnitsAsWritten`: both framings and the entry points |

Here the work is in the operators. Escaping counts the zeros at the end of what it has written, two at
most, and nothing in it looks like a start code (`Good`, byte by byte); unescaping has, at each place
escaping had reached, the bytes in front of it and the places of what was put in (`Undone`), so the
round trip is the identity (`RoundTrip`). The prevention bytes split at each offset into those in front
and those behind (`EpbSplit`), which makes `RBSPOffset` and `NALOffset` what they count (`OffsetsAre`). Behind
a header that ends on a set bit the data is escaped as if it were alone (`Splice`), so the sizes add up
to where the substreams begin (`StartsAre`). A written unit is clean and does not end in a zero (`NalIs`): the next
start code is the one in front of the next unit, and stripping zeros takes that of the long start
code and no more (`AnnexBBack`); `HVCCBack` needs only the lengths. The loops over bytes, substreams
and units are recursive functions; their equations, and induction forwards and
backwards over them, are proved in set form, as in Decoder_proof.

**Bitstream_proof**, of SegmentData (`ShapesGiven`: columns and rows of tiles are sequences of positive
sizes): pictures of any size, every conforming cut into segments, any number of them lost or repeated.

| theorem | states | inductive invariant |
|---|---|---|
| `SegmentsParseAsCoded` | `OneColumn => (DataSpec => []ParsedAsCoded)` | `SegmentsInv` |

`OneColumn` says that a picture with wavefronts has one column of tiles; without it the property is
false, as `tiles_and_rows` shows. `SegmentsInv` says of a picture that is not marked that nothing is decoded
yet (`Fresh`) or everything in front of `nextCTU` is read as it was coded and nothing behind it
(`DecodedUpTo`): within a segment, its header, addresses, contexts, quantiser and count of substreams
are those of the block to come (`InSegment`); between two, what was left for a dependent segment is that of
the last block (`Between`); and what is saved for the row below is that of its second block, as long as a
block of the tile may ask for it (`SavedFor`). It needs that segments partition the picture
(`SegmentsArePart`), that one column of tiles makes the tile scan the raster scan and each tile an interval
of it (`ShapesScan`), and what slices are (`SliceStartIs`, `SliceEndIs`). The step that is not obvious is
`DependentSyncs`: a dependent segment at the start of a row always finds the row above available, since
its slice may not begin within that row without ending there; so the code, which at such a segment would
go on from the block before instead of restarting, never has to. `SyncAsSpecified` is that comparing
`top` with `sliceAddrRs` is the availability of 6.4.1.

Model-checked only:

* Liveness (`Terminates` of three modules): fairness and ENABLED are out of the prover's reach.
* `Decoder.OutputAsSent`: it compares the decoder with what an encoder meant, order of counts
  and flags included, and holds of streams that keep to their declared limits and refer to pictures
  that were sent. That is a property of whole streams, which the constants list and no assumption states.
* `MCBitstream.*` but `ConfigAgrees`, `BinsAsCoded`, `UnitsAsWritten` and `ParsedAsCoded`, and what `blocks` checks of EdgeStrength,
  SliceEdges, CodingTree and Residual. What the folds and recursive functions of headers, scans, coding
  trees and files compute is induction over data: the library's theorems about it cannot be instantiated.
  NalFraming and ScanOrder's borders are recursive functions so that it could be done in set form.

## 5. What is not modelled

* Samples, transforms, filter taps and colour conversion, in Go or assembly: arithmetic without control
  state, compared with references by the repository's unit and conformance tests.
* Rate control and mode search: they choose among codings that are all correct. In CodingTree the
  choice is arbitrary.
* Merge and AMVP candidates and `scaleMV`: pure derivations that conformance streams exercise. The
  syntax of inter coding units and of quantiser deltas has no writer in this repository to compare with.
* The weights derived from the elements of `parsePredWeightTable`, `initContexts`, and the rate
  estimates of the coder.
* Bytes of boxes below the top level, items of several extents and items in idat, thumbnails, sample
  depths, and the registration with `image`, which forwards brands to other packages.
* The directories of Exif: `exifReader` checks every offset against the payload.
* Allocation and the layout of scratch memory, except the picture pool.
* References of another size or format than the picture that uses them, after the IDR that changed it
  was lost: `motionCompensate` reads each with its own stride and size, and sample reads are not
  modelled.
* Files with a second ftyp box, or one behind what it describes: `parseHeader` may stop before it.
  `TypeFirst` leaves them out of `ConfigAgrees`, since 14496-12 does not allow them.
* Slices and in-band parameter sets among the units of an `hvcC` box or of an hvc1 item, which 14496-15
  does not allow: in GridDecode a box holds parameter sets, and an item none.
* Slices in the availability PictureTables derives: its pictures are one slice, and the blocks asked for lie
  inside. SegmentData and SliceEdges have the slices.
* The `edges` map that the mode search of the encoder saves and restores with its other state: CodingTree
  has what syntax and prediction read, and EdgeStrength takes the edges of a finished tree.
* Composition offsets of sequences: the code takes the delays of frames in output order from stts.

## 6. Plan

1. **Residual**: that the levels of a block are read as they were written, with the folds over
   coefficients and sub-blocks turned into recursive functions as in NalFraming.
2. **PictureTables**: that `minTbAddrZs` and the tile scan give the availability of 6.4.1 for every size,
   from the scan lemmas of Bitstream_proof for several columns of tiles.
