------------------------------- MODULE MCBlocks -------------------------------
\* The blocks of a picture, for TLC: a behaviour is the loop filters of a picture,
\* the edges they see, or the syntax of a coding tree block or a transform block.
EXTENDS FilterBands

\* Pictures of three to five rows of edges and two columns of blocks, with chroma
\* that is and is not subsampled vertically, edges left out, rows that bypass the
\* filters, and blocks with and without an offset.
Block(at, t) == [b \in 0 .. 5 |-> IF b = at THEN "off" ELSE IF b = at + 1 THEN "band" ELSE t]
MCPictures ==
    {[rows |-> r, cols |-> 2, ctb |-> 2, sub |-> s, comps |-> c, off |-> o, keep |-> k,
      sao |-> [x \in {0, 1} |-> IF x = 0 THEN Block(at, t) ELSE [b \in 0 .. 5 |-> IF b = at + 2 THEN "down" ELSE "off"]]] :
        r \in {3, 5}, c \in {{0}, {0, 1}}, s \in {1, 2}, o \in {{}, {<<TRUE, 1>>, <<FALSE, 2>>}},
        k \in {{}, {1}}, at \in {0, 3}, t \in {"across", "down"}}

VARIABLES part, area, coded, blk, field, cut, slice, ctbSliceAddr, sliceLF,
          stream, enc, work, saved, bits, dec, todo, sequel, nth, w, symbols, r

edgeVars == <<area, coded, blk, field, cut, slice, ctbSliceAddr, sliceLF>>
syntaxVars == <<stream, enc, work, saved, bits, dec, todo, sequel, nth, w, symbols, r>>

Edges == INSTANCE MCLoopFilters
Syntax == INSTANCE MCBlockSyntax

No == 0
NoBands == pic = (CHOOSE p \in Pictures : TRUE) /\ stage = 1 /\ bands = <<>> /\ plane = No /\ src = No
NoEdges == /\ area = No /\ coded = No /\ blk = No /\ field = No
           /\ cut = No /\ slice = No /\ ctbSliceAddr = No /\ sliceLF = No
NoSyntax == /\ stream = No /\ enc = No /\ work = No /\ saved = No /\ bits = No /\ dec = No /\ todo = No
            /\ sequel = No /\ nth = No /\ w = No /\ symbols = No /\ r = No

MCInit == \/ part = "bands" /\ Init /\ NoEdges /\ NoSyntax
          \/ part = "edges" /\ Edges!Init /\ NoBands /\ NoSyntax
          \/ part = "syntax" /\ Syntax!Init /\ NoBands /\ NoEdges
MCNext == \/ part = "bands" /\ Next /\ UNCHANGED <<part, edgeVars, syntaxVars>>
          \/ part = "edges" /\ Edges!Next /\ UNCHANGED <<part, vars, syntaxVars>>
          \/ part = "syntax" /\ Syntax!Next /\ UNCHANGED <<part, vars, edgeVars>>
MCSpec == MCInit /\ [][MCNext]_<<part, vars, edgeVars, syntaxVars>>

DeblockAsSpecified == part = "edges" => Edges!DeblockAsSpecified
InStep == part = "syntax" => Syntax!InStep
SamePrediction == part = "syntax" => Syntax!SamePrediction
ResidualRoundTrip == part = "syntax" => Syntax!ResidualRoundTrip
=============================================================================
