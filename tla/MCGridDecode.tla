---------------------------- MODULE MCGridDecode ----------------------------
\* Constants of GridDecode for TLC: two configurations in alternation, of which the
\* second may be refused, and at most two tiles that fail, look different or hold
\* another number of pictures than one.
EXTENDS GridDecode

Plain(i) == [item |-> "ok", cfg |-> 1 + (i % 2), units |-> "ok", pics |-> 1, shape |-> 1]
Odd(i)   == {[Plain(i) EXCEPT !.shape = 2],
             [Plain(i) EXCEPT !.item = "unsupported"],
             [Plain(i) EXCEPT !.units = "invalid"],
             [Plain(i) EXCEPT !.pics = 0],
             [Plain(i) EXCEPT !.pics = 2]}

MCGrids ==
    {[covers |-> c, sets |-> <<"ok", s>>,
      tile |-> [[i \in Tiles |-> Plain(i)] EXCEPT ![a] = x, ![b] = y]] :
        c \in BOOLEAN, s \in {"ok", "unsupported"}, a \in Tiles, b \in Tiles,
        x \in UNION {Odd(i) \cup {Plain(i)} : i \in Tiles},
        y \in UNION {Odd(i) \cup {Plain(i)} : i \in Tiles}}
=============================================================================
