---------------------------- MODULE MCWaveDecode ----------------------------
\* Constants of WaveDecode for TLC: every segment with at most two marks, a
\* mark being a place that does not decode or an end_of_slice_segment_flag.
\* One mark ends a good segment; two also end it twice, end it behind a fault,
\* or make two rows fail at once.
EXTENDS WaveDecode

Marks == ({"start", "subset"} \X RowIds \X {0})
         \cup ({"ctu", "end"} \X RowIds \X ColIds)

Segment(m) ==
    [badStart |-> {k \in RowIds : <<"start", k, 0>> \in m},
     badCTU   |-> {b \in CTBs : <<"ctu", b[1], b[2]>> \in m},
     ends     |-> {b \in CTBs : <<"end", b[1], b[2]>> \in m},
     noSubset |-> {k \in RowIds : <<"subset", k, 0>> \in m}]

MCStreams == {Segment({})} \cup {Segment({x, y}) : x \in Marks, y \in Marks}
=============================================================================
