----------------------------- MODULE WaveOrder -----------------------------
(***************************************************************************)
(* What the wavefront promises, whoever runs it and on however many        *)
(* goroutines: the coding tree blocks of a slice segment are reconstructed *)
(* one at a time, each exactly once, and each only when every block        *)
(* available to it (6.4.1 of the standard, hevc/ctu.go) is reconstructed.  *)
(* WaveDecode and WaveEncode implement this module.                        *)
(***************************************************************************)
EXTENDS Integers

CONSTANTS
    Rows,   \* coding tree block rows of the slice segment
    Cols    \* coding tree blocks in a row

RowIds == 0 .. Rows - 1
ColIds == 0 .. Cols - 1
CTBs   == RowIds \X ColIds

VARIABLE recon  \* the blocks whose samples, modes and slice address are written

-----------------------------------------------------------------------------
\* The four blocks a coding tree block predicts from: left, above-left, above
\* and above-right, as far as the segment has them.
Neighbours(b) ==
    {n \in CTBs : \/ n[1] = b[1] /\ n[2] = b[2] - 1
                  \/ n[1] = b[1] - 1 /\ n[2] \in b[2] - 1 .. b[2] + 1}

Reconstruct(b) ==
    /\ b \notin recon
    /\ Neighbours(b) \subseteq recon
    /\ recon' = recon \cup {b}

Init == recon = {}
Next == \E b \in CTBs : Reconstruct(b)
Spec == Init /\ [][Next]_recon
=============================================================================
