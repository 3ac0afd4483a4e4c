---------------------------- MODULE MCWaveEncode ----------------------------
\* Constants of WaveEncode for TLC: at most two blocks of the picture fail.
EXTENDS WaveEncode

MCBadCTUs == {{}} \cup {{a, b} : a \in CTBs, b \in CTBs}
=============================================================================
