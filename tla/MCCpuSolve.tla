---------------------------- MODULE MCCpuSolve ----------------------------
\* Puzzles that no attempt solves, or those of one nonce that have an even, or
\* an odd, timestamp.
EXTENDS CpuSolve
MCWinningSets ==
  {{}} \cup {{a \in Attempts : a.nonce = n /\ a.stamp % 2 = b} : n \in 0 .. NonceSpace - 1, b \in 0 .. 1}
===========================================================================
