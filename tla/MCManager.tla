----------------------------- MODULE MCManager -----------------------------
\* Outputs o1 and o2 of script s1, o3 of s2.  With MinProfitability = 2, o1
\* alone pays for its job, o1 with o2 too, o2 alone does not; o3 does.  With
\* MinProfitability = 3, o3 is just worth it: a job of the book that no worker
\* selects, beside that of o1, which is worth more.
EXTENDS Manager, TLC
CONSTANTS w1, w2, o1, o2, o3, s1, s2, k1, k2
MCPuzzles == Script \X Key
MCChannelOf == [t \in Thread |-> t]
MCScriptOf == [o \in Outpoint |-> IF o = o3 THEN s2 ELSE s1]
MCValue == [o \in Outpoint |-> CASE o = o1 -> 4 [] o = o2 -> 1 [] o = o3 -> 6]
MCDifficulty == [s \in Script |-> IF s = s1 THEN 1 ELSE 2]
=============================================================================
