----------------------------- MODULE MCNetwork -----------------------------
\* Two outputs of one script and one of another.  One transaction redeems the
\* first of each; o4 is not worth it.
EXTENDS Network
CONSTANTS o1, o2, o3, o4, t1, t2
MCScriptOf == [o \in Outpoint |-> IF o \in {o1, o2, o4} THEN "s1" ELSE "s2"]
MCValue == [o \in Outpoint |-> IF o = o4 THEN 1 ELSE 2]
MCSpentBy == [o \in Outpoint |-> IF o \in {o1, o3} THEN t1 ELSE t2]
=============================================================================
