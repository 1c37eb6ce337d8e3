------------------------------ MODULE MCRedeem ------------------------------
\* Three threads share the channel of the one job.
EXTENDS Redeem, TLC
CONSTANTS t1, t2, t3, o1, o2
MCPuzzles == Script \X Key
MCChannelOf == [t \in Thread |-> chan]
=============================================================================
