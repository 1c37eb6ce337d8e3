----------------------------- MODULE MCChannel -----------------------------
\* Two threads share channel c1, as in redeem; a third has c2 to itself, as in mine.
EXTENDS Channel, TLC
CONSTANTS t1, t2, t3, c1, c2
MCChannelOf == (t1 :> c1) @@ (t2 :> c1) @@ (t3 :> c2)
=============================================================================
