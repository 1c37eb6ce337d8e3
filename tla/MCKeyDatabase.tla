--------------------------- MODULE MCKeyDatabase ---------------------------
\* A WIF has one key, an HD key one for each index.  Foreign is somebody else's.
EXTENDS KeyDatabase
CONSTANTS Foreign
MCSource == {[n \in 0 .. MaxGiven + MaxLookAhead |-> 1], [n \in 0 .. MaxGiven + MaxLookAhead |-> n]}
MCContract == {1, Foreign}
=============================================================================
