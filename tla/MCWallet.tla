------------------------------ MODULE MCWallet ------------------------------
\* A coin for each key, a second one for key 1, and one for a foreign key.
EXTENDS Wallet, TLC
CONSTANTS a0, a1, b1, a2, a3, f
MCKeyOf == [c \in Coin |->
  CASE c = a0 -> 0 [] c \in {a1, b1} -> 1 [] c = a2 -> 2 [] c = a3 -> 3 [] c = f -> Foreign]
=============================================================================
