SPECIFICATION Spec
CONSTANTS
  a0 = a0
  a1 = a1
  b1 = b1
  a2 = a2
  a3 = a3
  f = f
  Coin = {a0, a1, b1}
  MaxKey = 2
  Foreign = Foreign
  KeyOf <- MCKeyOf
  MaxLookAhead = 1
  MaxImported = 0
  NoFile = NoFile
  Torn = Torn
INVARIANTS CanBeReadBack
