SPECIFICATION FairSpec
CONSTANTS
  a0 = a0
  a1 = a1
  b1 = b1
  a2 = a2
  a3 = a3
  f = f
  Coin = {a1, a3, f}
  MaxKey = 3
  Foreign = Foreign
  KeyOf <- MCKeyOf
  MaxLookAhead = 1
  MaxImported = 1
  NoFile = NoFile
  Torn = Torn
INVARIANTS TypeOK ListsOnlyWhatExists KeysAreUsedInOrder
PROPERTIES RestoreFindsWithinReach CommandsEnd
