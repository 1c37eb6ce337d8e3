SPECIFICATION FairSpec
CONSTANTS
  t1 = t1
  t2 = t2
  t3 = t3
  c1 = c1
  c2 = c2
  Thread = {t1, t2, t3}
  Chan = {c1, c2}
  ChannelOf <- MCChannelOf
  Puzzles = {p1, p2}
  NoPuzzle = NoPuzzle
  Rests = TRUE
  SpuriousWakeups = TRUE
INVARIANTS NoLostWakeup
PROPERTIES ClosedEndsThreads PosedPuzzleReachesThreads ImplementsMailbox
