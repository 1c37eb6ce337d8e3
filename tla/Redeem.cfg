SPECIFICATION RedeemFairSpec
CONSTANTS
  t1 = t1
  o1 = o1
  o2 = o2
  t2 = t2
  t3 = t3
  chan = chan
  job = job
  Thread = {t1, t2, t3}
  Chan = {chan}
  ChannelOf <- MCChannelOf
  Script = {job}
  key = key
  Key = {key}
  Puzzles <- MCPuzzles
  NoPuzzle = NoPuzzle
  Outpoint = {o1, o2}
  out = o1
  NoJob = NoJob
  Rests = FALSE
  SpuriousWakeups = TRUE
INVARIANTS RedeemTypeOK SendsAtMostOnce
PROPERTIES LeavesOnlyWhenSettled NoWorkAfterClose SolutionEndsRedeem ImplementsChannel
CHECK_DEADLOCK FALSE
