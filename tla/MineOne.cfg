SPECIFICATION ManagerSpec
CONSTANTS
  w1 = w1
  w2 = w2
  o1 = o1
  o2 = o2
  o3 = o3
  s1 = s1
  s2 = s2
  Thread = {w1}
  Chan = {w1}
  ChannelOf <- MCChannelOf
  k1 = k1
  k2 = k2
  Script = {s1, s2}
  Key = {k1}
  Puzzles <- MCPuzzles
  NoPuzzle = NoPuzzle
  Outpoint = {o1, o2, o3}
  NoJob = NoJob
  Rests = TRUE
  SpuriousWakeups = TRUE
  ScriptOf <- MCScriptOf
  Value <- MCValue
  Difficulty <- MCDifficulty
  MaxDifficulty = 1
  MinProfitability = 2
  MinValue = 1
  Websockets = TRUE
  RefreshCount = 3
INVARIANTS ManagerTypeOK ScriptsIndex NeverTooDifficult
CHECK_DEADLOCK FALSE
