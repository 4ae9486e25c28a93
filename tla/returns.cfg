SPECIFICATION FairSpec
CONSTANTS
  Ids = {a}
  Files = {f1}
  Dirs = {d0}
  DataDir = d0
  Clients = {c1, c2}
  Waiters = {w1}
  Checkers = {k1}
  Tick = tick
  Main = main
  NoThread = nobody
  MaxObjs = 1
  MaxInsts = 3
  StateDir = TRUE
  RequireVPN = FALSE
  MinFreeSpace = FALSE
  SeedDefault = 0
  Rates <- NoRate
  Pieces = 1
  Labels <- NoLabel
  Session0 <- OneSaved
  Metainfo0 = {a}
  Data0 <- NoData
  MaxOps = 2
  MaxTicks = 0
  TickCost = 1
  MaxRestarts = 0
  MaxBytes = 0
  MaxFaults = 0
  Ops = {"move", "purge", "remove", "recheck"}
  AddOpts <- PlainAdd
  SetPrios = {"none"}
PROPERTIES CallsReturn
