SPECIFICATION FairSpec
CONSTANTS
  Ids = {a}
  Files = {f1}
  Dirs = {d0, d1}
  DataDir = d0
  Clients = {c1}
  Waiters = {w1}
  Checkers = {k1, k2}
  Tick = tick
  Main = main
  NoThread = nobody
  MaxObjs = 1
  MaxInsts = 3
  StateDir = FALSE
  RequireVPN = TRUE
  MinFreeSpace = FALSE
  SeedDefault = 0
  Rates <- NoRate
  Pieces = 1
  Labels <- NoLabel
  Session0 <- NoneSaved
  Metainfo0 = {}
  Data0 <- NoData
  MaxOps = 3
  MaxTicks = 0
  TickCost = 0
  MaxRestarts = 0
  MaxBytes = 1
  MaxFaults = 0
  Ops = {"add", "pause", "purge", "finish"}
  AddOpts <- PlainAdd
  SetPrios = {"none"}
 
PROPERTIES SwitchesSettle
