SPECIFICATION Spec
CONSTANTS
  Ids = {a}
  Files = {f1}
  Dirs = {d0, d1}
  DataDir = d0
  Clients = {c1, c2}
  Waiters = {w1}
  Checkers = {k1, k2}
  Tick = tick
  Main = main
  NoThread = nobody
  MaxObjs = 1
  MaxInsts = 3
  StateDir = FALSE
  RequireVPN = FALSE
  MinFreeSpace = FALSE
  SeedDefault = 0
  Rates <- NoRate
  Pieces = 1
  Labels <- NoLabel
  Session0 <- NoneSaved
  Metainfo0 = {}
  Data0 <- NoData
  MaxOps = 3
  MaxTicks = 0
  TickCost = 1
  MaxRestarts = 0
  MaxBytes = 0
  MaxFaults = 0
  Ops = {"add", "recheck", "purge"}
  AddOpts <- PlainAdd
  SetPrios = {"none"}
INVARIANTS HashingIsLive
