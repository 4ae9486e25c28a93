SPECIFICATION Spec
CONSTANTS
  Ids = {a, b}
  Files = {f1}
  Dirs = {d0, d1}
  DataDir = d0
  Clients = {c1}
  Waiters = {w1, w2}
  Checkers = {k1, k2}
  Tick = tick
  Main = main
  NoThread = nobody
  MaxObjs = 2
  MaxInsts = 3
  StateDir = TRUE
  RequireVPN = FALSE
  MinFreeSpace = FALSE
  SeedDefault = 0
  Rates <- NoRate
  Pieces = 1
  Labels = {"", "films"}
  Session0 <- FirstSaved
  Metainfo0 = {a}
  Data0 <- NoData
  MaxOps = 1
  MaxTicks = 0
  TickCost = 1
  MaxRestarts = 1
  MaxBytes = 0
  MaxFaults = 1
  Ops = {"add", "label", "prio", "rate", "seed", "pause", "crash", "close"}
  AddOpts <- MixedAdd
  SetPrios = {"none"}
INVARIANTS Restorable
PROPERTIES NothingForgotten
