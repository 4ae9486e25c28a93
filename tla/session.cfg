SPECIFICATION Spec
CONSTANTS
  Ids = {a}
  Files = {f1}
  Dirs = {d0, d1}
  DataDir = d0
  Clients = {c1}
  Waiters = {w1, w2, w3}
  Checkers = {k1, k2}
  Tick = tick
  Main = main
  NoThread = nobody
  MaxObjs = 2
  MaxInsts = 3
  StateDir = TRUE
  RequireVPN = FALSE
  MinFreeSpace = FALSE
  SeedDefault = 1
  Rates <- NoRate
  Pieces = 1
  Labels = {"", "films"}
  Session0 <- OnePaused
  Metainfo0 = {a}
  Data0 <- NoData
  MaxOps = 2
  MaxTicks = 1
  TickCost = 1
  MaxRestarts = 0
  MaxBytes = 0
  MaxFaults = 0
  Ops = {"pause", "prio", "label", "remove", "add", "stream", "seed", "finish"}
  AddOpts <- PlainAdd
  SetPrios = {"none"}
INVARIANTS SessionFresh
 
