SPECIFICATION FairSpec
CONSTANTS
  c1 = c1
  Clients = {c1}
  Gos = {g1}
  Owner <- OneClient
  Kinds = {"change"}
  Acts = {"tick", "close", "signal"}
  Buf = 1
  MaxCalls <- OneEach
INVARIANTS DrainedBeforeEngineClose
PROPERTIES CallsEnd CloseEnds EventsCatchUp
CHECK_DEADLOCK FALSE
