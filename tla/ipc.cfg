SPECIFICATION Spec
CONSTANTS
  c1 = c1
  Clients = {c1}
  Gos = {g1, g2}
  Owner <- OneClient
  Kinds = {"change", "search", "shutdown"}
  Acts = {"timeout", "close"}
  Buf = 1
  MaxCalls <- OneEach
SYMMETRY Symmetry
INVARIANTS TypeOK AnswerMatches ReplySlotFree ShutdownAnswered
 
CHECK_DEADLOCK FALSE
