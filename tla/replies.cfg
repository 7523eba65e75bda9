\* One worker, a client that reads late or never and may break off.
CONSTANTS
  c1 = c1
  w1 = w1
  Clients = {c1}
  Workers = {w1}
  home <- OneHome
  Lines <- FewLines
  MaxLines = 2
  NodeCount = 3
  UIntMod = 16
  ParamMod = 4
  Room = 3
SPECIFICATION SpecReplies
CHECK_DEADLOCK FALSE
INVARIANTS
  RepliesTypeOK
  RepliesArrive
  NoHoles
  BorrowedReturned
PROPERTIES
  LinesWorkedOff
