\* Two clients, each with a worker of its own, every kind of line, every way to cut them
\* into reads.
CONSTANTS
  c1 = c1
  c2 = c2
  w1 = w1
  w2 = w2
  Clients = {c1, c2}
  Workers = {w1, w2}
  home <- TwoHomes
  Lines <- AllLines
  MaxLines = 4
  NodeCount = 3
  UIntMod = 16
  ParamMod = 4
SYMMETRY Symmetry
SPECIFICATION Spec
CHECK_DEADLOCK FALSE
INVARIANTS
  TypeOK
  MessageWaits
  RequestsAsSent
  PoolBalance
  CountersTell
  ServerOkBounds
