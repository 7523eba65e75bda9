\* One client that connects, leaves and connects again.
CONSTANTS
  c1 = c1
  c2 = c2
  c3 = c3
  c4 = c4
  Conns = {c1}
  WorkerCount = 2
  MaxConn = 2
  CountMod = 4
SPECIFICATION SafeSpec
INVARIANTS
  PeakWithinLimit
