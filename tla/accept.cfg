\* Four clients for three places, two workers: the limit is reached, passed by and released,
\* clients leave while a connection is judged and placed, and the accept thread and a worker
\* change the same count.
CONSTANTS
  c1 = c1
  c2 = c2
  c3 = c3
  c4 = c4
  Conns = {c1, c2, c3, c4}
  WorkerCount = 2
  MaxConn = 3
  CountMod = 2
SYMMETRY Symmetry
SPECIFICATION SafeSpec
INVARIANTS
  TypeOK
  ConnLimit
  NoSpuriousRefusal
  LeastLoaded
  CountExact
PROPERTIES
  AdmissionSafe
