\* Four clients for three places of one worker, whose lock it and the accept thread wait for.
CONSTANTS
  c1 = c1
  c2 = c2
  c3 = c3
  c4 = c4
  Conns = {c1, c2, c3, c4}
  WorkerCount = 1
  MaxConn = 3
  CountMod = 1
SPECIFICATION Spec
PROPERTIES
  Answered
  Released
