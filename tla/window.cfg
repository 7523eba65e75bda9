CONSTANTS
  tic_per_sec = 2
  tic_max_cnt = 2
  MaxTime = 9
  MaxCalls = 5
SPECIFICATION Spec
INVARIANTS
  TypeOK
  SurvivorsCounted
  WindowExact
