\* Up to three threads that share a pool with a lock, and one thread with a pool without: limits
\* that differ, so that shells are freed, and equal ones.
CONSTANTS
  Threads = {t1, t2, t3}
  Objects = {o1, o2, o3, o4, o5}
  Shells = {s1, s2, s3, s4}
  Null = Null
  CountMod = 8
  Limits <- TwoLimits
SPECIFICATION SerialSpec
SYMMETRY Symmetry
INVARIANTS
  TypeOK
  ListsSound
  Accounting
  ShellsBounded
PROPERTIES
  ShellsKept
  StoreSafe
