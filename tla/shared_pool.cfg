\* The pool that server_init makes in this build: no lock, and two threads that use it.
CONSTANTS
  Threads = {t1, t2}
  Objects = {o1, o2, o3}
  Shells = {s1, s2, s3}
  Null = Null
  CountMod = 8
  Limits <- OneLimit
SPECIFICATION Spec
SYMMETRY Symmetry
INVARIANTS
  OneOwner
