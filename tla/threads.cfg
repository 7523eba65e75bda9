\* The same: a thread that does not start gets connections nevertheless.
CONSTANTS
  Invocations <- CommandLines
  Texts <- Files
  Counts = {0, 3}
  Server = Server
  Absent = Absent
  MayFail = TRUE
SPECIFICATION Spec
CHECK_DEADLOCK FALSE
INVARIANTS
  AssertedThreads
