\* All command lines of up to two arguments, files of every kind, threads and event bases that fail.
CONSTANTS
  Invocations <- CommandLines
  Texts <- Files
  Counts = {0, 3}
  Server = Server
  Absent = Absent
  MayFail = TRUE
SPECIFICATION Spec
CHECK_DEADLOCK FALSE
INVARIANTS
  TypeOK
  ServesAsConfigured
  SoundFileServes
PROPERTIES
  StartEnds
