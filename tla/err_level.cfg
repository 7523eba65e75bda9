\* The same: the level err, which setting.h lists, is not what such a file gets.
CONSTANTS
  Invocations <- CommandLines
  Texts <- Files
  Counts = {0, 3}
  Server = Server
  Absent = Absent
  MayFail = TRUE
SPECIFICATION Spec
CHECK_DEADLOCK FALSE
INVARIANTS
  LevelAsDocumented
