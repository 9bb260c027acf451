SPECIFICATION Spec
CONSTANTS
  Files = {f, g}
  External = {g}
  Contents = {c1, c2}
  Template = c1
  Blank = Blank
  NoFile = NoFile
  Absent = Absent
  Slots = {1, 2}
  MaxTasks = 3
  MaxEdits = 1
  MaxOther = 1
INVARIANTS TypeOK CleanBufferIsBase
PROPERTIES SavesAreInformed SaveEnds
CHECK_DEADLOCK FALSE
