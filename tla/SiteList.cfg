SPECIFICATION Spec
CONSTANTS
  Names = {a, b, c}
  States = {"absent", "disabled", "enabled"}
  Filters = {"all", "enabled"}
  Limit = 2
  Slots = {s1, s2}
  NoName = NoName
  Null = Null
SYMMETRY Symmetry
CHECK_DEADLOCK FALSE
INVARIANT SelectionIsTheVisitors
PROPERTY SelectionKept
