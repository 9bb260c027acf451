SPECIFICATION Spec
CONSTANTS
  Tags = {t1}
  NoTag = NoTag
  Null = Null
  MaxTurns = 2
CHECK_DEADLOCK FALSE
INVARIANTS TypeOK SettledViewsAgree
PROPERTIES OptimisticHolds BusyEnds
