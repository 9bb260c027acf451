SPECIFICATION Spec
CONSTANTS
  Requests = {r1, r2}
  Main = main
  NoOne = none
  MaxStarts = 3
INVARIANTS
  TypeOK
  StartsOverDeadMaster
  NoOrphanFromRestarts
  ShutdownStopsTracked
PROPERTY NoStartAfterShutdown
