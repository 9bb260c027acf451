SPECIFICATION FairSpec
CONSTANTS
  Requests = {r1}
  Main = main
  NoOne = none
  MaxStarts = 3
PROPERTIES
  DeadMasterRespawned
  ShutdownCompletes
  RequestsComplete
