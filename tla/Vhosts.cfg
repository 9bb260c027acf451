SPECIFICATION Spec
CONSTANTS
  Kinds = {"sites"}
  Names = {a, b}
  Contents = {good, bad}
  Bad = {bad}
  Serverless = {bad}
  None = None
  MaxBatch = 2
INVARIANTS
  TypeOK
  
  RollbackSucceeds
  
  
  TagsHaveFiles
