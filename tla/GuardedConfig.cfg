SPECIFICATION Spec
CONSTANTS
  Names = {a, b}
  Contents = {c, d}
  MaxDepth = 2
  MaxLinks = 4
  Procs = {p1}
  NoOne = none
  Absent = absent
  Trees <- LinkedTrees
  Included = {}
  Bad = {}
  Twisted = FALSE
  Restarts = FALSE
SYMMETRY Symmetry
INVARIANTS
  TypeOK
  
PROPERTIES
  
  RollbackKeepsTree
