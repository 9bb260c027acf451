SPECIFICATION FairSpec
CONSTANTS
  Names = {"a", "b"}
  Contents = {good, bad}
  MaxDepth = 1
  MaxLinks = 4
  Procs = {p1, p2}
  NoOne = none
  Absent = absent
  Trees <- PlainTrees
  Included <- OnlyA
  Bad = {bad}
  Twisted = FALSE
  Restarts = TRUE
PROPERTIES
  NginxComesBack
  ImplementsStore
