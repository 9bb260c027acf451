SPECIFICATION Spec
CONSTANTS
  Users = {u1}
  Procs = {p1, p2}
  NoOne = none
  Served <- Ops
  MaxSessions = 2
  MaxVersion = 2
  MaxKeys = 1
SYMMETRY Symmetry
INVARIANTS
  TypeOK
  SessionsCurrent
  FullIsEarned
PROPERTIES
  EnrollKeepsFactors
  
