SPECIFICATION Spec
CONSTANTS
  Users = {u1, u2}
  Procs = {p1, p2}
  NoOne = none
  Served = {"login", "password", "setup", "update", "delete", "create", "policy"}
  MaxSessions = 2
  MaxVersion = 1
  MaxKeys = 0
SYMMETRY Symmetry
PROPERTIES
  LastAdminKept
  
