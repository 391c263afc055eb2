SPECIFICATION StartSpec
CONSTANTS
  a = a
  b = b
  c = c
  Procs <- ThreeProcs
  NoSock = NoSock
SYMMETRY MCSymmetry
INVARIANTS
  SoleDaemon
CHECK_DEADLOCK FALSE
