SPECIFICATION FairStartSpec
CONSTANTS
  a = a
  b = b
  c = c
  Procs <- ThreeProcs
  NoSock = NoSock
INVARIANTS
  WinnerListens
PROPERTIES
  SpawnSucceeds
CHECK_DEADLOCK FALSE
