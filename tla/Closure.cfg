SPECIFICATION FairSpec
CONSTANTS
  a = a
  b = b
  c = c
  File = {a, b, c}
  Remote = Remote
  Disks <- MCDisks
INVARIANTS
  TypeOK
  FindsReachable
  ReadsOnce
PROPERTIES
  Terminates
CHECK_DEADLOCK FALSE
