SPECIFICATION FairSpec
CONSTANTS
  p1 = p1
  p2 = p2
  c1 = c1
  c2 = c2
  Proc <- MCProc
  Commit <- MCCommit
  Paths <- MCPaths
  Tree <- MCTree
  Committed <- MCCommitted
  Locks <- MCLocks
  Selections <- MCSelections
  MaxStarts = 2
  MaxFaults = 1
INVARIANTS
  TypeOK
  FetchedIsPinned
  VerifiedCasesFindVectors
PROPERTIES
  CommandsEnd
CHECK_DEADLOCK FALSE
