SPECIFICATION FairSpec
CONSTANTS
  Procs = {p1, p2}
  good = good
  hollow = hollow
  junk = junk
  e1 = e1
  e2 = e2
  Archives = {good, hollow, junk}
  Entries <- MCEntries
  NotZip = {junk}
  Unpinned = Unpinned
  FirstPin = good
  None = None
  MaxCrashes = 1
INVARIANTS
  TypeOK
  SourceIsComplete
  SourceIsPinned
  OutcomeIsHonest
PROPERTIES
  InstallsAtomically
  FetchEnds
