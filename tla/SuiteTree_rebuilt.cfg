SPECIFICATION FairSpec
CONSTANTS
  f1 = f1
  f2 = f2
  f3 = f3
  a = a
  b = b
  old = old
  new = new
  gap = gap
  File = {f1, f2, f3}
  Table = {a, b}
  Rev = {old, new}
  Catalog <- MCRebuilt
  Rebuilt = TRUE
  Overlay = {f1}
  Zip = FALSE
  FirstPin = old
  NoSource = NoSource
INVARIANTS
  TypeOK
  FetchedTreeIsWhole
  RebuiltTreeIsClean
PROPERTIES
  CommandsEnd
