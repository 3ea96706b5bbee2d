SPECIFICATION Spec
CONSTANTS
  Case = {c1, c2, c3}
  Profiles <- MCShared
  File <- MCFile
  Present <- MCPresent
  Url = {p, q}
  Served = {p}
  Href = {n}
  Named = n
  Error = {e1}
  MaxParallel = 2
  GoParallel = 3
  NoSource = NoSource
  Inline = Inline
  None = None
  s = s
  x = x
  m = m
  p = p
  q = q
  n = n
  h = h
  e1 = e1
  e2 = e2
INVARIANTS TypeOK SlotsBalanced OneSheetPerPath ReadsOwnOutputDef
PROPERTY EveryCaseEnds
CHECK_DEADLOCK FALSE
