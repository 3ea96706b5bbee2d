SPECIFICATION Spec
CONSTANTS
  Case = {c1}
  Profiles <- MCShapes
  File <- MCFile
  Present <- MCPresent
  Url = {p, q}
  Served = {p}
  Href = {n, h}
  Named = n
  Error = {e1, e2}
  MaxParallel = 2
  GoParallel = 3
  NoSource = NoSource
  Inline = Inline
  None = None
  s = s
  x = x
  m = m
  p = p
  q = q
  n = n
  h = h
  e1 = e1
  e2 = e2
INVARIANT MissingFixtureIsLoud
CHECK_DEADLOCK FALSE
