SPECIFICATION Spec
CONSTANTS
  f1 = f1
  f2 = f2
  f3 = f3
  a = a
  b = b
  old = old
  new = new
  gap = gap
  File = {f1, f2}
  Table = {a, b}
  Rev = {old, new, gap}
  Catalog <- MCOverlaid
  Rebuilt = FALSE
  Overlay = {}
  Zip = TRUE
  FirstPin = old
  NoSource = NoSource
INVARIANTS
  VerifyIsHonest
  VerifiedCasesHaveFixtures
