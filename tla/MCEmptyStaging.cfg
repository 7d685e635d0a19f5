\* As MCInstanceList, and a staging folder may not be made.
SPECIFICATION Spec
CONSTANTS
  r1 = r1
  r2 = r2
  Inst = {i1, i2}
  Id = {x, y}
  Root = {r1, r2}
  Group = {g}
  None = None
  Dirs <- OneOrTwo
  SameNames = FALSE
  StagingMayFail = TRUE
INVARIANTS OnlyStagingDestroyed
