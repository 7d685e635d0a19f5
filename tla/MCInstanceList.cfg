\* Two instances, two names, one group; a second folder comes and goes.
SPECIFICATION FairSpec
CONSTANTS
  r1 = r1
  r2 = r2
  Inst = {i1, i2}
  Id = {x, y}
  Root = {r1, r2}
  Group = {g}
  None = None
  Dirs <- OneOrTwo
  SameNames = FALSE
  StagingMayFail = FALSE
INVARIANTS TypeOK NothingLost TrashCanBeUndone GroupKept
PROPERTIES StagingEnds
