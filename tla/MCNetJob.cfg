\* Two slots for three parts: one may end at once, one cannot be aborted.
CONSTANTS
  p1 = p1
  p2 = p2
  p3 = p3
  Part = {p1, p2, p3}
  Instant = {p1}
  Unstoppable = {p2}
  MaxDoing = 2
  MaxFailures = 1
SPECIFICATION FairSpec
INVARIANTS JobTypeOK OnePlace EndsTruly
PROPERTY Settles
