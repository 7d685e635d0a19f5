\* Two callers, a server that changes once in a while.
CONSTANTS
  c1 = c1
  c2 = c2
  v1 = v1
  v2 = v2
  o1 = o1
  o2 = o2
  o3 = o3
  Caller = {c1, c2}
  Version = {v1, v2}
  Obj = {o1, o2, o3}
  Size = 2
  NoValue = NoValue
  MayBeEmpty = FALSE
  AcceptLocal = {c1, c2}
  Overlap = FALSE
SPECIFICATION Spec
INVARIANTS TypeOK OnlyWholeBodies FreshIsTrue
PROPERTIES AbortSticks DiscardedIsFetchedAgain
SYMMETRY Symmetry
