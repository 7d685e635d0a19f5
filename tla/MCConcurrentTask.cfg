\* A ConcurrentTask with two slots; another owner may start c1 and c2, and every
\* failure has a reason.
CONSTANTS
  c1 = c1
  c2 = c2
  c3 = c3
  Child = {c1, c2, c3}
  Shared = {c1, c2}
  Silent = {}
  MaxConcurrent = 2
  IsSequential = FALSE
SPECIFICATION FairSpec
INVARIANTS TypeOK Accounting SuccessMeansAllRan
PROPERTY ImplementsBag
