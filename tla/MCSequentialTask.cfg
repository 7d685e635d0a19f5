\* A SequentialTask whose steps nobody else runs, as the plugin hooks are; two of
\* them may fail without a reason.
CONSTANTS
  c1 = c1
  c2 = c2
  c3 = c3
  Child = {c1, c2, c3}
  Shared = {}
  Silent = {c2, c3}
  MaxConcurrent = 1
  IsSequential = TRUE
SPECIFICATION Spec
PROPERTY StepsInOrder
SYMMETRY Symmetry
