\* One name, so up to two files (enabled and disabled); two changes of the folder.
SPECIFICATION FairSpec
CONSTANTS
  a = a
  Mod = {a}
  MaxChanges = 2
INVARIANTS TypeOK NoChangeMissed
PROPERTY ShownIsTrue
