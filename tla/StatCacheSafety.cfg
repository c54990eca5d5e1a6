\* Three workers, two paths, times 0 (error) to 2.
CONSTANTS
  Thread = {t1, t2, t3}
  Paths <- TwoPaths
  MaxTime = 2
SPECIFICATION Spec
INVARIANTS
  TypeOK
  CacheSorted
  StatsBounded
PROPERTIES
  RepliesGoForward
