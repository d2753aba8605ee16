SPECIFICATION Spec
CONSTANTS
  t1 = t1
  t2 = t2
  Threads = {t1}
  Catalogs = {c1, c2}
  Empty = Empty
  Bad = Bad
  None = None
  MaxChanges = 1
CHECK_DEADLOCK FALSE
INVARIANT EveryReaderAnswered
