CONSTANTS
  Threads = {t1, t2}
  Mutexes = {m1, m2}
  Positions = {posA, posB}
  History <- HistoryAB
  Recursive = {}
  Features = {"events", "break"}
  MaxHeld = 2
  MaxDepth = 1
  MaxUnread = 4
  QueueOrder <- TwoThreads
  Shortfalls = {0}
  NULL = NULL
  posA = posA
  posB = posB
  t1 = t1
  t2 = t2
SPECIFICATION DetSpec
CHECK_DEADLOCK FALSE
INVARIANTS LivelockSeen
