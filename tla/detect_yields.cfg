CONSTANTS
  Threads = {t1, t2}
  Mutexes = {m1}
  Positions = {posA}
  History <- HistoryAA
  Recursive = {}
  Features = {"events", "break"}
  MaxHeld = 1
  MaxDepth = 1
  MaxUnread = 1
  QueueOrder <- TwoThreads
  Shortfalls = {0}
  NULL = NULL
  posA = posA
  posB = posB
  t1 = t1
  t2 = t2
SPECIFICATION DetSpec
CHECK_DEADLOCK FALSE
PROPERTIES ImplementsAvoidance
