CONSTANTS
  Threads = {t1, t2}
  Mutexes = {m1}
  Positions = {posA}
  History <- HistoryAA
  Recursive = {}
  Features = {"break"}
  MaxHeld = 1
  MaxDepth = 1
  NULL = NULL
  posA = posA
  posB = posB
SPECIFICATION FairSpec
CHECK_DEADLOCK FALSE
PROPERTIES BypassWakes YieldersWake
