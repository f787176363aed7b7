CONSTANTS
  Threads = {t1, t2}
  Monitors = {m1, m2}
  Positions = {posA, posB}
  Native = {}
  Sites <- Everywhere
  Waits = {}
  FirstFile <- EmptyFile
  Opens = {TRUE}
  Restarts = TRUE
  MaxHeld = 2
  MaxDepth = 1
  NULL = NULL
  posA = posA
  posB = posB
  t1 = t1
  t2 = t2
  m1 = m1
  m2 = m2
SPECIFICATION Spec
CONSTRAINT FewLines
CHECK_DEADLOCK FALSE
INVARIANTS DeadlockRecorded

