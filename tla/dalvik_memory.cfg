CONSTANTS
  Threads = {t1, t2}
  Monitors = {m1, m2}
  Positions = {posA, posB}
  Native = {}
  Sites <- SharedPlaces
  Waits = {m1}
  FirstFile <- EmptyFile
  Opens = {TRUE, FALSE}
  Restarts = TRUE
  MaxHeld = 2
  MaxDepth = 1
  NULL = NULL
  posA = posA
  posB = posB
  t1 = t1
  t2 = t2
  m1 = m1
  m2 = m2
SPECIFICATION FairSpec
CONSTRAINT FewLines
CHECK_DEADLOCK FALSE
INVARIANTS TypeOK NoOccupation Immune DeadlockKnown NoLostWakeup GrantsExact
PROPERTIES ImplementsMemory YieldsEndOrAreFound
